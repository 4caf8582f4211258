--------------------------- MODULE NoteStoreProofs ---------------------------
(***************************************************************************)
(* For every number of notes and operations, three inductive invariants.   *)
(*                                                                         *)
(* IInv: the note tables stay typed, the status column agrees with its     *)
(* provenance, supersession only points forward and never at a missing     *)
(* row.  None of the last three is inductive alone: undo writes back       *)
(* pointers out of the operation log, so the invariant also says that the  *)
(* logged pointers went forward (RecsOK).                                  *)
(*                                                                         *)
(* HInv, of the store with its observers: as long as no row was deleted,   *)
(* operations not undone and plans to come have taken different notes      *)
(* (KeptOK), which is why no undo brings back what another merge retired;  *)
(* and while a merge job is alone, every row differs from what it found    *)
(* only by what the job's one record of it says (QuietOK), which is why    *)
(* undoing that job is exact.                                              *)
(*                                                                         *)
(* PInv, of recall beside the writers: what a call has read, between any   *)
(* two of its SELECTs, still says of the notes nobody touched (SteadyOK),  *)
(* of all notes as long as nobody writes (AloneOK), and of what replaced   *)
(* what as long as no row was deleted (HistoryOK).  A replacement goes     *)
(* forward, so a chain of them ends within the hops a call follows; and a  *)
(* Pool's scores, sums and products over finite sets of members, unfold by *)
(* a least counterexample to their bounds (PoolOK).                        *)
(***************************************************************************)
EXTENDS NoteStoreHistory, PoolRecall, FiniteSetTheorems, WellFoundedInduction, TLAPS

\* A row of id n, on its own.
RowOK(n, row) ==
  /\ row \in Note
  /\ row.status = StatusOf(row.deleted, row.sb)
  /\ row.sb # NULL => row.sb >= n

TableOK(ns) ==
  /\ DOMAIN ns \subseteq NoteIds
  /\ ns = [n \in DOMAIN ns |-> ns[n]]
  /\ \A n \in DOMAIN ns : RowOK(n, ns[n])

RecsOK(recs) ==
  /\ recs \subseteq Record
  /\ \A r \in recs : r.prevSb # NULL => r.prevSb >= r.note

LogOK ==
  /\ DOMAIN ops \subseteq OpIds
  /\ ops = [o \in DOMAIN ops |-> ops[o]]
  /\ \A o \in DOMAIN ops : ops[o] \in Operation /\ RecsOK(ops[o].recs)

JobOK ==
  /\ links \subseteq NoteIds \X NoteIds
  /\ nextUid \in 1 .. MaxWrites + 1
  /\ lock \in {"free", "reembed-notes", "storage-retention"} \cup Kinds
  /\ plan \subseteq Cluster
  /\ op \in OpIds \cup {NULL}
  /\ op # NULL => op \in DOMAIN ops /\ lock \in Kinds
  /\ reads \subseteq [note: NoteIds, uid: Uids]
  /\ expiry \in [notes: SUBSET NoteIds, ops: SUBSET OpIds]

IInv == TableOK(notes) /\ ForeignKeysHold(notes) /\ LogOK /\ JobOK

-----------------------------------------------------------------------------
(* What the row-level operators preserve. *)

\* Inserting at a fresh id keeps the table sound, and no id is larger.
LEMMA InsertedOK ==
  ASSUME NEW ns, TableOK(ns), NEW id \in NoteIds, FreshId(id, DOMAIN ns),
         NEW v \in Uids \cup {NULL}, nextUid \in Uids
  PROVE  /\ TableOK(Inserted(ns, id, v))
         /\ DOMAIN Inserted(ns, id, v) = DOMAIN ns \cup {id}
         /\ ForeignKeysHold(ns) => ForeignKeysHold(Inserted(ns, id, v))
         /\ \A n \in DOMAIN ns \cup {id} : n <= id
         /\ \A n \in DOMAIN ns : Inserted(ns, id, v)[n] = ns[n]
<1>1. id \notin DOMAIN ns
  BY DEF FreshId, TableOK, NoteIds
<1> QED
  BY <1>1 DEF FreshId, TableOK, RowOK, Inserted, Note, Statuses, StatusOf,
              ForeignKeysHold, NoteIds, NULL

\* The same for a row without a vector.
LEMMA PlainInsertedOK ==
  ASSUME NEW ns, TableOK(ns), NEW id \in NoteIds, FreshId(id, DOMAIN ns),
         nextUid \in Uids
  PROVE  /\ TableOK(Inserted(ns, id, NULL))
         /\ DOMAIN Inserted(ns, id, NULL) = DOMAIN ns \cup {id}
         /\ ForeignKeysHold(ns) => ForeignKeysHold(Inserted(ns, id, NULL))
         /\ \A n \in DOMAIN ns \cup {id} : n <= id
         /\ \A n \in DOMAIN ns : Inserted(ns, id, NULL)[n] = ns[n]
<1>1. id \notin DOMAIN ns
  BY DEF FreshId, TableOK, NoteIds
<1> QED
  BY <1>1 DEF FreshId, TableOK, RowOK, Inserted, Note, Statuses, StatusOf,
              ForeignKeysHold, NoteIds, NULL

\* Retiring a row keeps it sound and its pointer as it is.
LEMMA RetiredOK ==
  ASSUME NEW n \in NoteIds, NEW row, RowOK(n, row)
  PROVE  RowOK(n, Retired(row)) /\ Retired(row).sb = row.sb
BY DEF RowOK, Retired, Note, Statuses, StatusOf, NULL

\* Retiring any rows keeps the table sound.
LEMMA TombstonedOK ==
  ASSUME NEW ns, TableOK(ns), NEW S
  PROVE  /\ TableOK(Tombstoned(ns, S))
         /\ DOMAIN Tombstoned(ns, S) = DOMAIN ns
         /\ ForeignKeysHold(ns) => ForeignKeysHold(Tombstoned(ns, S))
<1>1. ASSUME NEW n \in NoteIds, NEW row, RowOK(n, row)
      PROVE  RowOK(n, Retired(row)) /\ Retired(row).sb = row.sb
  BY <1>1, RetiredOK
<1> QED
  BY <1>1 DEF TableOK, Tombstoned, ForeignKeysHold

\* Pointing an active row at a row that is not before it.
LEMMA SupersededOK ==
  ASSUME NEW ns, TableOK(ns), NEW old \in DOMAIN ns, NEW new \in DOMAIN ns,
         ns[old].status = "active", old <= new
  PROVE  /\ TableOK(Superseded(ns, old, new))
         /\ DOMAIN Superseded(ns, old, new) = DOMAIN ns
         /\ ForeignKeysHold(ns) => ForeignKeysHold(Superseded(ns, old, new))
<1> DEFINE ss == Superseded(ns, old, new)
           row == [ns[old] EXCEPT !.sb = new, !.status = "superseded"]
<1>1. /\ DOMAIN ss = DOMAIN ns /\ ss = [n \in DOMAIN ss |-> ss[n]]
      /\ ss[old] = row
      /\ \A n \in DOMAIN ns : n # old => ss[n] = ns[n]
  BY DEF Superseded, TableOK
<1>2. /\ old \in Nat \ {0} /\ new \in Nat \ {0} /\ old \in NoteIds /\ new \in NoteIds
      /\ ns[old] \in Note /\ ~ns[old].deleted
  BY DEF TableOK, RowOK, StatusOf, NoteIds
<1>3. RowOK(old, row) /\ row.sb = new
  BY <1>2 DEF RowOK, Note, Statuses, StatusOf, NULL
<1> HIDE DEF ss, row
<1>4. TableOK(ss)
  BY <1>1, <1>3 DEF TableOK
<1>5. ForeignKeysHold(ns) => ForeignKeysHold(ss)
  BY <1>1, <1>3 DEF ForeignKeysHold
<1> QED
  BY <1>1, <1>4, <1>5 DEF ss

\* Pointing rows of any status at the last row of the table.
LEMMA PointedAtOK ==
  ASSUME NEW ns, TableOK(ns), NEW S, NEW new \in DOMAIN ns,
         \A n \in DOMAIN ns : n <= new
  PROVE  /\ TableOK(PointedAt(ns, S, new))
         /\ DOMAIN PointedAt(ns, S, new) = DOMAIN ns
         /\ ForeignKeysHold(ns) => ForeignKeysHold(PointedAt(ns, S, new))
<1> DEFINE ps == PointedAt(ns, S, new)
<1>1. ASSUME NEW n \in DOMAIN ns
      PROVE  RowOK(n, ps[n]) /\ ps[n].sb \in {new, ns[n].sb}
  <2> DEFINE row == [ns[n] EXCEPT !.sb = new,
                       !.status = IF @ = "tombstoned" THEN @ ELSE "superseded"]
  <2>1. /\ ns[n] \in Note /\ ns[n].status = StatusOf(ns[n].deleted, ns[n].sb)
        /\ new \in NoteIds /\ new # NULL /\ new >= n
    BY DEF TableOK, RowOK, NoteIds, NULL
  <2>2. RowOK(n, row) /\ row.sb = new
    BY <2>1 DEF RowOK, Note, Statuses, StatusOf
  <2> QED
    BY <2>2 DEF PointedAt, TableOK
<1>2. DOMAIN ps = DOMAIN ns /\ ps = [n \in DOMAIN ps |-> ps[n]]
  BY DEF PointedAt
<1> HIDE DEF ps
<1>3. TableOK(ps) /\ (ForeignKeysHold(ns) => ForeignKeysHold(ps))
  BY <1>1, <1>2 DEF TableOK, ForeignKeysHold
<1> QED
  BY <1>2, <1>3 DEF ps

\* Unlinking rows and then deleting some of them leaves no pointer behind.
LEMMA PurgedOK ==
  ASSUME NEW ns, TableOK(ns), ForeignKeysHold(ns), NEW S \in SUBSET NoteIds,
         NEW T \in SUBSET S
  PROVE  /\ TableOK(Without(Unlinked(ns, S), T))
         /\ ForeignKeysHold(Without(Unlinked(ns, S), T))
<1> DEFINE us == Unlinked(ns, S)
           ws == Without(us, T)
<1>1. ASSUME NEW n \in DOMAIN ns
      PROVE  RowOK(n, us[n]) /\ (us[n].sb # NULL => us[n].sb \in DOMAIN ns \ S)
  <2> DEFINE row == [ns[n] EXCEPT !.sb = NULL,
                       !.status = IF @ = "superseded" THEN "active" ELSE @]
  <2>1. RowOK(n, ns[n]) /\ (ns[n].sb # NULL => ns[n].sb \in DOMAIN ns)
    BY DEF TableOK, ForeignKeysHold
  <2>2. CASE ns[n].sb \in S
    <3>1. ns[n].sb # NULL
      BY <2>2 DEF NoteIds, NULL
    <3>2. RowOK(n, row) /\ row.sb = NULL
      BY <2>1, <3>1 DEF RowOK, Note, Statuses, StatusOf
    <3> QED
      BY <2>2, <3>2 DEF Unlinked
  <2>3. CASE ns[n].sb \notin S
    BY <2>1, <2>3 DEF Unlinked
  <2> QED
    BY <2>2, <2>3
<1>2. DOMAIN us = DOMAIN ns
  BY DEF Unlinked
<1> HIDE DEF us
<1>3. /\ DOMAIN ws = DOMAIN ns \ T /\ ws = [n \in DOMAIN ws |-> ws[n]]
      /\ \A n \in DOMAIN ws : ws[n] = us[n]
  BY <1>2 DEF Without
<1> HIDE DEF ws
<1>4. TableOK(ws) /\ ForeignKeysHold(ws)
  BY <1>1, <1>3 DEF TableOK, ForeignKeysHold
<1> QED
  BY <1>4 DEF ws, us

\* Recording notes under an operation keeps its records sound.
LEMMA RecordedOK ==
  ASSUME NEW recs, RecsOK(recs), NEW ns, TableOK(ns),
         NEW S \in SUBSET NoteIds, NEW action \in Actions
  PROVE  RecsOK(Recorded(recs, ns, S, action))
<1> SUFFICES ASSUME NEW r \in Recorded(recs, ns, S, action)
             PROVE  r \in Record /\ (r.prevSb # NULL => r.prevSb >= r.note)
  BY DEF RecsOK
<1>1. CASE r \in recs
  BY <1>1 DEF RecsOK
<1>2. CASE r \notin recs
  <2>1. PICK n \in S : r = [note |-> n, action |-> action,
          again |-> \E q \in recs : q.note = n,
          prevDeleted |-> IF n \in DOMAIN ns THEN ns[n].deleted ELSE FALSE,
          prevSb |-> IF n \in DOMAIN ns THEN ns[n].sb ELSE NULL]
    BY <1>2 DEF Recorded
  <2>2. n \in DOMAIN ns => /\ ns[n].deleted \in BOOLEAN
                           /\ ns[n].sb \in NoteIds \cup {NULL}
                           /\ ns[n].sb # NULL => ns[n].sb >= n
    BY DEF TableOK, RowOK, Note
  <2>3. (\E q \in recs : q.note = n) \in BOOLEAN
    OBVIOUS
  <2> QED
    BY <2>1, <2>2, <2>3 DEF Record
<1> QED
  BY <1>1, <1>2

\* Undoing sound records keeps every row sound; the foreign key is what undo
\* itself has to check.
LEMMA UndoneOK ==
  ASSUME NEW ns, TableOK(ns), NEW recs, RecsOK(recs)
  PROVE  TableOK(Undone(ns, recs)) /\ DOMAIN Undone(ns, recs) = DOMAIN ns
<1>1. ASSUME NEW n \in NoteIds, NEW row, RowOK(n, row)
      PROVE  RowOK(n, Retired(row))
  BY <1>1, RetiredOK
<1>2. ASSUME NEW n \in NoteIds, NEW row, RowOK(n, row), NEW r \in recs, r.note = n
      PROVE  RowOK(n, Restored(row, r))
  BY <1>2 DEF RowOK, Restored, Note, Record, RecsOK, Statuses, StatusOf, NULL
<1>3. ASSUME NEW n \in NoteIds, NEW row, RowOK(n, row)
      PROVE  RowOK(n, Reversed(row, {r \in recs : r.note = n}))
  <2> DEFINE R == {r \in recs : r.note = n}
             created == {r \in R : r.action = "created"}
             merged == R \ created
             m == CHOOSE r \in merged : TRUE
  <2>1. CASE merged = {}
    BY <1>1, <1>3, <2>1 DEF Reversed
  <2>2. CASE merged # {}
    <3>1. m \in merged
      BY <2>2
    <3>2. RowOK(n, Restored(row, m)) /\ RowOK(n, Restored(Retired(row), m))
      BY <1>1, <1>2, <1>3, <3>1
    <3>3. RowOK(n, Retired(Restored(row, m)))
      BY <1>1, <3>2
    <3> QED
      BY <2>2, <3>2, <3>3 DEF Reversed
  <2> QED
    BY <2>1, <2>2
<1> QED
  BY <1>3 DEF Undone, TableOK

-----------------------------------------------------------------------------
(* One lemma per action: it preserves the invariant. *)

USE DEF jobVars

\* The job's own state and the log are untouched by the unlocked writers.
LEMMA UnlockedFrame ==
  ASSUME LogOK, JobOK, UNCHANGED <<ops, jobVars>>,
         links' \subseteq NoteIds \X NoteIds, nextUid' \in 1 .. MaxWrites + 1
  PROVE  LogOK' /\ JobOK'
BY DEF LogOK, JobOK, RecsOK

\* Minting a ULID stays within the bound.
LEMMA MintOK ==
  ASSUME JobOK, Mint
  PROVE  nextUid \in Uids /\ nextUid' \in 1 .. MaxWrites + 1
BY BoundAssumption DEF JobOK, Mint, Uids

\* New links join existing rows.
LEMMA AutolinkedOK ==
  ASSUME NEW ls \in SUBSET (NoteIds \X NoteIds), NEW ns, TableOK(ns),
         NEW id \in NoteIds
  PROVE  Autolinked(ls, ns, id) \subseteq NoteIds \X NoteIds
<1> DEFINE near == {m \in DOMAIN ns \ {id} :
                      /\ ns[m].vec # NULL
                      /\ ns[m].status # "tombstoned"
                      /\ <<ns[id].vec, ns[m].vec>> \in Near}
<1>1. near \subseteq NoteIds
  BY DEF TableOK
<1>2. Autolinked(ls, ns, id) =
        ls \cup {<<id, m>> : m \in near} \cup {<<m, id>> : m \in near}
  BY DEF Autolinked
<1> HIDE DEF near
<1> QED
  BY <1>1, <1>2

LEMMA RememberOK ==
  ASSUME IInv, NEW hasVec \in BOOLEAN, Remember(hasVec)
  PROVE  IInv'
<1>1. PICK id \in NoteIds : /\ FreshId(id, DOMAIN notes)
                            /\ notes' = Inserted(notes, id, Vector(hasVec))
                            /\ links' = Autolinked(links, notes', id)
  BY DEF Remember
<1>2. nextUid \in Uids /\ nextUid' \in 1 .. MaxWrites + 1
  BY MintOK DEF Remember, IInv
<1>3. Vector(hasVec) \in Uids \cup {NULL}
  BY <1>2 DEF Vector
<1>4. TableOK(notes)' /\ ForeignKeysHold(notes)'
  BY <1>1, <1>2, <1>3, InsertedOK DEF IInv
<1>5. links' \subseteq NoteIds \X NoteIds
  BY <1>1, <1>4, AutolinkedOK DEF IInv, JobOK
<1> QED
  BY <1>2, <1>4, <1>5, UnlockedFrame DEF IInv, Remember

LEMMA ForgetOK ==
  ASSUME IInv, NEW n, Forget(n)
  PROVE  IInv'
<1>1. TableOK(notes)' /\ ForeignKeysHold(notes)'
  BY TombstonedOK DEF IInv, Forget
<1> QED
  BY <1>1, UnlockedFrame DEF IInv, Forget, JobOK

LEMMA HardForgetOK ==
  ASSUME IInv, NEW n \in NoteIds, HardForget(n)
  PROVE  IInv'
<1>1. TableOK(notes)' /\ ForeignKeysHold(notes)'
  BY PurgedOK DEF IInv, HardForget
<1>2. links' \subseteq NoteIds \X NoteIds
  BY DEF IInv, JobOK, HardForget, Cascaded
<1> QED
  BY <1>1, <1>2, UnlockedFrame DEF IInv, HardForget, JobOK

LEMMA SupersedeOK ==
  ASSUME IInv, NEW n \in NoteIds, NEW hasVec \in BOOLEAN, Supersede(n, hasVec)
  PROVE  IInv'
<1>1. PICK id \in NoteIds :
        /\ FreshId(id, DOMAIN notes)
        /\ notes' = Superseded(Inserted(notes, id, Vector(hasVec)), n, id)
        /\ links' = Autolinked(links, notes', id)
  BY DEF Supersede
<1>2. nextUid \in Uids /\ nextUid' \in 1 .. MaxWrites + 1
  BY MintOK DEF Supersede, IInv
<1>3. Vector(hasVec) \in Uids \cup {NULL}
  BY <1>2 DEF Vector
<1> DEFINE inserted == Inserted(notes, id, Vector(hasVec))
<1>8. /\ n \in DOMAIN notes /\ notes[n].status = "active"
      /\ TableOK(notes) /\ ForeignKeysHold(notes)
  BY DEF Supersede, IInv
<1>4. /\ TableOK(inserted) /\ ForeignKeysHold(inserted)
      /\ n \in DOMAIN inserted /\ id \in DOMAIN inserted
      /\ n <= id /\ inserted[n].status = "active"
  <2>1. /\ TableOK(inserted) /\ ForeignKeysHold(inserted)
        /\ DOMAIN inserted = DOMAIN notes \cup {id}
        /\ \A m \in DOMAIN notes \cup {id} : m <= id
        /\ \A m \in DOMAIN notes : inserted[m] = notes[m]
    <3>1. FreshId(id, DOMAIN notes) /\ nextUid \in Uids
      BY <1>1, <1>2
    <3> QED
      BY <1>3, <1>8, <3>1, InsertedOK
  <2> HIDE DEF inserted
  <2> QED
    BY <1>8, <2>1
<1> HIDE DEF inserted
<1>5. TableOK(Superseded(inserted, n, id)) /\ ForeignKeysHold(Superseded(inserted, n, id))
  BY <1>4, SupersededOK
<1>6. TableOK(notes)' /\ ForeignKeysHold(notes)'
  BY <1>1, <1>5 DEF inserted
<1>7. links' \subseteq NoteIds \X NoteIds
  BY <1>1, <1>6, AutolinkedOK DEF IInv, JobOK
<1> QED
  BY <1>2, <1>6, <1>7, UnlockedFrame DEF IInv, Supersede

\* A job that ends, or starts, without touching notes and log.
LEMMA PlanMergeOK ==
  ASSUME IInv, NEW kind \in Kinds, PlanMerge(kind)
  PROVE  IInv'
<1>1. PICK seed \in Seeding : plan' = Clusters(seed)
  BY DEF PlanMerge
<1>2. Candidates \subseteq NoteIds
  BY DEF Candidates, IInv, TableOK
<1>3. plan' \subseteq Cluster
  BY <1>1, <1>2 DEF Clusters, Seeding, Cluster
<1>4. LogOK' /\ TableOK(notes)' /\ ForeignKeysHold(notes)'
  BY DEF IInv, PlanMerge, LogOK, RecsOK, TableOK, ForeignKeysHold, RowOK
<1> QED
  BY <1>3, <1>4 DEF IInv, JobOK, PlanMerge, Free, Kinds

LEMMA BeginOperationOK ==
  ASSUME IInv, BeginOperation
  PROVE  IInv'
<1>1. PICK id \in OpIds :
        /\ op' = id
        /\ ops' = [o \in DOMAIN ops \cup {id} |->
                    IF o = id THEN [kind |-> lock, undone |-> FALSE, recs |-> {}]
                    ELSE ops[o]]
  BY DEF BeginOperation
<1>2. LogOK'
  BY <1>1 DEF IInv, LogOK, BeginOperation, Operation, RecsOK
<1>3. JobOK'
  BY <1>1 DEF IInv, JobOK, BeginOperation
<1>4. TableOK(notes)' /\ ForeignKeysHold(notes)'
  BY DEF IInv, BeginOperation, TableOK, ForeignKeysHold, RowOK
<1> QED
  BY <1>2, <1>3, <1>4 DEF IInv

\* Recording more under the job's operation keeps the log sound.
LEMMA LoggedOK ==
  ASSUME IInv, op # NULL, NEW recs, RecsOK(recs),
         ops' = [ops EXCEPT ![op].recs = recs]
  PROVE  LogOK' /\ DOMAIN ops' = DOMAIN ops
<1>1. op \in DOMAIN ops
  BY DEF IInv, JobOK
<1>2. recs \in SUBSET Record
  BY DEF RecsOK
<1>3. [ops[op] EXCEPT !.recs = recs] \in Operation
  BY <1>1, <1>2 DEF IInv, LogOK, Operation
<1>4. /\ DOMAIN ops' = DOMAIN ops /\ ops' = [o \in DOMAIN ops' |-> ops'[o]]
      /\ ops'[op] = [ops[op] EXCEPT !.recs = recs]
      /\ \A o \in DOMAIN ops : o # op => ops'[o] = ops[o]
  BY <1>1 DEF IInv, LogOK
<1>5. ops'[op].recs = recs
  BY <1>1, <1>3, <1>4 DEF IInv, LogOK, Operation
<1> QED
  BY <1>3, <1>4, <1>5 DEF IInv, LogOK, RecsOK

\* The job goes on to its next cluster.
LEMMA MergeFrame ==
  ASSUME IInv, DOMAIN ops' = DOMAIN ops, UNCHANGED <<lock, op, reads, expiry>>,
         plan' \subseteq plan, nextUid' \in 1 .. MaxWrites + 1,
         links' \subseteq NoteIds \X NoteIds
  PROVE  JobOK'
BY DEF IInv, JobOK

LEMMA MergeByKeepingOK ==
  ASSUME IInv, NEW c \in plan, MergeByKeeping(c)
  PROVE  IInv'
<1> DEFINE others == c.members \ {c.rep}
           recs == Recorded(ops[op].recs, notes, others, "tombstoned")
<1>1. c \in Cluster /\ others \in SUBSET NoteIds
  BY DEF IInv, JobOK, Cluster
<1>2. RecsOK(ops[op].recs)
  BY DEF IInv, JobOK, LogOK, MergeByKeeping
<1>3. RecsOK(recs)
  BY <1>1, <1>2, RecordedOK DEF IInv, Actions
<1>4. LogOK' /\ DOMAIN ops' = DOMAIN ops
  <2>1. ops' = [ops EXCEPT ![op].recs = recs]
    BY DEF MergeByKeeping
  <2> HIDE DEF recs
  <2> QED
    BY <1>3, <2>1, LoggedOK DEF MergeByKeeping
<1>5. TableOK(notes)' /\ ForeignKeysHold(notes)'
  BY TombstonedOK DEF IInv, MergeByKeeping
<1>6. JobOK'
  BY <1>4, MergeFrame DEF IInv, JobOK, MergeByKeeping
<1> QED
  BY <1>4, <1>5, <1>6 DEF IInv

LEMMA MergeByRewritingOK ==
  ASSUME IInv, NEW c \in plan, MergeByRewriting(c)
  PROVE  IInv'
<1>1. PICK id \in NoteIds :
        /\ FreshId(id, DOMAIN notes)
        /\ notes' = Tombstoned(Superseded(Inserted(notes, id, NULL), c.rep, id), c.members)
        /\ ops' = [ops EXCEPT ![op].recs =
                     Recorded(Recorded(ops[op].recs, notes, c.members, "tombstoned"),
                              Inserted(notes, id, NULL), {id}, "created")]
  BY DEF MergeByRewriting
<1> DEFINE inserted == Inserted(notes, id, NULL)
           retired == Recorded(ops[op].recs, notes, c.members, "tombstoned")
           recs == Recorded(retired, inserted, {id}, "created")
<1>2. nextUid \in Uids /\ nextUid' \in 1 .. MaxWrites + 1
  BY MintOK DEF MergeByRewriting, IInv
<1>3. /\ TableOK(inserted) /\ ForeignKeysHold(inserted)
      /\ c.rep \in DOMAIN inserted /\ id \in DOMAIN inserted
      /\ c.rep <= id /\ inserted[c.rep].status = "active"
  <2>1. /\ c.rep \in DOMAIN notes /\ notes[c.rep].status = "active"
        /\ TableOK(notes) /\ ForeignKeysHold(notes)
    BY DEF MergeByRewriting, IInv
  <2>2. /\ TableOK(inserted) /\ ForeignKeysHold(inserted)
        /\ DOMAIN inserted = DOMAIN notes \cup {id}
        /\ \A m \in DOMAIN notes \cup {id} : m <= id
        /\ \A m \in DOMAIN notes : inserted[m] = notes[m]
    <3>1. FreshId(id, DOMAIN notes) /\ nextUid \in Uids
      BY <1>1, <1>2
    <3> QED
      BY <2>1, <3>1, PlainInsertedOK
  <2> HIDE DEF inserted
  <2> QED
    BY <2>1, <2>2
<1>4. RecsOK(recs)
  <2>1. c.members \in SUBSET NoteIds /\ RecsOK(ops[op].recs)
    BY DEF IInv, JobOK, Cluster, LogOK, MergeByRewriting
  <2>2. RecsOK(retired)
    BY <2>1, RecordedOK DEF IInv, Actions
  <2> HIDE DEF retired, inserted
  <2> QED
    BY <1>3, <2>2, RecordedOK DEF Actions
<1>5. LogOK' /\ DOMAIN ops' = DOMAIN ops
  <2>1. ops' = [ops EXCEPT ![op].recs = recs] /\ op # NULL
    BY <1>1 DEF MergeByRewriting
  <2> HIDE DEF recs
  <2> QED
    BY <1>4, <2>1, LoggedOK
<1>6. TableOK(notes)' /\ ForeignKeysHold(notes)'
  <2>1. notes' = Tombstoned(Superseded(inserted, c.rep, id), c.members)
    BY <1>1
  <2> HIDE DEF inserted
  <2>2. TableOK(Superseded(inserted, c.rep, id)) /\ ForeignKeysHold(Superseded(inserted, c.rep, id))
    BY <1>3, SupersededOK
  <2> QED
    BY <2>1, <2>2, TombstonedOK
<1>7. JobOK'
  BY <1>2, <1>5, MergeFrame DEF IInv, JobOK, MergeByRewriting
<1> QED
  BY <1>5, <1>6, <1>7 DEF IInv

LEMMA ReflectClusterOK ==
  ASSUME IInv, NEW c \in plan, NEW hasVec \in BOOLEAN, ReflectCluster(c, hasVec)
  PROVE  IInv'
<1>1. PICK id \in NoteIds :
        /\ FreshId(id, DOMAIN notes)
        /\ notes' = Tombstoned(PointedAt(Inserted(notes, id, Vector(hasVec)),
                                         c.members, id), c.members)
        /\ ops' = [ops EXCEPT ![op].recs =
                     Recorded(Recorded(ops[op].recs, Inserted(notes, id, Vector(hasVec)),
                                       {id}, "created"),
                              Inserted(notes, id, Vector(hasVec)), c.members, "superseded")]
        /\ links' = Autolinked(links, notes', id)
  BY DEF ReflectCluster
<1> DEFINE inserted == Inserted(notes, id, Vector(hasVec))
           created == Recorded(ops[op].recs, inserted, {id}, "created")
           recs == Recorded(created, inserted, c.members, "superseded")
<1>2. nextUid \in Uids /\ nextUid' \in 1 .. MaxWrites + 1
  BY MintOK DEF ReflectCluster, IInv
<1>3. /\ TableOK(inserted) /\ ForeignKeysHold(inserted)
      /\ id \in DOMAIN inserted
      /\ \A n \in DOMAIN inserted : n <= id
  <2>1. TableOK(notes) /\ ForeignKeysHold(notes) /\ Vector(hasVec) \in Uids \cup {NULL}
    BY <1>2 DEF IInv, Vector
  <2>2. /\ TableOK(inserted) /\ ForeignKeysHold(inserted)
        /\ DOMAIN inserted = DOMAIN notes \cup {id}
        /\ \A m \in DOMAIN notes \cup {id} : m <= id
    <3>1. FreshId(id, DOMAIN notes) /\ nextUid \in Uids
      BY <1>1, <1>2
    <3> QED
      BY <2>1, <3>1, InsertedOK
  <2> HIDE DEF inserted
  <2> QED
    BY <2>2
<1>4. RecsOK(recs)
  <2>1. c.members \in SUBSET NoteIds /\ RecsOK(ops[op].recs)
    BY DEF IInv, JobOK, Cluster, LogOK, ReflectCluster
  <2> HIDE DEF inserted
  <2>2. RecsOK(created)
    BY <1>3, <2>1, RecordedOK DEF Actions
  <2> HIDE DEF created
  <2> QED
    BY <1>3, <2>1, <2>2, RecordedOK DEF Actions
<1>5. LogOK' /\ DOMAIN ops' = DOMAIN ops
  <2>1. ops' = [ops EXCEPT ![op].recs = recs] /\ op # NULL
    BY <1>1 DEF ReflectCluster
  <2> HIDE DEF recs
  <2> QED
    BY <1>4, <2>1, LoggedOK
<1>6. TableOK(notes)' /\ ForeignKeysHold(notes)'
  <2>1. notes' = Tombstoned(PointedAt(inserted, c.members, id), c.members)
    BY <1>1
  <2> HIDE DEF inserted
  <2>2. /\ TableOK(PointedAt(inserted, c.members, id))
        /\ ForeignKeysHold(PointedAt(inserted, c.members, id))
    BY <1>3, PointedAtOK
  <2> QED
    BY <2>1, <2>2, TombstonedOK
<1>7. links' \subseteq NoteIds \X NoteIds
  BY <1>1, <1>6, AutolinkedOK DEF IInv, JobOK
<1>8. JobOK'
  BY <1>2, <1>5, <1>7, MergeFrame DEF IInv, JobOK, ReflectCluster
<1> QED
  BY <1>5, <1>6, <1>8 DEF IInv

\* What a job leaves behind when it lets go of the lock.
LEMMA ReleaseOK ==
  ASSUME IInv, Release, UNCHANGED nextUid, links' \subseteq links
  PROVE  JobOK'
BY DEF IInv, JobOK, Release, NoExpiry

LEMMA FinishMergeOK ==
  ASSUME IInv, FinishMerge
  PROVE  IInv'
<1>1. LogOK'
  BY DEF IInv, LogOK, FinishMerge, RecsOK
<1>2. TableOK(notes)' /\ ForeignKeysHold(notes)'
  BY DEF IInv, FinishMerge, TableOK, ForeignKeysHold, RowOK
<1> QED
  BY <1>1, <1>2, ReleaseOK DEF IInv, FinishMerge

LEMMA PlanReembedOK ==
  ASSUME IInv, PlanReembed
  PROVE  IInv'
<1>1. reads' \subseteq [note: NoteIds, uid: Uids]
  BY DEF PlanReembed, IInv, TableOK, RowOK, Note
<1>2. LogOK' /\ TableOK(notes)' /\ ForeignKeysHold(notes)'
  BY DEF IInv, PlanReembed, LogOK, RecsOK, TableOK, ForeignKeysHold, RowOK
<1> QED
  BY <1>1, <1>2 DEF IInv, JobOK, PlanReembed, Free, Kinds

\* Changing only vectors keeps the table sound.
LEMMA VectorsOK ==
  ASSUME NEW ns, TableOK(ns), ForeignKeysHold(ns), NEW ms,
         DOMAIN ms = DOMAIN ns, ms = [n \in DOMAIN ms |-> ms[n]],
         \A n \in DOMAIN ns : \E v \in Uids \cup {NULL} :
            ms[n] = [ns[n] EXCEPT !.vec = v]
  PROVE  TableOK(ms) /\ ForeignKeysHold(ms)
<1>1. ASSUME NEW n \in DOMAIN ns PROVE RowOK(n, ms[n]) /\ ms[n].sb = ns[n].sb
  <2>1. PICK v \in Uids \cup {NULL} : ms[n] = [ns[n] EXCEPT !.vec = v]
    OBVIOUS
  <2>2. RowOK(n, ns[n])
    BY DEF TableOK
  <2> QED
    BY <2>1, <2>2 DEF RowOK, Note
<1> QED
  BY <1>1 DEF TableOK, ForeignKeysHold

LEMMA WriteEmbeddingsOK ==
  ASSUME IInv, WriteEmbeddings
  PROVE  IInv'
<1>1. ASSUME NEW n \in DOMAIN notes
      PROVE  \E v \in Uids \cup {NULL} : notes'[n] = [notes[n] EXCEPT !.vec = v]
  <2> DEFINE r == CHOOSE r \in reads : r.note = n
  <2>1. CASE notes[n].vec = NULL /\ \E q \in reads : q.note = n
    <3>1. r \in reads
      BY <2>1
    <3>2. r.uid \in Uids
      BY <3>1 DEF IInv, JobOK
    <3> QED
      BY <2>1, <3>2 DEF WriteEmbeddings
  <2>2. CASE ~(notes[n].vec = NULL /\ \E q \in reads : q.note = n)
    <3>1. notes'[n] = notes[n] /\ notes[n] \in Note
      BY <2>2 DEF WriteEmbeddings, IInv, TableOK, RowOK
    <3> QED
      BY <3>1 DEF Note
  <2> QED
    BY <2>1, <2>2
<1>2. DOMAIN notes' = DOMAIN notes /\ notes' = [n \in DOMAIN notes' |-> notes'[n]]
  BY DEF WriteEmbeddings
<1>3. TableOK(notes') /\ ForeignKeysHold(notes')
  BY <1>1, <1>2, VectorsOK DEF IInv
<1>4. LogOK'
  BY DEF IInv, LogOK, RecsOK, WriteEmbeddings
<1> QED
  BY <1>3, <1>4, ReleaseOK DEF IInv, WriteEmbeddings

LEMMA PlanExpiryOK ==
  ASSUME IInv, PlanExpiry
  PROVE  IInv'
<1>1. expiry' \in [notes: SUBSET NoteIds, ops: SUBSET OpIds]
  BY DEF PlanExpiry, IInv, TableOK, LogOK
<1>2. LogOK' /\ TableOK(notes)' /\ ForeignKeysHold(notes)'
  BY DEF IInv, PlanExpiry, LogOK, RecsOK, TableOK, ForeignKeysHold, RowOK
<1> QED
  BY <1>1, <1>2 DEF IInv, JobOK, PlanExpiry, Free, Kinds

LEMMA ApplyExpiryOK ==
  ASSUME IInv, ApplyExpiry
  PROVE  IInv'
<1> DEFINE gone == {n \in expiry.notes \cap DOMAIN notes :
                      notes[n].status = "tombstoned"}
<1>1. gone \in SUBSET expiry.notes /\ expiry.notes \in SUBSET NoteIds
  BY DEF IInv, JobOK
<1>2. TableOK(notes)' /\ ForeignKeysHold(notes)'
  BY <1>1, PurgedOK DEF IInv, ApplyExpiry
<1>3. LogOK'
  BY DEF IInv, LogOK, ApplyExpiry, RecsOK
<1>4. links' \subseteq links
  BY DEF ApplyExpiry, Cascaded
<1> QED
  BY <1>2, <1>3, <1>4, ReleaseOK DEF IInv, ApplyExpiry

LEMMA AbortJobOK ==
  ASSUME IInv, AbortJob
  PROVE  IInv'
<1>1. LogOK' /\ TableOK(notes)' /\ ForeignKeysHold(notes)'
  BY DEF IInv, AbortJob, LogOK, RecsOK, TableOK, ForeignKeysHold, RowOK
<1> QED
  BY <1>1, ReleaseOK DEF IInv, AbortJob

LEMMA UndoOperationOK ==
  ASSUME IInv, NEW o \in OpIds, UndoOperation(o)
  PROVE  IInv'
<1>1. o \in DOMAIN ops /\ RecsOK(ops[o].recs)
  BY DEF UndoOperation, IInv, LogOK
<1>2. TableOK(notes)' /\ ForeignKeysHold(notes)'
  BY <1>1, UndoneOK DEF IInv, UndoOperation
<1>3. /\ DOMAIN ops' = DOMAIN ops /\ ops' = [p \in DOMAIN ops' |-> ops'[p]]
      /\ ops'[o] = [ops[o] EXCEPT !.undone = TRUE]
      /\ \A p \in DOMAIN ops : p # o => ops'[p] = ops[p]
  BY <1>1 DEF UndoOperation, IInv, LogOK
<1>4. ops'[o] \in Operation /\ ops'[o].recs = ops[o].recs
  BY <1>1, <1>3 DEF IInv, LogOK, Operation
<1>5. LogOK'
  BY <1>1, <1>3, <1>4 DEF IInv, LogOK, RecsOK
<1>6. JobOK'
  BY <1>3 DEF IInv, JobOK, UndoOperation
<1> QED
  BY <1>2, <1>5, <1>6 DEF IInv

LEMMA ClearNotesOK ==
  ASSUME IInv, ClearNotes
  PROVE  IInv'
<1>1. TableOK(notes)' /\ ForeignKeysHold(notes)'
  BY DEF ClearNotes, Without, TableOK, ForeignKeysHold
<1>2. links' \subseteq NoteIds \X NoteIds
  BY DEF IInv, JobOK, ClearNotes, Cascaded
<1> QED
  BY <1>1, <1>2, UnlockedFrame DEF IInv, ClearNotes, JobOK

LEMMA ResetEmbeddingsOK ==
  ASSUME IInv, ResetEmbeddings
  PROVE  IInv'
<1>1. /\ DOMAIN notes' = DOMAIN notes /\ notes' = [n \in DOMAIN notes' |-> notes'[n]]
      /\ \A n \in DOMAIN notes : notes'[n] = [notes[n] EXCEPT !.vec = NULL]
  BY DEF ResetEmbeddings
<1>2. TableOK(notes') /\ ForeignKeysHold(notes')
  BY <1>1, VectorsOK DEF IInv
<1> QED
  BY <1>2, UnlockedFrame DEF IInv, ResetEmbeddings, JobOK

-----------------------------------------------------------------------------

\* An empty store satisfies the invariant.
LEMMA InitOK == Init => IInv
<1> SUFFICES ASSUME Init PROVE IInv
  OBVIOUS
<1>1. DOMAIN notes = {} /\ DOMAIN ops = {}
  BY DEF Init
<1>2. TableOK(notes) /\ ForeignKeysHold(notes)
  BY <1>1 DEF Init, TableOK, ForeignKeysHold
<1>3. LogOK
  BY <1>1 DEF Init, LogOK
<1>4. JobOK
  BY BoundAssumption DEF Init, JobOK, NoExpiry
<1> QED
  BY <1>2, <1>3, <1>4 DEF IInv

\* Every step, and stuttering, preserves the invariant.
LEMMA NextOK == IInv /\ [Next]_vars => IInv'
<1> SUFFICES ASSUME IInv, [Next]_vars PROVE IInv'
  OBVIOUS
<1>1. CASE FreeWrite
  BY <1>1, RememberOK, ForgetOK, HardForgetOK, SupersedeOK DEF FreeWrite
<1>2. CASE MergeCluster
  BY <1>2, MergeByKeepingOK, MergeByRewritingOK, ReflectClusterOK DEF MergeCluster
<1>3. CASE JobStep /\ ~MergeCluster
  BY <1>3, PlanMergeOK, BeginOperationOK, FinishMergeOK, PlanReembedOK,
     WriteEmbeddingsOK, PlanExpiryOK, ApplyExpiryOK, AbortJobOK DEF JobStep
<1>4. CASE LockedWrite
  BY <1>4, UndoOperationOK, ClearNotesOK, ResetEmbeddingsOK DEF LockedWrite
<1>5. CASE UNCHANGED vars
  BY <1>5 DEF IInv, vars, LogOK, JobOK, RecsOK, TableOK, ForeignKeysHold, RowOK
<1> QED
  BY <1>1, <1>2, <1>3, <1>4, <1>5 DEF Next

\* The invariant implies what the runs check.
LEMMA IInvImplies ==
  IInv => TypeOK /\ StatusAgrees /\ SupersessionForward /\ NoDanglingSupersession
<1> SUFFICES ASSUME IInv
             PROVE  TypeOK /\ StatusAgrees /\ SupersessionForward
                      /\ NoDanglingSupersession
  OBVIOUS
<1>1. notes \in [DOMAIN notes -> Note] /\ DOMAIN notes \subseteq NoteIds
  BY DEF IInv, TableOK, RowOK
<1>2. ops \in [DOMAIN ops -> Operation] /\ DOMAIN ops \subseteq OpIds
  BY DEF IInv, LogOK
<1>3. TypeOK
  BY <1>1, <1>2 DEF IInv, JobOK, TypeOK
<1> QED
  BY <1>3 DEF IInv, TableOK, RowOK, StatusAgrees, SupersessionForward,
              NoDanglingSupersession

LEMMA Invariance == Spec => []IInv
<1>1. Init => IInv
  BY InitOK
<1>2. IInv /\ [Next]_vars => IInv'
  BY NextOK
<1> QED
  BY <1>1, <1>2, PTL DEF Spec

\* The note tables, the operation log and the job state keep their types,
\* whatever the interleaving of writers, jobs and crashes.
THEOREM TypeCorrect == Spec => []TypeOK
BY Invariance, IInvImplies, PTL

\* The status column is the one its provenance implies, also after undo and
\* after the purge of a replacement.
THEOREM StatusAuthority == Spec => []StatusAgrees
BY Invariance, IInvImplies, PTL

\* Following superseded_by never goes back to an earlier row, although undo
\* restores old pointers and row ids are reused.
THEOREM SupersessionGoesForward == Spec => []SupersessionForward
BY Invariance, IInvImplies, PTL

\* No row ever points at a replacement that is gone.
THEOREM NoDanglingPointer == Spec => []NoDanglingSupersession
BY Invariance, IInvImplies, PTL

-----------------------------------------------------------------------------
(* What the latest merge job leaves, and what stays of every one. *)

\* The notes an operation retired.
Took(o) == {n \in NoteIds : \E r \in o.recs : r.note = n /\ r.action # "created"}

\* Plans: clusters apart from one another, each with its representative in it.
PlanOK ==
  \A c \in plan :
    /\ c.rep \in c.members
    /\ \A d \in plan : c # d => c.members \cap d.members = {}

\* As long as no row was deleted: vectors are of their row's text, what a merge
\* took stays retired, and no other merge of now, or to come, has taken it.
KeptOK ==
  /\ \A n \in DOMAIN notes : notes[n].vec \in {NULL, notes[n].uid}
  /\ \A r \in reads : r.note \in DOMAIN notes /\ notes[r.note].uid = r.uid
  /\ \A o \in DOMAIN ops : ~ops[o].undone =>
       \A n \in Took(ops[o]) : n \in DOMAIN notes /\ notes[n].status = "tombstoned"
  /\ \A o, q \in DOMAIN ops :
       o # q /\ ~ops[o].undone /\ ~ops[q].undone => Took(ops[o]) \cap Took(ops[q]) = {}
  /\ \A c \in plan :
       /\ c.members \subseteq DOMAIN notes
       /\ \A o \in DOMAIN ops \ {op} : ~ops[o].undone => Took(ops[o]) \cap c.members = {}

\* Of a row that a merge took, all that has changed since is in the record.
TakenRow(row, now, r, mine) ==
  /\ r.action \in {"tombstoned", "superseded"}
  /\ r.prevDeleted = row.deleted /\ r.prevSb = row.sb
  /\ r.action = "tombstoned" => now.deleted
  /\ r.action = "superseded" => now.sb # NULL
  /\ now.uid = row.uid /\ now.vec = row.vec
  /\ now.sb = row.sb \/ now.sb \in mine

\* The records of a note are r alone.
Only(recs, n, r) == r \in recs /\ \A s \in recs : s.note = n <=> s = r

\* The rows ns that an operation with records recs has made of the rows bs: those
\* it took, those it left alone, and its own.
MadeOf(bs, ns, recs) ==
  /\ \A r \in recs : r.note \in DOMAIN ns
  /\ \A n \in DOMAIN bs :
       \/ ns[n] = bs[n] /\ \A r \in recs : r.note # n
       \/ \E r \in recs : Only(recs, n, r) /\ TakenRow(bs[n], ns[n], r, DOMAIN ns \ DOMAIN bs)
  /\ \A n \in DOMAIN ns \ DOMAIN bs :
       /\ ns[n].status = "active" /\ ns[n].sb = NULL
       /\ \E r \in recs : Only(recs, n, r) /\ r.action = "created"

\* While nobody else writes: what the job found, what it has made of it, and that
\* the clusters it has still to do are as it found them.
QuietOK ==
  /\ TableOK(before) /\ ForeignKeysHold(before) /\ DOMAIN before \subseteq DOMAIN notes
  /\ run = NULL => notes = before
  /\ run \in DOMAIN ops => MadeOf(before, notes, ops[run].recs)
  /\ lock \in Kinds =>
       /\ op = run
       /\ \A c \in plan :
            /\ c.members \subseteq DOMAIN before
            /\ run \in DOMAIN ops => \A r \in ops[run].recs : r.note \notin c.members

HInv == IInv /\ PlanOK /\ (~purged => KeptOK) /\ (quiet => QuietOK)

-----------------------------------------------------------------------------
(* Rows that stay what they are. *)

KeepsRow(row, now) ==
  /\ now.uid = row.uid /\ now.vec = row.vec
  /\ row.status = "tombstoned" => now.status = "tombstoned"

KeepsRows(ns, ms) ==
  /\ DOMAIN ns \subseteq DOMAIN ms
  /\ \A n \in DOMAIN ns : KeepsRow(ns[n], ms[n])

OwnVector(row) == row.vec \in {NULL, row.uid}

LEMMA KeepsTransitive ==
  ASSUME NEW ns, NEW ms, NEW ls, KeepsRows(ns, ms), KeepsRows(ms, ls)
  PROVE  KeepsRows(ns, ls)
BY DEF KeepsRows, KeepsRow

LEMMA InsertedKeeps ==
  ASSUME NEW ns, NEW id \in NoteIds, TableOK(ns), FreshId(id, DOMAIN ns), NEW v \in {NULL, nextUid}
  PROVE  /\ KeepsRows(ns, Inserted(ns, id, v)) /\ id \notin DOMAIN ns
         /\ DOMAIN Inserted(ns, id, v) = DOMAIN ns \cup {id}
         /\ \A n \in DOMAIN ns : Inserted(ns, id, v)[n] = ns[n]
         /\ OwnVector(Inserted(ns, id, v)[id])
         /\ Inserted(ns, id, v)[id].status = "active" /\ Inserted(ns, id, v)[id].sb = NULL
<1>1. id \notin DOMAIN ns
  BY DEF FreshId, TableOK, NoteIds
<1> QED
  BY <1>1 DEF KeepsRows, KeepsRow, Inserted, OwnVector

\* What retiring rows makes of each of them.
LEMMA TombstonedRows ==
  ASSUME NEW ns, TableOK(ns), NEW S
  PROVE  /\ DOMAIN Tombstoned(ns, S) = DOMAIN ns
         /\ \A n \in DOMAIN ns \ S : Tombstoned(ns, S)[n] = ns[n]
         /\ \A n \in DOMAIN ns \cap S :
              /\ Tombstoned(ns, S)[n].status = "tombstoned" /\ Tombstoned(ns, S)[n].deleted
              /\ Tombstoned(ns, S)[n].sb = ns[n].sb
              /\ KeepsRow(ns[n], Tombstoned(ns, S)[n])
<1>1. ASSUME NEW row \in Note, row.status = StatusOf(row.deleted, row.sb)
      PROVE  /\ Retired(row).status = "tombstoned" /\ Retired(row).deleted
             /\ Retired(row).sb = row.sb /\ KeepsRow(row, Retired(row))
  BY <1>1 DEF Retired, Note, StatusOf, KeepsRow
<1>2. \A n \in DOMAIN ns : ns[n] \in Note /\ ns[n].status = StatusOf(ns[n].deleted, ns[n].sb)
  BY DEF TableOK, RowOK
<1> QED
  BY <1>1, <1>2 DEF Tombstoned

LEMMA TombstonedKeeps ==
  ASSUME NEW ns, TableOK(ns), NEW S
  PROVE  KeepsRows(ns, Tombstoned(ns, S))
BY TombstonedRows DEF KeepsRows, KeepsRow

LEMMA SupersededRows ==
  ASSUME NEW ns, TableOK(ns), NEW old \in DOMAIN ns, ns[old].status = "active", NEW new
  PROVE  /\ KeepsRows(ns, Superseded(ns, old, new))
         /\ DOMAIN Superseded(ns, old, new) = DOMAIN ns
         /\ \A n \in DOMAIN ns \ {old} : Superseded(ns, old, new)[n] = ns[n]
         /\ Superseded(ns, old, new)[old].sb = new
<1> DEFINE row == [ns[old] EXCEPT !.sb = new, !.status = "superseded"]
           ss == Superseded(ns, old, new)
<1>1. ns[old] \in Note
  BY DEF TableOK, RowOK
<1>2. KeepsRow(ns[old], row) /\ row.sb = new
  BY <1>1 DEF Note, KeepsRow
<1>3. /\ DOMAIN ss = DOMAIN ns /\ ss[old] = row
      /\ \A n \in DOMAIN ns \ {old} : ss[n] = ns[n]
  BY DEF Superseded, TableOK
<1> HIDE DEF ss, row
<1> QED
  BY <1>2, <1>3 DEF KeepsRows, KeepsRow, ss

LEMMA PointedAtRows ==
  ASSUME NEW ns, TableOK(ns), NEW S, NEW new
  PROVE  /\ KeepsRows(ns, PointedAt(ns, S, new))
         /\ DOMAIN PointedAt(ns, S, new) = DOMAIN ns
         /\ \A n \in DOMAIN ns \ S : PointedAt(ns, S, new)[n] = ns[n]
         /\ \A n \in DOMAIN ns \cap S : PointedAt(ns, S, new)[n].sb = new
<1>1. ASSUME NEW row \in Note
      PROVE  LET now == [row EXCEPT !.sb = new,
                           !.status = IF @ = "tombstoned" THEN @ ELSE "superseded"]
             IN  KeepsRow(row, now) /\ now.sb = new
  BY <1>1 DEF Note, KeepsRow
<1>2. \A n \in DOMAIN ns : ns[n] \in Note
  BY DEF TableOK, RowOK
<1> QED
  BY <1>1, <1>2 DEF PointedAt, KeepsRows, KeepsRow

\* Unlinking rows, and deleting none of those there are.
LEMMA PurgedKeeps ==
  ASSUME NEW ns, TableOK(ns), NEW S, NEW T, DOMAIN ns \subseteq DOMAIN Without(Unlinked(ns, S), T)
  PROVE  KeepsRows(ns, Without(Unlinked(ns, S), T))
<1> DEFINE us == Unlinked(ns, S)
<1>1. ASSUME NEW row \in Note
      PROVE  KeepsRow(row, [row EXCEPT !.sb = NULL,
                              !.status = IF @ = "superseded" THEN "active" ELSE @])
  BY <1>1 DEF Note, KeepsRow
<1>2. \A n \in DOMAIN ns : ns[n] \in Note
  BY DEF TableOK, RowOK
<1>3. DOMAIN us = DOMAIN ns /\ \A n \in DOMAIN ns : KeepsRow(ns[n], us[n])
  BY <1>1, <1>2 DEF Unlinked, KeepsRow
<1> HIDE DEF us
<1>4. KeepsRows(ns, Without(us, T))
  BY <1>3 DEF Without, KeepsRows, us
<1> QED
  BY <1>4 DEF us

\* Undo gives a row its old provenance, never another text or vector; a row that
\* has no record but of being created is at most retired.
LEMMA UndoneRows ==
  ASSUME NEW ns, TableOK(ns), NEW recs, RecsOK(recs)
  PROVE  /\ DOMAIN Undone(ns, recs) = DOMAIN ns
         /\ \A n \in DOMAIN ns : /\ Undone(ns, recs)[n].uid = ns[n].uid
                                 /\ Undone(ns, recs)[n].vec = ns[n].vec
         /\ \A n \in DOMAIN ns :
              /\ ns[n].status = "tombstoned"
              /\ \A r \in recs : r.note = n => r.action = "created"
              => Undone(ns, recs)[n].status = "tombstoned"
<1> DEFINE KeepsText(row, now) == now \in Note /\ now.uid = row.uid /\ now.vec = row.vec
<1>1. ASSUME NEW row \in Note
      PROVE  KeepsText(row, Retired(row)) /\ Retired(row).status = "tombstoned"
  BY <1>1 DEF Retired, Note, Statuses
<1>2. ASSUME NEW row \in Note, NEW r \in recs
      PROVE  KeepsText(row, Restored(row, r))
  <2>1. r.prevDeleted \in BOOLEAN /\ r.prevSb \in NoteIds \cup {NULL}
    BY DEF RecsOK, Record
  <2> QED
    BY <2>1 DEF Restored, Note, Statuses, StatusOf
<1> HIDE DEF KeepsText
<1> DEFINE Rev(row, n) == Reversed(row, {r \in recs : r.note = n})
<1>3. ASSUME NEW row \in Note, NEW n
      PROVE  /\ KeepsText(row, Rev(row, n))
             /\ row.status = "tombstoned"
                  /\ (\A r \in recs : r.note = n => r.action = "created")
                => Rev(row, n).status = "tombstoned"
  <2> DEFINE R == {r \in recs : r.note = n}
             created == {r \in R : r.action = "created"}
             merged == R \ created
             m == CHOOSE r \in merged : TRUE
             now == Reversed(row, R)
  <2>1. CASE merged = {}
    <3>1. now = IF created = {} THEN row ELSE Retired(row)
      BY <2>1 DEF Reversed
    <3> QED
      BY <3>1, <1>1, <1>3 DEF KeepsText
  <2>2. CASE merged # {}
    <3>1. m \in recs /\ m.note = n /\ m.action # "created"
      BY <2>2
    <3>2. now \in {Restored(row, m), Restored(Retired(row), m), Retired(Restored(row, m))}
      BY <2>2 DEF Reversed
    <3>3. /\ KeepsText(row, Restored(row, m)) /\ KeepsText(row, Retired(row))
          /\ KeepsText(row, Restored(row, m)) => Restored(row, m) \in Note
          /\ KeepsText(row, Retired(row)) => Retired(row) \in Note
      BY <1>1, <1>2, <3>1 DEF KeepsText
    <3>4. /\ KeepsText(Retired(row), Restored(Retired(row), m))
          /\ KeepsText(Restored(row, m), Retired(Restored(row, m)))
      BY <1>1, <1>2, <3>1, <3>3
    <3> HIDE DEF m, now
    <3>5. KeepsText(row, now)
      BY <3>2, <3>3, <3>4 DEF KeepsText
    <3> QED
      BY <3>1, <3>5 DEF now
  <2> QED
    BY <2>1, <2>2
<1>4. \A n \in DOMAIN ns : ns[n] \in Note
  BY DEF TableOK, RowOK
<1>5. /\ DOMAIN Undone(ns, recs) = DOMAIN ns
      /\ \A n \in DOMAIN ns : Undone(ns, recs)[n] = Rev(ns[n], n)
  BY DEF Undone
<1> HIDE DEF Rev
<1>6. ASSUME NEW n \in DOMAIN ns
      PROVE  LET now == Undone(ns, recs)[n]
             IN  /\ now.uid = ns[n].uid /\ now.vec = ns[n].vec
                 /\ ns[n].status = "tombstoned"
                      /\ (\A r \in recs : r.note = n => r.action = "created")
                    => now.status = "tombstoned"
  BY <1>3, <1>4, <1>5 DEF KeepsText
<1> QED
  BY <1>5, <1>6

-----------------------------------------------------------------------------
(* What a merge step does, whichever of the three it is. *)

\* Cluster c is merged: the rows of S are retired and recorded, new rows are
\* live and recorded as created, every other row is left alone.
Merged(c, S, recs) ==
  LET new == DOMAIN notes' \ DOMAIN notes
      old == ops[op].recs
  IN  /\ op # NULL /\ S \subseteq c.members
      /\ ops' = [ops EXCEPT ![op].recs = recs]
      /\ plan' = plan \ {c} /\ UNCHANGED <<lock, op, reads>>
      /\ KeepsRows(notes, notes')
      /\ \A n \in DOMAIN notes \ S : notes'[n] = notes[n]
      /\ \A n \in S : notes'[n].status = "tombstoned"
      /\ \A n \in new :
           OwnVector(notes'[n]) /\ notes'[n].status = "active" /\ notes'[n].sb = NULL
      /\ old \subseteq recs
      /\ \A r \in recs \ old :
           \/ r.note \in S
           \/ r.note \in new /\ r.action = "created"
      /\ \A n \in S : (\A r \in old : r.note # n) =>
           \E r \in recs : Only(recs, n, r) /\ TakenRow(notes[n], notes'[n], r, new)
      /\ \A n \in new : (\A r \in old : r.note # n) =>
           \E r \in recs : Only(recs, n, r) /\ r.action = "created"

\* A record of note n, with its provenance in ns.
Provenance(r, ns, n, action) ==
  r.action = action /\ r.prevDeleted = ns[n].deleted /\ r.prevSb = ns[n].sb

\* Recording adds to the log, one record of each note that had none.
LEMMA RecordedFacts ==
  ASSUME NEW recs, NEW ns, NEW S, S \subseteq DOMAIN ns, NEW action,
         NEW now, now = Recorded(recs, ns, S, action)
  PROVE  /\ recs \subseteq now
         /\ \A r \in now \ recs : r.note \in S /\ r.action = action
         /\ \A n \in S : (\A r \in recs : r.note # n) =>
              \E r \in now : Only(now, n, r) /\ Provenance(r, ns, n, action)
<1> DEFINE Rec(n) == [note |-> n, action |-> action, again |-> \E r \in recs : r.note = n,
                      prevDeleted |-> IF n \in DOMAIN ns THEN ns[n].deleted ELSE FALSE,
                      prevSb |-> IF n \in DOMAIN ns THEN ns[n].sb ELSE NULL]
           new == {n \in S : ~\E r \in recs : r.note = n /\ r.action = action}
<1>1. now = recs \cup {Rec(n) : n \in new}
  BY DEF Recorded
<1>2. \A n : Rec(n).note = n /\ Rec(n).action = action
  OBVIOUS
<1>3. \A n \in S : Provenance(Rec(n), ns, n, action)
  BY DEF Provenance
<1> HIDE DEF Rec
<1>4. recs \subseteq now /\ \A r \in now \ recs : r.note \in S /\ r.action = action
  BY <1>1, <1>2
<1>5. ASSUME NEW n \in S, \A r \in recs : r.note # n
      PROVE  \E r \in now : Only(now, n, r) /\ Provenance(r, ns, n, action)
  <2>1. n \in new /\ Rec(n) \in now
    BY <1>1, <1>5
  <2>2. \A s \in now : s.note = n => s = Rec(n)
    BY <1>1, <1>2, <1>5
  <2>3. Only(now, n, Rec(n))
    BY <1>2, <2>1, <2>2 DEF Only
  <2> QED
    BY <1>3, <2>1, <2>3
<1> QED
  BY <1>4, <1>5

\* What is recorded of other notes leaves a note's only record alone.
LEMMA OnlyGrows ==
  ASSUME NEW recs, NEW now, NEW n, NEW r, Only(recs, n, r), recs \subseteq now,
         \A s \in now \ recs : s.note # n
  PROVE  Only(now, n, r)
BY DEF Only

LEMMA KeepingMerges ==
  ASSUME IInv, NEW c \in plan, c.members \subseteq DOMAIN notes, MergeByKeeping(c)
  PROVE  \E S, recs : Merged(c, S, recs)
<1> DEFINE S == c.members \ {c.rep}
           old == ops[op].recs
           recs == Recorded(old, notes, S, "tombstoned")
<1>1. /\ ops' = [ops EXCEPT ![op].recs = recs] /\ op # NULL
      /\ notes' = Tombstoned(notes, S) /\ plan' = plan \ {c}
      /\ UNCHANGED <<lock, op, reads>> /\ S \subseteq c.members /\ S \subseteq DOMAIN notes
  BY DEF MergeByKeeping
<1> HIDE DEF S, old
<1>7. recs = Recorded(old, notes, S, "tombstoned")
  OBVIOUS
<1> HIDE DEF recs
<1>2. /\ old \subseteq recs
      /\ \A r \in recs \ old : r.note \in S
      /\ \A n \in S : (\A r \in old : r.note # n) =>
           \E r \in recs : Only(recs, n, r) /\ Provenance(r, notes, n, "tombstoned")
  <2>1. S \subseteq DOMAIN notes
    BY <1>1
  <2> QED
    BY ONLY <2>1, <1>7, RecordedFacts
<1>3. /\ KeepsRows(notes, notes') /\ DOMAIN notes' = DOMAIN notes
      /\ \A n \in DOMAIN notes \ S : notes'[n] = notes[n]
      /\ \A n \in S :
           /\ notes'[n].status = "tombstoned" /\ notes'[n].deleted
           /\ notes'[n].sb = notes[n].sb /\ KeepsRow(notes[n], notes'[n])
  BY <1>1, TombstonedRows, TombstonedKeeps DEF IInv
<1>4. ASSUME NEW n \in S, NEW r, Provenance(r, notes, n, "tombstoned")
      PROVE  TakenRow(notes[n], notes'[n], r, DOMAIN notes' \ DOMAIN notes)
  BY <1>3, <1>4 DEF TakenRow, Provenance, KeepsRow
<1>5. \A n \in S : (\A r \in old : r.note # n) =>
           \E r \in recs : Only(recs, n, r)
             /\ TakenRow(notes[n], notes'[n], r, DOMAIN notes' \ DOMAIN notes)
  BY <1>2, <1>4
<1>6. Merged(c, S, recs)
  BY <1>1, <1>2, <1>3, <1>5 DEF Merged, old
<1> QED
  BY <1>6

LEMMA RewritingMerges ==
  ASSUME IInv, NEW c \in plan, c.members \subseteq DOMAIN notes, c.rep \in c.members,
         MergeByRewriting(c)
  PROVE  \E S, recs : Merged(c, S, recs)
<1>1. PICK id \in NoteIds :
        /\ FreshId(id, DOMAIN notes)
        /\ notes' = Tombstoned(Superseded(Inserted(notes, id, NULL), c.rep, id), c.members)
        /\ ops' = [ops EXCEPT ![op].recs =
                     Recorded(Recorded(ops[op].recs, notes, c.members, "tombstoned"),
                              Inserted(notes, id, NULL), {id}, "created")]
  BY DEF MergeByRewriting
<1> DEFINE S == c.members
           old == ops[op].recs
           inserted == Inserted(notes, id, NULL)
           pointed == Superseded(inserted, c.rep, id)
           retired == Recorded(old, notes, S, "tombstoned")
           recs == Recorded(retired, inserted, {id}, "created")
<1>2. /\ op # NULL /\ plan' = plan \ {c} /\ UNCHANGED <<lock, op, reads>>
      /\ notes[c.rep].status = "active" /\ c.rep \in S
  BY DEF MergeByRewriting
<1>3. /\ ops' = [ops EXCEPT ![op].recs = recs] /\ notes' = Tombstoned(pointed, S)
      /\ retired = Recorded(old, notes, S, "tombstoned")
      /\ recs = Recorded(retired, inserted, {id}, "created")
  BY <1>1
<1>4. nextUid \in Uids /\ TableOK(notes) /\ S \subseteq DOMAIN notes
  BY MintOK DEF MergeByRewriting, IInv
<1> HIDE DEF S
<1>5. /\ TableOK(inserted) /\ DOMAIN inserted = DOMAIN notes \cup {id}
      /\ \A n \in DOMAIN notes \cup {id} : n <= id
      /\ \A n \in DOMAIN notes : inserted[n] = notes[n]
      /\ KeepsRows(notes, inserted) /\ id \notin DOMAIN notes
      /\ OwnVector(inserted[id]) /\ inserted[id].status = "active" /\ inserted[id].sb = NULL
  <2>1. FreshId(id, DOMAIN notes)
    BY <1>1
  <2> QED
    BY <1>4, <2>1, PlainInsertedOK, InsertedKeeps
<1> HIDE DEF inserted
<1>6. /\ TableOK(pointed) /\ DOMAIN pointed = DOMAIN inserted
      /\ KeepsRows(inserted, pointed) /\ pointed[c.rep].sb = id
      /\ \A n \in DOMAIN inserted \ {c.rep} : pointed[n] = inserted[n]
  <2>1. /\ c.rep \in DOMAIN inserted /\ inserted[c.rep].status = "active"
        /\ c.rep <= id /\ id \in DOMAIN inserted
    BY <1>2, <1>4, <1>5
  <2> QED
    BY <1>5, <2>1, SupersededOK, SupersededRows
<1> HIDE DEF pointed
<1>7. /\ KeepsRows(pointed, notes') /\ DOMAIN notes' = DOMAIN pointed
      /\ \A n \in DOMAIN pointed \ S : notes'[n] = pointed[n]
      /\ \A n \in DOMAIN pointed \cap S :
           /\ notes'[n].status = "tombstoned" /\ notes'[n].deleted
           /\ notes'[n].sb = pointed[n].sb
  BY <1>3, <1>6, TombstonedRows, TombstonedKeeps
<1>8. /\ KeepsRows(notes, notes') /\ DOMAIN notes' = DOMAIN notes \cup {id}
      /\ \A n \in DOMAIN notes \ S : notes'[n] = notes[n]
      /\ \A n \in S :
           /\ notes'[n].status = "tombstoned" /\ notes'[n].deleted
           /\ notes'[n].sb \in {notes[n].sb, id}
      /\ notes'[id] = inserted[id]
  <2>1. KeepsRows(notes, notes')
    BY <1>5, <1>6, <1>7, KeepsTransitive
  <2> QED
    BY <2>1, <1>2, <1>4, <1>5, <1>6, <1>7
<1> HIDE DEF retired, recs, old
<1>9. /\ old \subseteq retired
      /\ \A r \in retired \ old : r.note \in S
      /\ \A n \in S : (\A r \in old : r.note # n) =>
           \E r \in retired : Only(retired, n, r) /\ Provenance(r, notes, n, "tombstoned")
  BY ONLY <1>3, <1>4, RecordedFacts
<1>10. /\ retired \subseteq recs
       /\ \A r \in recs \ retired : r.note = id /\ r.action = "created"
       /\ (\A r \in retired : r.note # id) =>
            \E r \in recs : Only(recs, id, r) /\ r.action = "created"
  <2>1. {id} \subseteq DOMAIN inserted
    BY <1>5
  <2>2. /\ retired \subseteq recs
        /\ \A r \in recs \ retired : r.note \in {id} /\ r.action = "created"
        /\ \A n \in {id} : (\A r \in retired : r.note # n) =>
             \E r \in recs : Only(recs, n, r) /\ Provenance(r, inserted, n, "created")
    BY ONLY <1>3, <2>1, RecordedFacts
  <2> QED
    BY <2>2 DEF Provenance
<1>11. ASSUME NEW n \in S, \A r \in old : r.note # n
       PROVE  \E r \in recs : Only(recs, n, r)
                /\ TakenRow(notes[n], notes'[n], r, DOMAIN notes' \ DOMAIN notes)
  <2>1. PICK r \in retired : Only(retired, n, r) /\ Provenance(r, notes, n, "tombstoned")
    BY <1>9, <1>11
  <2>2. Only(recs, n, r)
    BY <2>1, <1>4, <1>5, <1>10, OnlyGrows
  <2>3. KeepsRow(notes[n], notes'[n]) /\ id \in DOMAIN notes' \ DOMAIN notes
    BY <1>4, <1>5, <1>8 DEF KeepsRows
  <2>4. TakenRow(notes[n], notes'[n], r, DOMAIN notes' \ DOMAIN notes)
    BY <1>8, <2>1, <2>3 DEF TakenRow, Provenance, KeepsRow
  <2> QED
    BY <1>10, <2>1, <2>2, <2>4
<1>12. (\A r \in old : r.note # id) =>
         \E r \in recs : Only(recs, id, r) /\ r.action = "created"
  BY <1>4, <1>5, <1>9, <1>10
<1>13. old \subseteq recs /\ \A r \in recs \ old : (r.note \in S \/ (r.note = id /\ r.action = "created"))
  BY <1>9, <1>10
<1>14. DOMAIN notes' \ DOMAIN notes = {id}
  BY <1>5, <1>8
<1>15. Merged(c, S, recs)
  <2>1. ops' = [ops EXCEPT ![op].recs = recs]
    BY <1>3
  <2> QED
    BY <2>1, <1>2, <1>5, <1>8, <1>11, <1>12, <1>13, <1>14 DEF Merged, S, old
<1> QED
  BY <1>15

LEMMA ReflectingMerges ==
  ASSUME IInv, NEW c \in plan, c.members \subseteq DOMAIN notes,
         NEW hasVec \in BOOLEAN, ReflectCluster(c, hasVec)
  PROVE  \E S, recs : Merged(c, S, recs)
<1>1. PICK id \in NoteIds :
        /\ FreshId(id, DOMAIN notes)
        /\ notes' = Tombstoned(PointedAt(Inserted(notes, id, Vector(hasVec)),
                                         c.members, id), c.members)
        /\ ops' = [ops EXCEPT ![op].recs =
                     Recorded(Recorded(ops[op].recs, Inserted(notes, id, Vector(hasVec)),
                                       {id}, "created"),
                              Inserted(notes, id, Vector(hasVec)), c.members, "superseded")]
  BY DEF ReflectCluster
<1> DEFINE S == c.members
           old == ops[op].recs
           v == Vector(hasVec)
           inserted == Inserted(notes, id, v)
           pointed == PointedAt(inserted, S, id)
           created == Recorded(old, inserted, {id}, "created")
           recs == Recorded(created, inserted, S, "superseded")
<1>2. op # NULL /\ plan' = plan \ {c} /\ UNCHANGED <<lock, op, reads>>
  BY DEF ReflectCluster
<1>3. /\ ops' = [ops EXCEPT ![op].recs = recs] /\ notes' = Tombstoned(pointed, S)
      /\ created = Recorded(old, inserted, {id}, "created")
      /\ recs = Recorded(created, inserted, S, "superseded")
  BY <1>1
<1>4. /\ nextUid \in Uids /\ TableOK(notes) /\ S \subseteq DOMAIN notes
      /\ v \in Uids \cup {NULL} /\ v \in {NULL, nextUid}
  BY MintOK DEF ReflectCluster, IInv, Vector
<1> HIDE DEF S
<1>5. /\ TableOK(inserted) /\ DOMAIN inserted = DOMAIN notes \cup {id}
      /\ \A n \in DOMAIN notes \cup {id} : n <= id
      /\ \A n \in DOMAIN notes : inserted[n] = notes[n]
      /\ KeepsRows(notes, inserted) /\ id \notin DOMAIN notes
      /\ OwnVector(inserted[id]) /\ inserted[id].status = "active" /\ inserted[id].sb = NULL
  <2>1. FreshId(id, DOMAIN notes)
    BY <1>1
  <2>2. /\ TableOK(inserted) /\ DOMAIN inserted = DOMAIN notes \cup {id}
        /\ \A n \in DOMAIN notes \cup {id} : n <= id
        /\ \A n \in DOMAIN notes : inserted[n] = notes[n]
    <3>1. TableOK(notes) /\ nextUid \in Uids /\ v \in Uids \cup {NULL}
      BY <1>4
    <3> QED
      BY <3>1, <2>1, InsertedOK DEF inserted
  <2>3. /\ KeepsRows(notes, inserted) /\ id \notin DOMAIN notes
        /\ OwnVector(inserted[id]) /\ inserted[id].status = "active" /\ inserted[id].sb = NULL
    BY <1>4, <2>1, InsertedKeeps, ZenonT(60)
  <2> QED
    BY <2>2, <2>3
<1> HIDE DEF inserted, v
<1>6. /\ TableOK(pointed) /\ DOMAIN pointed = DOMAIN inserted
      /\ KeepsRows(inserted, pointed)
      /\ \A n \in DOMAIN inserted \ S : pointed[n] = inserted[n]
      /\ \A n \in DOMAIN inserted \cap S : pointed[n].sb = id
  <2>1. id \in DOMAIN inserted /\ \A n \in DOMAIN inserted : n <= id
    BY <1>5
  <2> QED
    BY <1>5, <2>1, PointedAtOK, PointedAtRows
<1> HIDE DEF pointed
<1>7. /\ KeepsRows(pointed, notes') /\ DOMAIN notes' = DOMAIN pointed
      /\ \A n \in DOMAIN pointed \ S : notes'[n] = pointed[n]
      /\ \A n \in DOMAIN pointed \cap S :
           notes'[n].status = "tombstoned" /\ notes'[n].sb = pointed[n].sb
  BY <1>3, <1>6, TombstonedRows, TombstonedKeeps
<1>8. /\ KeepsRows(notes, notes') /\ DOMAIN notes' = DOMAIN notes \cup {id}
      /\ \A n \in DOMAIN notes \ S : notes'[n] = notes[n]
      /\ \A n \in S : notes'[n].status = "tombstoned" /\ notes'[n].sb = id
      /\ notes'[id] = inserted[id]
  <2>1. KeepsRows(notes, notes')
    BY <1>5, <1>6, <1>7, KeepsTransitive
  <2> QED
    BY <2>1, <1>4, <1>5, <1>6, <1>7
<1> HIDE DEF created, recs, old
<1>9. /\ old \subseteq created
      /\ \A r \in created \ old : r.note = id /\ r.action = "created"
      /\ (\A r \in old : r.note # id) =>
           \E r \in created : Only(created, id, r) /\ r.action = "created"
  <2>1. {id} \subseteq DOMAIN inserted
    BY <1>5
  <2>2. /\ old \subseteq created
        /\ \A r \in created \ old : r.note \in {id} /\ r.action = "created"
        /\ \A n \in {id} : (\A r \in old : r.note # n) =>
             \E r \in created : Only(created, n, r) /\ Provenance(r, inserted, n, "created")
    BY ONLY <1>3, <2>1, RecordedFacts
  <2> QED
    BY <2>2 DEF Provenance
<1>10. /\ created \subseteq recs
       /\ \A r \in recs \ created : r.note \in S
       /\ \A n \in S : (\A r \in created : r.note # n) =>
            \E r \in recs : Only(recs, n, r) /\ Provenance(r, inserted, n, "superseded")
  <2>1. S \subseteq DOMAIN inserted
    BY <1>4, <1>5
  <2>2. recs = Recorded(created, inserted, S, "superseded")
    BY <1>3
  <2> QED
    BY ONLY <2>1, <2>2, RecordedFacts
<1>11. ASSUME NEW n \in S, \A r \in old : r.note # n
       PROVE  \E r \in recs : Only(recs, n, r)
                /\ TakenRow(notes[n], notes'[n], r, DOMAIN notes' \ DOMAIN notes)
  <2>1. n # id /\ n \in DOMAIN notes /\ inserted[n] = notes[n]
    BY <1>4, <1>5
  <2>2. \A r \in created : r.note # n
    BY <1>9, <1>11, <2>1
  <2>3. PICK r \in recs : Only(recs, n, r) /\ Provenance(r, inserted, n, "superseded")
    BY <1>10, <2>2
  <2>4. KeepsRow(notes[n], notes'[n]) /\ id \in DOMAIN notes' \ DOMAIN notes /\ id # NULL
    BY <1>5, <1>8, <2>1 DEF KeepsRows, NoteIds, NULL
  <2>5. TakenRow(notes[n], notes'[n], r, DOMAIN notes' \ DOMAIN notes)
    BY <1>8, <2>1, <2>3, <2>4 DEF TakenRow, Provenance, KeepsRow
  <2> QED
    BY <2>3, <2>5
<1>12. (\A r \in old : r.note # id) =>
         \E r \in recs : Only(recs, id, r) /\ r.action = "created"
  <2> SUFFICES ASSUME \A r \in old : r.note # id
               PROVE  \E r \in recs : Only(recs, id, r) /\ r.action = "created"
    OBVIOUS
  <2>1. PICK r \in created : Only(created, id, r) /\ r.action = "created"
    BY <1>9
  <2>2. \A s \in recs \ created : s.note # id
    BY <1>4, <1>5, <1>10
  <2>3. Only(recs, id, r)
    BY <1>10, <2>1, <2>2, OnlyGrows
  <2> QED
    BY <1>10, <2>1, <2>3
<1>13. old \subseteq recs /\ \A r \in recs \ old : (r.note \in S \/ (r.note = id /\ r.action = "created"))
  BY <1>9, <1>10
<1>14. DOMAIN notes' \ DOMAIN notes = {id}
  BY <1>5, <1>8
<1>15. Merged(c, S, recs)
  <2>1. ops' = [ops EXCEPT ![op].recs = recs]
    BY <1>3
  <2> QED
    BY <2>1, <1>2, <1>5, <1>8, <1>11, <1>12, <1>13, <1>14 DEF Merged, S, old
<1> QED
  BY <1>15

\* Each of the three merge transactions is such a step.
LEMMA ClusterMerges ==
  ASSUME IInv, PlanOK, NEW c \in plan, c.members \subseteq DOMAIN notes,
         \/ MergeByKeeping(c)
         \/ MergeByRewriting(c)
         \/ \E v \in BOOLEAN : ReflectCluster(c, v)
  PROVE  \E S, recs : Merged(c, S, recs)
BY KeepingMerges, RewritingMerges, ReflectingMerges DEF PlanOK

-----------------------------------------------------------------------------
(* What stays as long as no row is deleted. *)

\* Rows keep their text, retired ones stay retired, and every vector there is
\* is its row's own.
Stays ==
  /\ DOMAIN notes \subseteq DOMAIN notes'
  /\ \A n \in DOMAIN notes :
       /\ notes'[n].uid = notes[n].uid
       /\ notes[n].status = "tombstoned" => notes'[n].status = "tombstoned"
  /\ \A n \in DOMAIN notes' : OwnVector(notes'[n])

LEMMA KeepingStays ==
  ASSUME KeptOK, KeepsRows(notes, notes'),
         \A n \in DOMAIN notes' \ DOMAIN notes : OwnVector(notes'[n])
  PROVE  Stays
<1>1. ASSUME NEW n \in DOMAIN notes PROVE OwnVector(notes'[n])
  BY DEF KeptOK, KeepsRows, KeepsRow, OwnVector
<1> QED
  BY <1>1 DEF Stays, KeepsRows, KeepsRow

\* Writes of rows alone, and jobs that end.
LEMMA KeptFrame ==
  ASSUME KeptOK, Stays, DOMAIN ops' \subseteq DOMAIN ops,
         \A o \in DOMAIN ops' : ops'[o] = ops[o], reads' \subseteq reads,
         plan' = {} \/ (plan' = plan /\ op' = op)
  PROVE  KeptOK'
<1>1. \A n \in DOMAIN notes' : notes'[n].vec \in {NULL, notes'[n].uid}
  BY DEF Stays, OwnVector
<1>2. \A r \in reads' : r.note \in DOMAIN notes' /\ notes'[r.note].uid = r.uid
  BY DEF Stays, KeptOK
<1>3. \A o \in DOMAIN ops' : o \in DOMAIN ops /\ ops'[o] = ops[o]
  OBVIOUS
<1>4. \A o \in DOMAIN ops' : ~ops'[o].undone =>
         \A n \in Took(ops'[o]) : n \in DOMAIN notes' /\ notes'[n].status = "tombstoned"
  BY <1>3 DEF Stays, KeptOK
<1>5. \A o, q \in DOMAIN ops' :
       o # q /\ ~ops'[o].undone /\ ~ops'[q].undone => Took(ops'[o]) \cap Took(ops'[q]) = {}
  BY <1>3 DEF KeptOK
<1>6. \A c \in plan' :
        /\ c.members \subseteq DOMAIN notes'
        /\ \A o \in DOMAIN ops' \ {op'} : ~ops'[o].undone => Took(ops'[o]) \cap c.members = {}
  <2>1. CASE plan' = {}
    BY <2>1
  <2>2. CASE plan' = plan /\ op' = op
    BY <2>2, <1>3 DEF KeptOK, Stays
  <2> QED
    BY <2>1, <2>2
<1> QED
  BY <1>1, <1>2, <1>4, <1>5, <1>6 DEF KeptOK

LEMMA RememberKeeps ==
  ASSUME IInv, KeptOK, NEW v \in BOOLEAN, Remember(v)
  PROVE  KeptOK'
<1>1. PICK id \in NoteIds : FreshId(id, DOMAIN notes) /\ notes' = Inserted(notes, id, Vector(v))
  BY DEF Remember
<1>2. Vector(v) \in {NULL, nextUid} /\ TableOK(notes)
  BY DEF Vector, IInv
<1>3. /\ KeepsRows(notes, notes') /\ DOMAIN notes' = DOMAIN notes \cup {id}
      /\ OwnVector(notes'[id])
  BY <1>1, <1>2, InsertedKeeps
<1>4. Stays
  BY <1>3, KeepingStays
<1> QED
  BY <1>4, KeptFrame DEF Remember

LEMMA ForgetKeeps ==
  ASSUME IInv, KeptOK, NEW n, Forget(n)
  PROVE  KeptOK'
<1>1. KeepsRows(notes, notes') /\ DOMAIN notes' = DOMAIN notes
  BY TombstonedKeeps, TombstonedRows DEF Forget, IInv
<1>2. Stays
  BY <1>1, KeepingStays
<1> QED
  BY <1>2, KeptFrame DEF Forget

LEMMA SupersedeKeeps ==
  ASSUME IInv, KeptOK, NEW n \in NoteIds, NEW v \in BOOLEAN, Supersede(n, v)
  PROVE  KeptOK'
<1>1. PICK id \in NoteIds :
        /\ FreshId(id, DOMAIN notes)
        /\ notes' = Superseded(Inserted(notes, id, Vector(v)), n, id)
  BY DEF Supersede
<1> DEFINE vec == Vector(v)
           inserted == Inserted(notes, id, vec)
<1>2. /\ vec \in {NULL, nextUid} /\ vec \in Uids \cup {NULL}
      /\ TableOK(notes) /\ nextUid \in Uids
      /\ n \in DOMAIN notes /\ notes[n].status = "active"
  BY MintOK DEF Vector, IInv, Supersede
<1>3. TableOK(inserted)
  BY <1>1, <1>2, InsertedOK
<1>4. /\ KeepsRows(notes, inserted) /\ id \notin DOMAIN notes
      /\ DOMAIN inserted = DOMAIN notes \cup {id} /\ inserted[n] = notes[n]
      /\ OwnVector(inserted[id])
  <2>1. /\ KeepsRows(notes, inserted) /\ id \notin DOMAIN notes
        /\ DOMAIN inserted = DOMAIN notes \cup {id}
        /\ \A m \in DOMAIN notes : inserted[m] = notes[m]
        /\ OwnVector(inserted[id])
    BY <1>1, <1>2, InsertedKeeps
  <2> QED
    BY <1>2, <2>1
<1> HIDE DEF inserted, vec
<1>5. /\ KeepsRows(inserted, notes') /\ DOMAIN notes' = DOMAIN inserted
      /\ \A m \in DOMAIN inserted \ {n} : notes'[m] = inserted[m]
  <2>1. notes' = Superseded(inserted, n, id)
    BY <1>1 DEF inserted, vec
  <2>2. n \in DOMAIN inserted /\ inserted[n].status = "active"
    BY <1>2, <1>4
  <2> QED
    BY <1>3, <2>1, <2>2, SupersededRows
<1>6. KeepsRows(notes, notes') /\ OwnVector(notes'[id]) /\ DOMAIN notes' = DOMAIN notes \cup {id}
  BY <1>2, <1>4, <1>5, KeepsTransitive
<1>7. Stays
  BY <1>6, KeepingStays
<1> QED
  BY <1>7, KeptFrame DEF Supersede

\* A purge that happens to delete nothing.
LEMMA PurgeKeeps ==
  ASSUME IInv, KeptOK, DOMAIN notes \subseteq DOMAIN notes',
         \/ \E n \in NoteIds : HardForget(n)
         \/ ApplyExpiry
         \/ ClearNotes
  PROVE  KeptOK'
<1>1. \/ \E S, T : notes' = Without(Unlinked(notes, S), T)
      \/ notes' = Without(notes, DOMAIN notes)
  BY DEF HardForget, ApplyExpiry, ClearNotes
<1>2. KeepsRows(notes, notes')
  <2>1. CASE \E S, T : notes' = Without(Unlinked(notes, S), T)
    BY <2>1, PurgedKeeps DEF IInv
  <2>2. CASE notes' = Without(notes, DOMAIN notes)
    BY <2>2 DEF Without, KeepsRows, KeepsRow
  <2> QED
    BY <1>1, <2>1, <2>2
<1>3. DOMAIN notes' = DOMAIN notes
  BY <1>1 DEF Without, Unlinked
<1>4. Stays
  BY <1>2, <1>3, KeepingStays
<1>5. /\ DOMAIN ops' \subseteq DOMAIN ops /\ \A o \in DOMAIN ops' : ops'[o] = ops[o]
      /\ reads' \subseteq reads
      /\ plan' = {} \/ (plan' = plan /\ op' = op)
  BY DEF HardForget, ApplyExpiry, ClearNotes, Release
<1> QED
  BY <1>4, <1>5, KeptFrame

\* Jobs that end or plan something else: the rows are not touched.
LEMMA QuietJobKeeps ==
  ASSUME IInv, KeptOK, FinishMerge \/ PlanExpiry \/ AbortJob
  PROVE  KeptOK'
<1>1. notes' = notes
  BY DEF FinishMerge, PlanExpiry, AbortJob
<1>2. KeepsRows(notes, notes')
  BY <1>1 DEF KeepsRows, KeepsRow
<1>3. Stays
  BY <1>1, <1>2, KeepingStays
<1>4. /\ DOMAIN ops' \subseteq DOMAIN ops /\ \A o \in DOMAIN ops' : ops'[o] = ops[o]
      /\ reads' \subseteq reads
      /\ plan' = {} \/ (plan' = plan /\ op' = op)
  BY DEF FinishMerge, PlanExpiry, AbortJob, Release
<1> QED
  BY <1>3, <1>4, KeptFrame

\* reembed-notes stores, in rows that have not been replaced since, the vectors
\* of the texts it read.
LEMMA WriteEmbeddingsKeeps ==
  ASSUME IInv, KeptOK, WriteEmbeddings
  PROVE  KeptOK'
<1>1. ASSUME NEW n \in DOMAIN notes
      PROVE  /\ notes'[n].uid = notes[n].uid /\ notes'[n].status = notes[n].status
             /\ OwnVector(notes'[n])
  <2> DEFINE r == CHOOSE r \in reads : r.note = n
  <2>1. notes[n] \in Note /\ OwnVector(notes[n])
    BY DEF IInv, TableOK, RowOK, KeptOK, OwnVector
  <2>2. CASE notes[n].vec = NULL /\ \E q \in reads : q.note = n
    <3>1. r \in reads /\ r.note = n
      BY <2>2
    <3>2. r.uid = notes[n].uid
      BY <3>1 DEF KeptOK
    <3>3. notes'[n] = [notes[n] EXCEPT !.vec = r.uid]
      BY <2>2 DEF WriteEmbeddings
    <3> HIDE DEF r
    <3> QED
      BY <2>1, <3>2, <3>3 DEF Note, OwnVector
  <2>3. CASE ~(notes[n].vec = NULL /\ \E q \in reads : q.note = n)
    <3>1. notes'[n] = notes[n]
      BY <2>3 DEF WriteEmbeddings
    <3> QED
      BY <2>1, <3>1
  <2> QED
    BY <2>2, <2>3
<1>2. DOMAIN notes' = DOMAIN notes
  BY DEF WriteEmbeddings
<1>3. Stays
  BY <1>1, <1>2 DEF Stays
<1> QED
  BY <1>3, KeptFrame DEF WriteEmbeddings, Release

LEMMA ResetEmbeddingsKeeps ==
  ASSUME IInv, KeptOK, ResetEmbeddings
  PROVE  KeptOK'
<1>1. ASSUME NEW row \in Note
      PROVE  LET now == [row EXCEPT !.vec = NULL]
             IN  now.uid = row.uid /\ now.status = row.status /\ OwnVector(now)
  BY <1>1 DEF Note, OwnVector
<1>2. \A n \in DOMAIN notes : notes[n] \in Note
  BY DEF IInv, TableOK, RowOK
<1>3. Stays
  BY <1>1, <1>2 DEF Stays, ResetEmbeddings
<1> QED
  BY <1>3, KeptFrame DEF ResetEmbeddings

LEMMA PlanReembedKeeps ==
  ASSUME IInv, KeptOK, PlanReembed
  PROVE  KeptOK'
<1>1. \A r \in reads' : r.note \in DOMAIN notes /\ notes[r.note].uid = r.uid
  BY DEF PlanReembed
<1> QED
  BY <1>1 DEF KeptOK, PlanReembed

\* A retired note is no candidate, so a new plan takes nothing a live
\* operation took.
LEMMA ClustersApart ==
  ASSUME NEW seed \in Seeding, NEW c \in Clusters(seed)
  PROVE  /\ c.members \subseteq Candidates /\ c.rep \in c.members
         /\ \A d \in Clusters(seed) : c # d => c.members \cap d.members = {}
<1> DEFINE Of(n) == [rep |-> seed[n], members |-> {m \in Candidates : seed[m] = seed[n]}]
<1>1. \A d \in Clusters(seed) : \E n \in Candidates : d = Of(n)
  BY DEF Clusters
<1>2. \A n \in Candidates : seed[n] \in Candidates /\ seed[seed[n]] = seed[n]
  BY DEF Seeding
<1>3. \A n, m \in Candidates : m \in Of(n).members => Of(m) = Of(n)
  OBVIOUS
<1>4. \A n \in Candidates :
        Of(n).members \subseteq Candidates /\ Of(n).rep \in Of(n).members
  BY <1>2
<1> HIDE DEF Of
<1> QED
  BY <1>1, <1>3, <1>4

LEMMA PlanMergeKeeps ==
  ASSUME IInv, NEW kind \in Kinds, PlanMerge(kind)
  PROVE  PlanOK' /\ (KeptOK => KeptOK')
<1>1. PICK seed \in Seeding : plan' = Clusters(seed)
  BY DEF PlanMerge
<1>2. \A c \in plan' :
        /\ c.members \subseteq Candidates /\ c.rep \in c.members
        /\ \A d \in plan' : c # d => c.members \cap d.members = {}
  BY <1>1, ClustersApart
<1>3. \A n \in Candidates : n \in DOMAIN notes /\ notes[n].status # "tombstoned"
  BY DEF Candidates
<1>4. PlanOK'
  BY <1>2 DEF PlanOK
<1>5. ASSUME KeptOK PROVE KeptOK'
  <2>1. \A c \in plan' :
          /\ c.members \subseteq DOMAIN notes
          /\ \A o \in DOMAIN ops : ~ops[o].undone => Took(ops[o]) \cap c.members = {}
    BY <1>2, <1>3, <1>5 DEF KeptOK
  <2> QED
    BY <1>5, <2>1 DEF KeptOK, PlanMerge
<1> QED
  BY <1>4, <1>5

LEMMA BeginOperationKeeps ==
  ASSUME IInv, KeptOK, BeginOperation
  PROVE  KeptOK'
<1>1. PICK id \in OpIds :
        /\ FreshId(id, DOMAIN ops) /\ op' = id
        /\ ops' = [o \in DOMAIN ops \cup {id} |->
                    IF o = id THEN [kind |-> lock, undone |-> FALSE, recs |-> {}]
                    ELSE ops[o]]
  BY DEF BeginOperation
<1>2. id \notin DOMAIN ops /\ op \notin DOMAIN ops
  BY <1>1 DEF FreshId, IInv, LogOK, OpIds, BeginOperation, NULL
<1>3. /\ DOMAIN ops' = DOMAIN ops \cup {id} /\ Took(ops'[id]) = {}
      /\ \A o \in DOMAIN ops : ops'[o] = ops[o]
  BY <1>1, <1>2 DEF Took
<1>4. UNCHANGED <<notes, reads, plan>>
  BY DEF BeginOperation
<1> QED
  BY <1>1, <1>2, <1>3, <1>4 DEF KeptOK

\* Undoing an operation brings back only what it took itself.
LEMMA UndoOperationKeeps ==
  ASSUME IInv, KeptOK, NEW o \in OpIds, UndoOperation(o)
  PROVE  KeptOK'
<1> DEFINE recs == ops[o].recs
<1>1. /\ o \in DOMAIN ops /\ ~ops[o].undone /\ RecsOK(recs) /\ recs \subseteq Record
      /\ notes' = Undone(notes, recs) /\ UNCHANGED <<reads, plan, op>>
      /\ TableOK(notes)
  BY DEF UndoOperation, IInv, LogOK, RecsOK
<1>2. /\ DOMAIN ops' = DOMAIN ops /\ ops'[o].undone
      /\ \A q \in DOMAIN ops : q # o => ops'[q] = ops[q]
  BY <1>1 DEF UndoOperation, IInv, LogOK, Operation
<1>3. /\ DOMAIN notes' = DOMAIN notes
      /\ \A n \in DOMAIN notes : notes'[n].uid = notes[n].uid /\ notes'[n].vec = notes[n].vec
      /\ \A n \in DOMAIN notes :
              /\ notes[n].status = "tombstoned"
              /\ \A r \in recs : r.note = n => r.action = "created"
              => notes'[n].status = "tombstoned"
  BY <1>1, UndoneRows
<1>4. ASSUME NEW q \in DOMAIN ops, q # o, ~ops[q].undone, NEW n \in Took(ops[q])
      PROVE  n \in DOMAIN notes' /\ notes'[n].status = "tombstoned"
  <2>1. n \in DOMAIN notes /\ notes[n].status = "tombstoned" /\ n \notin Took(ops[o])
    BY <1>1, <1>4 DEF KeptOK
  <2>2. n \in NoteIds
    BY DEF Took
  <2>3. \A r \in recs : r.note = n => r.action = "created"
    BY <2>1, <2>2 DEF Took
  <2> QED
    BY <1>3, <2>1, <2>3
<1> HIDE DEF recs
<1>5. \A n \in DOMAIN notes' : notes'[n].vec \in {NULL, notes'[n].uid}
  BY <1>3 DEF KeptOK
<1>6. \A r \in reads' : r.note \in DOMAIN notes' /\ notes'[r.note].uid = r.uid
  BY <1>1, <1>3 DEF KeptOK
<1>7. \A q \in DOMAIN ops' : ~ops'[q].undone => q \in DOMAIN ops /\ q # o /\ ops'[q] = ops[q]
  BY <1>2
<1>8. \A q \in DOMAIN ops' : ~ops'[q].undone =>
        \A n \in Took(ops'[q]) : n \in DOMAIN notes' /\ notes'[n].status = "tombstoned"
  BY <1>4, <1>7
<1>9. \A p, q \in DOMAIN ops' :
       p # q /\ ~ops'[p].undone /\ ~ops'[q].undone => Took(ops'[p]) \cap Took(ops'[q]) = {}
  BY <1>7 DEF KeptOK
<1>10. \A c \in plan' :
        /\ c.members \subseteq DOMAIN notes'
        /\ \A q \in DOMAIN ops' \ {op'} : ~ops'[q].undone => Took(ops'[q]) \cap c.members = {}
  BY <1>1, <1>3, <1>7 DEF KeptOK
<1> QED
  BY <1>5, <1>6, <1>8, <1>9, <1>10 DEF KeptOK

\* The log after a merge step.
LEMMA MergedLog ==
  ASSUME IInv, NEW c \in plan, NEW S, NEW recs, Merged(c, S, recs)
  PROVE  /\ op \in DOMAIN ops /\ DOMAIN ops' = DOMAIN ops
         /\ ops'[op].recs = recs /\ ops'[op].undone = ops[op].undone
         /\ \A o \in DOMAIN ops : o # op => ops'[o] = ops[o]
<1>1. /\ op \in DOMAIN ops /\ ops' = [ops EXCEPT ![op].recs = recs]
      /\ ops[op] \in Operation
  BY DEF Merged, IInv, JobOK, LogOK
<1> QED
  BY <1>1 DEF Operation, IInv, LogOK

\* A merge takes notes that no live operation has taken, because its cluster
\* is apart from them.
LEMMA MergedKeeps ==
  ASSUME IInv, PlanOK, KeptOK, NEW c \in plan, NEW S, NEW recs, Merged(c, S, recs)
  PROVE  KeptOK'
<1>1. /\ op \in DOMAIN ops /\ DOMAIN ops' = DOMAIN ops
      /\ ops'[op].recs = recs /\ ops'[op].undone = ops[op].undone
      /\ \A o \in DOMAIN ops : o # op => ops'[o] = ops[o]
  BY MergedLog
<1>2. /\ S \subseteq c.members /\ S \subseteq DOMAIN notes
      /\ UNCHANGED <<op, reads>> /\ plan' = plan \ {c}
      /\ \A n \in S : notes'[n].status = "tombstoned"
      /\ KeepsRows(notes, notes')
      /\ \A n \in DOMAIN notes' \ DOMAIN notes : OwnVector(notes'[n])
  BY DEF Merged, KeptOK
<1>3. Stays
  BY <1>2, KeepingStays
<1>4. Took(ops'[op]) \subseteq Took(ops[op]) \cup S
  BY <1>1 DEF Took, Merged
<1>5. \A o \in DOMAIN ops' : o # op => o \in DOMAIN ops /\ ops'[o] = ops[o]
  BY <1>1
<1>6. \A n \in DOMAIN notes' : notes'[n].vec \in {NULL, notes'[n].uid}
  BY <1>3 DEF Stays, OwnVector
<1>7. \A r \in reads' : r.note \in DOMAIN notes' /\ notes'[r.note].uid = r.uid
  BY <1>2, <1>3 DEF Stays, KeptOK
<1>8. ASSUME NEW o \in DOMAIN ops', ~ops'[o].undone, NEW n \in Took(ops'[o])
      PROVE  n \in DOMAIN notes' /\ notes'[n].status = "tombstoned"
  <2>1. CASE n \in S
    BY <1>2, <1>3, <2>1 DEF Stays
  <2>2. CASE n \notin S
    <3>1. o \in DOMAIN ops /\ ~ops[o].undone /\ n \in Took(ops[o])
      BY <1>1, <1>4, <1>8, <2>2
    <3>2. n \in DOMAIN notes /\ notes[n].status = "tombstoned"
      BY <3>1 DEF KeptOK
    <3> QED
      BY <1>3, <3>2 DEF Stays
  <2> QED
    BY <2>1, <2>2
<1>9. ASSUME NEW q \in DOMAIN ops, q # op, ~ops[q].undone
      PROVE  /\ Took(ops[q]) \cap S = {}
             /\ ~ops[op].undone => Took(ops[q]) \cap Took(ops'[op]) = {}
  <2>1. Took(ops[q]) \cap c.members = {}
    BY <1>9 DEF KeptOK
  <2>2. ~ops[op].undone => Took(ops[q]) \cap Took(ops[op]) = {}
    BY <1>1, <1>9 DEF KeptOK
  <2> QED
    BY <1>2, <1>4, <2>1, <2>2
<1>10. ASSUME NEW o \in DOMAIN ops', NEW q \in DOMAIN ops', o # q,
              ~ops'[o].undone, ~ops'[q].undone
       PROVE  Took(ops'[o]) \cap Took(ops'[q]) = {}
  <2>1. CASE o = op
    BY <1>1, <1>5, <1>9, <1>10, <2>1
  <2>2. CASE q = op
    BY <1>1, <1>5, <1>9, <1>10, <2>2
  <2>3. CASE o # op /\ q # op
    BY <1>5, <1>10, <2>3 DEF KeptOK
  <2> QED
    BY <2>1, <2>2, <2>3
<1>11. \A d \in plan' :
        /\ d.members \subseteq DOMAIN notes'
        /\ \A o \in DOMAIN ops' \ {op'} : ~ops'[o].undone => Took(ops'[o]) \cap d.members = {}
  BY <1>2, <1>3, <1>5 DEF KeptOK, Stays
<1> QED
  BY <1>6, <1>7, <1>8, <1>10, <1>11 DEF KeptOK

-----------------------------------------------------------------------------
(* What a merge job has made of the notes it found. *)

\* One more cluster merged.
LEMMA MadeOfGrows ==
  ASSUME NEW bs, NEW ns, NEW ms, NEW old, NEW recs, NEW S, MadeOf(bs, ns, old),
         DOMAIN bs \subseteq DOMAIN ns, DOMAIN ns \subseteq DOMAIN ms,
         S \subseteq DOMAIN bs, \A r \in old : r.note \notin S,
         \A n \in DOMAIN ns \ S : ms[n] = ns[n],
         old \subseteq recs,
         \A r \in recs \ old : r.note \in S \/ r.note \in DOMAIN ms \ DOMAIN ns,
         \A n \in S : \E r \in recs :
           Only(recs, n, r) /\ TakenRow(ns[n], ms[n], r, DOMAIN ms \ DOMAIN ns),
         \A n \in DOMAIN ms \ DOMAIN ns :
           /\ ms[n].status = "active" /\ ms[n].sb = NULL
           /\ \E r \in recs : Only(recs, n, r) /\ r.action = "created"
  PROVE  MadeOf(bs, ms, recs)
<1> DEFINE mine == DOMAIN ms \ DOMAIN bs
<1>1. \A r \in recs : r.note \in DOMAIN ms
  BY DEF MadeOf
<1>2. ASSUME NEW n \in DOMAIN ns \ S, NEW r, Only(old, n, r)
      PROVE  Only(recs, n, r) /\ r \in recs
  <2>1. \A s \in recs \ old : s.note # n
    OBVIOUS
  <2> QED
    BY <1>2, <2>1, OnlyGrows DEF Only
<1>3. ASSUME NEW n \in DOMAIN bs
      PROVE  \/ ms[n] = bs[n] /\ \A r \in recs : r.note # n
             \/ \E r \in recs : Only(recs, n, r) /\ TakenRow(bs[n], ms[n], r, mine)
  <2>1. CASE n \in S
    <3>1. ns[n] = bs[n]
      BY <2>1 DEF MadeOf, Only
    <3>2. PICK r \in recs : Only(recs, n, r) /\ TakenRow(ns[n], ms[n], r, DOMAIN ms \ DOMAIN ns)
      BY <2>1
    <3>3. TakenRow(bs[n], ms[n], r, mine)
      BY <3>1, <3>2 DEF TakenRow
    <3> QED
      BY <3>2, <3>3
  <2>2. CASE n \notin S /\ \A r \in old : r.note # n
    <3>1. ns[n] = bs[n]
      BY <2>2 DEF MadeOf, Only
    <3>2. ms[n] = bs[n] /\ \A r \in recs : r.note # n
      BY <2>2, <3>1
    <3> QED
      BY <3>2
  <2>3. CASE n \notin S /\ ~\A r \in old : r.note # n
    <3>1. PICK r \in old : Only(old, n, r) /\ TakenRow(bs[n], ns[n], r, DOMAIN ns \ DOMAIN bs)
      BY <2>3 DEF MadeOf
    <3>2. ms[n] = ns[n]
      BY <2>3
    <3>3. TakenRow(bs[n], ms[n], r, mine)
      BY <3>1, <3>2 DEF TakenRow
    <3> QED
      BY <1>2, <2>3, <3>1, <3>3
  <2> QED
    BY <2>1, <2>2, <2>3
<1>4. ASSUME NEW n \in DOMAIN ms \ DOMAIN bs
      PROVE  /\ ms[n].status = "active" /\ ms[n].sb = NULL
             /\ \E r \in recs : Only(recs, n, r) /\ r.action = "created"
  <2>1. CASE n \in DOMAIN ns
    <3>1. PICK r \in old : Only(old, n, r) /\ r.action = "created"
      BY <1>4, <2>1 DEF MadeOf
    <3>2. n \in DOMAIN ns \ S /\ ms[n] = ns[n]
      BY <1>4, <2>1
    <3>3. ns[n].status = "active" /\ ns[n].sb = NULL
      BY <1>4, <2>1 DEF MadeOf
    <3> QED
      BY <1>2, <3>1, <3>2, <3>3
  <2>2. CASE n \notin DOMAIN ns
    BY <2>2
  <2> QED
    BY <2>1, <2>2
<1> QED
  BY <1>1, <1>3, <1>4 DEF MadeOf

LEMMA MergedQuiet ==
  ASSUME IInv, PlanOK, QuietOK, NEW c \in plan, NEW S, NEW recs, Merged(c, S, recs),
         UNCHANGED <<before, run>>
  PROVE  QuietOK'
<1>1. /\ op \in DOMAIN ops /\ DOMAIN ops' = DOMAIN ops /\ ops'[op].recs = recs
  BY MergedLog
<1>2. op # NULL /\ lock \in Kinds /\ op = run /\ UNCHANGED <<lock, op>> /\ plan' = plan \ {c}
  BY DEF Merged, IInv, JobOK, QuietOK
<1> DEFINE old == ops[op].recs
<1>3. /\ MadeOf(before, notes, old) /\ S \subseteq c.members
      /\ c.members \subseteq DOMAIN before /\ DOMAIN before \subseteq DOMAIN notes
      /\ \A r \in old : r.note \notin c.members /\ r.note \in DOMAIN notes
  BY <1>1, <1>2 DEF QuietOK, MadeOf, Merged
<1>4. /\ DOMAIN notes \subseteq DOMAIN notes' /\ old \subseteq recs
      /\ \A n \in DOMAIN notes \ S : notes'[n] = notes[n]
      /\ \A r \in recs \ old : r.note \in S \/ r.note \in DOMAIN notes' \ DOMAIN notes
      /\ \A n \in S : (\A r \in old : r.note # n) =>
           \E r \in recs : Only(recs, n, r)
             /\ TakenRow(notes[n], notes'[n], r, DOMAIN notes' \ DOMAIN notes)
      /\ \A n \in DOMAIN notes' \ DOMAIN notes :
           /\ notes'[n].status = "active" /\ notes'[n].sb = NULL
           /\ (\A r \in old : r.note # n) =>
                \E r \in recs : Only(recs, n, r) /\ r.action = "created"
  BY DEF Merged, KeepsRows
<1> HIDE DEF old
<1>5. /\ \A n \in S : \E r \in recs : Only(recs, n, r)
             /\ TakenRow(notes[n], notes'[n], r, DOMAIN notes' \ DOMAIN notes)
      /\ \A n \in DOMAIN notes' \ DOMAIN notes :
           /\ notes'[n].status = "active" /\ notes'[n].sb = NULL
           /\ \E r \in recs : Only(recs, n, r) /\ r.action = "created"
  BY <1>3, <1>4
<1>6. MadeOf(before, notes', recs)
  BY <1>3, <1>4, <1>5, MadeOfGrows
<1>7. \A d \in plan' :
        /\ d.members \subseteq DOMAIN before
        /\ \A r \in recs : r.note \notin d.members
  <2> SUFFICES ASSUME NEW d \in plan'
               PROVE  /\ d.members \subseteq DOMAIN before
                      /\ \A r \in recs : r.note \notin d.members
    OBVIOUS
  <2>1. d \in plan /\ c.members \cap d.members = {}
    BY <1>2 DEF PlanOK
  <2>2. d.members \subseteq DOMAIN before /\ \A r \in old : r.note \notin d.members
    BY <1>1, <1>2, <2>1 DEF QuietOK, old
  <2> QED
    BY <1>3, <1>4, <2>1, <2>2
<1>8. TableOK(before) /\ ForeignKeysHold(before)
  BY DEF QuietOK
<1> QED
  BY <1>1, <1>2, <1>3, <1>4, <1>6, <1>7, <1>8 DEF QuietOK

\* A merge job plans: it has found what there is.
LEMMA PlanMergeQuiet ==
  ASSUME IInv, NEW kind \in Kinds, PlanMerge(kind), before' = notes, run' = NULL
  PROVE  QuietOK'
<1>1. PICK seed \in Seeding : plan' = Clusters(seed)
  BY DEF PlanMerge
<1>2. \A c \in plan' : c.members \subseteq DOMAIN notes
  BY <1>1, ClustersApart DEF Candidates
<1>3. op = NULL /\ UNCHANGED <<notes, ops, op>> /\ NULL \notin DOMAIN ops
  BY DEF PlanMerge, Free, IInv, JobOK, LogOK, Kinds, OpIds, NULL
<1> QED
  BY <1>2, <1>3 DEF QuietOK, IInv

LEMMA BeginOperationQuiet ==
  ASSUME IInv, QuietOK, BeginOperation, run' = op', UNCHANGED before
  PROVE  QuietOK'
<1>1. PICK id \in OpIds :
        /\ op' = id
        /\ ops' = [o \in DOMAIN ops \cup {id} |->
                    IF o = id THEN [kind |-> lock, undone |-> FALSE, recs |-> {}]
                    ELSE ops[o]]
  BY DEF BeginOperation
<1>2. ops'[id].recs = {} /\ id # NULL
  BY <1>1 DEF OpIds, NULL
<1>3. UNCHANGED <<notes, plan, lock>> /\ op = NULL /\ lock \in Kinds
  BY DEF BeginOperation
<1>4. notes = before
  BY <1>3 DEF QuietOK
<1>5. MadeOf(before, notes, {})
  BY <1>4 DEF MadeOf
<1> QED
  BY <1>1, <1>2, <1>3, <1>5 DEF QuietOK

\* The end of a job, and the plans of the others.
LEMMA OtherJobsQuiet ==
  ASSUME IInv, QuietOK, FinishMerge \/ PlanReembed \/ PlanExpiry \/ AbortJob,
         UNCHANGED <<before, run>>
  PROVE  QuietOK'
<1>1. notes' = notes /\ lock' \notin Kinds
  BY DEF FinishMerge, PlanReembed, PlanExpiry, AbortJob, Release, Kinds
<1>2. \A o \in DOMAIN ops' : o \in DOMAIN ops /\ ops'[o] = ops[o]
  BY DEF FinishMerge, PlanReembed, PlanExpiry, AbortJob
<1> QED
  BY <1>1, <1>2 DEF QuietOK

LEMMA MergeClusterStep ==
  ASSUME IInv, PlanOK, MergeCluster, UNCHANGED <<before, run>>
  PROVE  PlanOK' /\ (KeptOK => KeptOK') /\ (QuietOK => QuietOK')
<1>1. PICK c \in plan : \/ MergeByKeeping(c)
                        \/ MergeByRewriting(c)
                        \/ \E v \in BOOLEAN : ReflectCluster(c, v)
  BY DEF MergeCluster
<1>2. plan' \subseteq plan
  BY <1>1 DEF MergeByKeeping, MergeByRewriting, ReflectCluster
<1>3. PlanOK'
  BY <1>2 DEF PlanOK
<1>4. ASSUME KeptOK PROVE KeptOK'
  <2>1. c.members \subseteq DOMAIN notes
    BY <1>4 DEF KeptOK
  <2>2. PICK S, recs : Merged(c, S, recs)
    BY <1>1, <2>1, ClusterMerges
  <2> QED
    BY <1>4, <2>2, MergedKeeps
<1>5. ASSUME QuietOK PROVE QuietOK'
  <2>1. lock \in Kinds
    BY <1>1 DEF MergeByKeeping, MergeByRewriting, ReflectCluster, Kinds
  <2>2. c.members \subseteq DOMAIN notes
    BY <1>5, <2>1 DEF QuietOK
  <2>3. PICK S, recs : Merged(c, S, recs)
    BY <1>1, <2>2, ClusterMerges
  <2> QED
    BY <1>5, <2>3, MergedQuiet
<1> QED
  BY <1>3, <1>4, <1>5

\* Plans survive every other step, or are dropped.
LEMMA OtherStepsPlan ==
  ASSUME PlanOK, FreeWrite \/ LockedWrite \/ BeginOperation \/ FinishMerge \/ PlanReembed
                   \/ WriteEmbeddings \/ PlanExpiry \/ ApplyExpiry \/ AbortJob
  PROVE  PlanOK'
<1>1. plan' \subseteq plan
  BY DEF FreeWrite, LockedWrite, Remember, Forget, HardForget, Supersede,
         UndoOperation, ClearNotes, ResetEmbeddings, BeginOperation, FinishMerge,
         PlanReembed, WriteEmbeddings, PlanExpiry, ApplyExpiry, AbortJob, Release
<1> QED
  BY <1>1 DEF PlanOK

-----------------------------------------------------------------------------

LEMMA HistoryInitOK == HInit => HInv
<1> SUFFICES ASSUME HInit PROVE HInv
  OBVIOUS
<1>1. IInv /\ quiet = FALSE
  BY InitOK DEF HInit
<1>2. PlanOK /\ KeptOK
  BY DEF HInit, Init, PlanOK, KeptOK
<1> QED
  BY <1>1, <1>2 DEF HInv

LEMMA HistoryNextOK == HInv /\ [HNext]_hvars => HInv'
<1> SUFFICES ASSUME HInv, [HNext]_hvars PROVE HInv'
  OBVIOUS
<1>1. CASE UNCHANGED hvars
  <2>1. IInv'
    BY <1>1, NextOK DEF HInv, hvars
  <2>2. UNCHANGED <<notes, ops, plan, op, lock, reads, before, quiet, run, purged>>
    BY <1>1 DEF hvars, vars, observers
  <2>3. PlanOK' /\ (~purged' => KeptOK') /\ (quiet' => QuietOK')
    BY <2>2 DEF HInv, PlanOK, KeptOK, QuietOK
  <2> QED
    BY <2>1, <2>3 DEF HInv
<1>2. CASE HNext
  <2>1. Next
    BY <1>2 DEF HNext, Watched, Next, JobStep
  <2>2. IInv' /\ IInv /\ PlanOK
    BY <2>1, NextOK DEF HInv
  <2>3. ~purged' => KeptOK /\ DOMAIN notes \subseteq DOMAIN notes'
    BY <1>2 DEF HNext, HInv
  <2>4. CASE MergeCluster /\ UNCHANGED <<before, quiet, run>>
    BY <2>2, <2>3, <2>4, MergeClusterStep DEF HInv
  <2>5. CASE (\E kind \in Kinds : PlanMerge(kind)) /\ before' = notes /\ run' = NULL
    BY <2>2, <2>3, <2>5, PlanMergeKeeps, PlanMergeQuiet DEF HInv
  <2>6. CASE BeginOperation /\ run' = op' /\ UNCHANGED <<before, quiet>>
    BY <2>2, <2>3, <2>6, OtherStepsPlan, BeginOperationKeeps, BeginOperationQuiet DEF HInv
  <2>7. CASE (FinishMerge \/ PlanReembed \/ PlanExpiry \/ AbortJob)
               /\ UNCHANGED <<before, quiet, run>>
    BY <2>2, <2>3, <2>7, OtherStepsPlan, QuietJobKeeps, PlanReembedKeeps,
       OtherJobsQuiet DEF HInv
  <2>8. CASE (WriteEmbeddings \/ ApplyExpiry \/ FreeWrite \/ LockedWrite) /\ Disturbed
    <3>1. PlanOK'
      BY <2>2, <2>8, OtherStepsPlan
    <3>2. quiet' = FALSE
      BY <2>8 DEF Disturbed
    <3>3. ASSUME KeptOK, DOMAIN notes \subseteq DOMAIN notes' PROVE KeptOK'
      BY <2>2, <2>8, <3>3, WriteEmbeddingsKeeps, PurgeKeeps, RememberKeeps, ForgetKeeps,
         SupersedeKeeps, UndoOperationKeeps, ResetEmbeddingsKeeps DEF FreeWrite, LockedWrite
    <3> QED
      BY <2>2, <2>3, <3>1, <3>2, <3>3 DEF HInv
  <2> QED
    BY <1>2, <2>4, <2>5, <2>6, <2>7, <2>8 DEF HNext, Watched
<1> QED
  BY <1>1, <1>2

\* Undoing the job now gives every note it found back, exactly.
LEMMA QuietMeansExact == HInv => QuietOperationIsExact
<1> SUFFICES ASSUME HInv, Undisturbed PROVE QuietOperationIsExact
  BY DEF QuietOperationIsExact, QuietUndoIsExact, QuietMergeIsWhole
<1> DEFINE recs == ops[run].recs
           after == Undone(notes, recs)
           Of(n) == {r \in recs : r.note = n}
<1>1. /\ MadeOf(before, notes, recs) /\ TableOK(before) /\ TableOK(notes)
      /\ ForeignKeysHold(before) /\ DOMAIN before \subseteq DOMAIN notes
  BY DEF HInv, QuietOK, Undisturbed, IInv
<1>2. DOMAIN after = DOMAIN notes /\ \A n \in DOMAIN notes : after[n] = Reversed(notes[n], Of(n))
  BY DEF Undone
<1>3. \A row : Reversed(row, {}) = row
  BY DEF Reversed
<1>4. ASSUME NEW row, NEW r
      PROVE  /\ r.action = "created" => Reversed(row, {r}) = Retired(row)
             /\ r.action # "created" => Reversed(row, {r}) = Restored(row, r)
  BY DEF Reversed
<1>5. ASSUME NEW n, NEW r, Only(recs, n, r) PROVE Of(n) = {r}
  BY <1>5 DEF Only
<1>6. \A n : (\A r \in recs : r.note # n) => Of(n) = {}
  OBVIOUS
<1> HIDE DEF recs, after, Of
<1>7. ASSUME NEW n \in DOMAIN before
      PROVE  /\ n \in DOMAIN after /\ after[n] = before[n]
             /\ notes[n].sb # before[n].sb => notes[n].sb \in DOMAIN notes \ DOMAIN before
  <2>1. CASE notes[n] = before[n] /\ \A r \in recs : r.note # n
    BY <1>1, <1>2, <1>3, <1>6, <2>1
  <2>2. CASE \E r \in recs : Only(recs, n, r)
                /\ TakenRow(before[n], notes[n], r, DOMAIN notes \ DOMAIN before)
    <3>1. PICK r \in recs : /\ Only(recs, n, r)
                            /\ TakenRow(before[n], notes[n], r, DOMAIN notes \ DOMAIN before)
      BY <2>2
    <3>2. after[n] = Restored(notes[n], r)
      BY <1>1, <1>2, <1>4, <1>5, <3>1 DEF TakenRow
    <3>3. /\ notes[n] \in Note /\ before[n] \in Note
          /\ before[n].status = StatusOf(before[n].deleted, before[n].sb)
      BY <1>1 DEF TableOK, RowOK
    <3>4. Restored(notes[n], r) = before[n]
      <4> DEFINE back == [notes[n] EXCEPT !.deleted = r.prevDeleted, !.sb = r.prevSb,
                                          !.status = StatusOf(r.prevDeleted, r.prevSb)]
      <4>1. Restored(notes[n], r) = back
        BY <3>1, <3>3 DEF TakenRow, Restored
      <4>2. back = before[n]
        BY <3>1, <3>3 DEF TakenRow, Note
      <4> QED
        BY <4>1, <4>2
    <3> QED
      BY <1>1, <1>2, <3>1, <3>2, <3>4 DEF TakenRow
  <2> QED
    BY <1>1, <2>1, <2>2 DEF MadeOf
<1>8. ASSUME NEW n \in DOMAIN notes \ DOMAIN before
      PROVE  /\ after[n].status = "tombstoned" /\ after[n].sb = NULL
             /\ notes[n].status = "active"
             /\ \E r \in recs : r.note = n /\ r.action = "created"
  <2>1. PICK r \in recs : Only(recs, n, r) /\ r.action = "created"
    BY <1>1 DEF MadeOf
  <2>2. notes[n].status = "active" /\ notes[n].sb = NULL /\ notes[n] \in Note
    BY <1>1 DEF MadeOf, TableOK, RowOK
  <2>3. after[n] = Retired(notes[n])
    <3>1. Of(n) = {r}
      BY <1>5, <2>1
    <3>2. after[n] = Reversed(notes[n], {r})
      BY <1>2, <3>1
    <3> QED
      BY <1>4, <2>1, <3>2
  <2> QED
    BY <2>1, <2>2, <2>3 DEF Retired, Note, Only
<1>9. ForeignKeysHold(after)
  BY <1>1, <1>2, <1>7, <1>8 DEF ForeignKeysHold
<1>10. QuietUndoIsExact
  BY <1>2, <1>7, <1>8, <1>9 DEF QuietUndoIsExact, after, recs
<1>11. QuietMergeIsWhole
  BY <1>7, <1>8 DEF QuietMergeIsWhole, recs
<1> QED
  BY <1>10, <1>11 DEF QuietOperationIsExact

LEMMA KeptMeansKept == HInv => MergedStaysRetired /\ VectorMatchesText
<1>1. ASSUME HInv, ~purged PROVE MergedStaysRetired /\ VectorMatchesText
  <2>1. KeptOK /\ LogOK
    BY <1>1 DEF HInv, IInv
  <2>2. ASSUME NEW o \in DOMAIN ops, ~ops[o].undone, NEW r \in ops[o].recs,
               r.action # "created"
        PROVE  notes[r.note].status = "tombstoned"
    <3>1. r.note \in Took(ops[o])
      BY <2>1, <2>2 DEF Took, LogOK, RecsOK, Record
    <3> QED
      BY <2>1, <2>2, <3>1 DEF KeptOK
  <2> QED
    BY <2>1, <2>2 DEF MergedStaysRetired, VectorMatchesText, KeptOK
<1>2. ASSUME purged PROVE MergedStaysRetired /\ VectorMatchesText
  BY <1>2 DEF MergedStaysRetired, VectorMatchesText
<1> QED
  BY <1>1, <1>2

LEMMA HistoryInvariance == HSpec => []HInv
<1>1. HInit => HInv
  BY HistoryInitOK
<1>2. HInv /\ [HNext]_hvars => HInv'
  BY HistoryNextOK
<1> QED
  BY <1>1, <1>2, PTL DEF HSpec

\* As long as nobody else has written, undoing a merge job, finished or cut
\* short, gives back exactly the rows it found, leaves none of its own alive,
\* and never meets a foreign key; and what it replaced is replaced by a live
\* row of its own.
THEOREM QuietOperationIsExactTheorem == HSpec => []QuietOperationIsExact
BY HistoryInvariance, QuietMeansExact, PTL

\* What a merge retired stays retired until that merge is undone, whatever
\* other merges are undone and in whatever order.
THEOREM MergedStaysRetiredTheorem == HSpec => []MergedStaysRetired
BY HistoryInvariance, KeptMeansKept, PTL

\* The vector reembed-notes computes from an old read is the vector of the
\* text the row still has.
THEOREM VectorMatchesTextTheorem == HSpec => []VectorMatchesText
BY HistoryInvariance, KeptMeansKept, PTL

-----------------------------------------------------------------------------
(* Recall, of one project and of a Pool, beside these writers. *)

\* The writers rewrite no text: as long as no row is deleted, every row keeps its own.
KeepsTexts(ns, ms) ==
  DOMAIN ns \subseteq DOMAIN ms /\ \A n \in DOMAIN ns : ms[n].uid = ns[n].uid

LEMMA ClustersKeepTexts ==
  ASSUME IInv, MergeCluster
  PROVE  KeepsTexts(notes, notes')
<1>1. CASE \E c \in plan : MergeByKeeping(c)
  BY <1>1, TombstonedKeeps DEF MergeByKeeping, IInv, KeepsTexts, KeepsRows, KeepsRow
<1>2. CASE \E c \in plan : MergeByRewriting(c)
  <2>1. PICK c \in plan : MergeByRewriting(c)
    BY <1>2
  <2>2. PICK id \in NoteIds :
          /\ FreshId(id, DOMAIN notes)
          /\ notes' = Tombstoned(Superseded(Inserted(notes, id, NULL), c.rep, id), c.members)
    BY <2>1 DEF MergeByRewriting
  <2> DEFINE inserted == Inserted(notes, id, NULL)
             pointed == Superseded(inserted, c.rep, id)
  <2>3. c.rep \in DOMAIN notes /\ notes[c.rep].status = "active" /\ TableOK(notes) /\ nextUid \in Uids
    BY <2>1, MintOK DEF MergeByRewriting, IInv
  <2>4. /\ KeepsRows(notes, inserted) /\ DOMAIN inserted = DOMAIN notes \cup {id}
        /\ \A n \in DOMAIN notes : inserted[n] = notes[n]
        /\ TableOK(inserted) /\ \A n \in DOMAIN notes \cup {id} : n <= id
    BY <2>2, <2>3, InsertedKeeps, PlainInsertedOK
  <2> HIDE DEF inserted
  <2>5. KeepsRows(inserted, pointed) /\ TableOK(pointed)
    <3>1. /\ c.rep \in DOMAIN inserted /\ inserted[c.rep].status = "active"
          /\ c.rep <= id /\ id \in DOMAIN inserted
      BY <2>3, <2>4
    <3> QED
      BY <2>4, <3>1, SupersededRows, SupersededOK
  <2>6. KeepsRows(pointed, notes')
    <3>1. notes' = Tombstoned(pointed, c.members)
      BY <2>2 DEF inserted
    <3> HIDE DEF pointed
    <3> QED
      BY <2>5, <3>1, TombstonedKeeps
  <2> QED
    BY <2>4, <2>5, <2>6, KeepsTransitive DEF KeepsTexts, KeepsRows, KeepsRow
<1>3. CASE \E c \in plan, v \in BOOLEAN : ReflectCluster(c, v)
  <2>1. PICK c \in plan, v \in BOOLEAN : ReflectCluster(c, v)
    BY <1>3
  <2>2. PICK id \in NoteIds :
          /\ FreshId(id, DOMAIN notes)
          /\ notes' = Tombstoned(PointedAt(Inserted(notes, id, Vector(v)), c.members, id), c.members)
    BY <2>1 DEF ReflectCluster
  <2> DEFINE inserted == Inserted(notes, id, Vector(v))
             pointed == PointedAt(inserted, c.members, id)
  <2>3. TableOK(notes) /\ nextUid \in Uids /\ Vector(v) \in {NULL, nextUid}
    BY <2>1, MintOK DEF ReflectCluster, IInv, Vector
  <2>4. /\ KeepsRows(notes, inserted) /\ DOMAIN inserted = DOMAIN notes \cup {id}
        /\ id \notin DOMAIN notes /\ \A n \in DOMAIN notes : inserted[n] = notes[n]
    BY <2>2, <2>3, InsertedKeeps
  <2>5. KeepsTexts(inserted, notes')
    <3>1. ASSUME NEW n \in DOMAIN inserted
          PROVE  n \in DOMAIN notes' /\ notes'[n].uid = inserted[n].uid
      <4> DEFINE row == inserted[n]
                 now == [row EXCEPT !.sb = id, !.status = IF @ = "tombstoned" THEN @ ELSE "superseded"]
      <4>1. row \in Note
        BY <2>3, <2>4 DEF TableOK, RowOK, Inserted, Note, Statuses
      <4>2. \A other \in Note : Retired(other).uid = other.uid
        BY DEF Retired, Note
      <4>3. now \in Note /\ now.uid = row.uid
        BY <4>1, <2>2 DEF Note, Statuses
      <4> HIDE DEF now, row, inserted
      <4>4. n \in DOMAIN notes' /\ notes'[n] \in {row, now, Retired(row), Retired(now)}
        BY <2>2 DEF Tombstoned, PointedAt, inserted, now, row
      <4> QED
        BY <4>1, <4>2, <4>3, <4>4 DEF row
    <3> QED
      BY <3>1 DEF KeepsTexts
  <2> HIDE DEF inserted, pointed
  <2> QED
    BY <2>4, <2>5 DEF KeepsTexts, KeepsRows, KeepsRow
<1> QED
  BY <1>1, <1>2, <1>3 DEF MergeCluster

LEMMA WritersKeepTexts ==
  ASSUME IInv, Next, DOMAIN notes \subseteq DOMAIN notes'
  PROVE  KeepsTexts(notes, notes')
<1>1. TableOK(notes) /\ \A n \in DOMAIN notes : notes[n] \in Note
  BY DEF IInv, TableOK, RowOK
<1>2. CASE notes' = notes
  BY <1>2 DEF KeepsTexts
<1>3. CASE \E v \in BOOLEAN : Remember(v)
  <2>1. PICK v \in BOOLEAN, id \in NoteIds : notes' = Inserted(notes, id, Vector(v)) /\ FreshId(id, DOMAIN notes)
    BY <1>3 DEF Remember
  <2>2. Vector(v) \in {NULL, nextUid}
    BY DEF Vector
  <2>3. KeepsRows(notes, notes')
    BY <1>1, <2>1, <2>2, InsertedKeeps
  <2> QED
    BY <2>3 DEF KeepsTexts, KeepsRows, KeepsRow
<1>4. CASE \E n \in NoteIds : Forget(n)
  BY <1>1, <1>4, TombstonedKeeps DEF Forget, KeepsTexts, KeepsRows, KeepsRow
<1>5. CASE \E n \in NoteIds, v \in BOOLEAN : Supersede(n, v)
  <2>1. PICK n \in NoteIds, v \in BOOLEAN : Supersede(n, v)
    BY <1>5
  <2>2. PICK id \in NoteIds :
          FreshId(id, DOMAIN notes) /\ notes' = Superseded(Inserted(notes, id, Vector(v)), n, id)
    BY <2>1 DEF Supersede
  <2> DEFINE vec == Vector(v)
             inserted == Inserted(notes, id, vec)
  <2>3. /\ vec \in {NULL, nextUid} /\ vec \in Uids \cup {NULL} /\ nextUid \in Uids
        /\ n \in DOMAIN notes /\ notes[n].status = "active"
    BY <2>1, MintOK DEF Vector, IInv, Supersede
  <2>4. TableOK(inserted)
    BY <1>1, <2>2, <2>3, InsertedOK
  <2>5. /\ KeepsRows(notes, inserted) /\ inserted[n] = notes[n] /\ n \in DOMAIN inserted
    <3>1. /\ KeepsRows(notes, inserted) /\ DOMAIN inserted = DOMAIN notes \cup {id}
          /\ \A m \in DOMAIN notes : inserted[m] = notes[m]
      <4>1. TableOK(notes) /\ FreshId(id, DOMAIN notes) /\ vec \in {NULL, nextUid}
        BY <1>1, <2>2, <2>3
      <4> HIDE DEF vec
      <4> QED
        BY <4>1, InsertedKeeps, ZenonT(60)
    <3> QED
      BY <2>3, <3>1
  <2>6. KeepsRows(inserted, notes')
    <3>1. notes' = Superseded(inserted, n, id)
      BY <2>2
    <3> HIDE DEF inserted
    <3> QED
      BY <2>3, <2>4, <2>5, <3>1, SupersededRows
  <2> HIDE DEF inserted, vec
  <2> QED
    BY <2>5, <2>6, KeepsTransitive DEF KeepsTexts, KeepsRows, KeepsRow
<1>6. CASE (\E n \in NoteIds : HardForget(n)) \/ ApplyExpiry \/ ClearNotes
  <2>1. \/ \E S, T : notes' = Without(Unlinked(notes, S), T)
        \/ notes' = Without(notes, DOMAIN notes)
    BY <1>6 DEF HardForget, ApplyExpiry, ClearNotes
  <2>2. CASE \E S, T : notes' = Without(Unlinked(notes, S), T)
    BY <1>1, <2>2, PurgedKeeps DEF KeepsTexts, KeepsRows, KeepsRow
  <2>3. CASE notes' = Without(notes, DOMAIN notes)
    BY <2>3 DEF Without, KeepsTexts
  <2> QED
    BY <2>1, <2>2, <2>3
<1>7. CASE MergeCluster
  BY <1>7, ClustersKeepTexts
<1>8. CASE WriteEmbeddings \/ ResetEmbeddings
  <2>1. \A row \in Note : \A v : [row EXCEPT !.vec = v].uid = row.uid
    BY DEF Note
  <2>2. /\ DOMAIN notes' = DOMAIN notes
        /\ \A n \in DOMAIN notes : notes'[n] = notes[n] \/ \E v : notes'[n] = [notes[n] EXCEPT !.vec = v]
    BY <1>8 DEF WriteEmbeddings, ResetEmbeddings
  <2>3. \A n \in DOMAIN notes : notes'[n].uid = notes[n].uid
    <3>1. ASSUME NEW n \in DOMAIN notes, NEW v, notes'[n] = [notes[n] EXCEPT !.vec = v]
          PROVE  notes'[n].uid = notes[n].uid
      BY <1>1, <2>1, <3>1
    <3> QED
      BY <2>2, <3>1
  <2> QED
    BY <2>2, <2>3 DEF KeepsTexts
<1>9. CASE \E o \in OpIds : UndoOperation(o)
  <2>1. PICK o \in OpIds : UndoOperation(o)
    BY <1>9
  <2>2. RecsOK(ops[o].recs) /\ notes' = Undone(notes, ops[o].recs)
    BY <2>1 DEF UndoOperation, IInv, LogOK
  <2>3. DOMAIN notes' = DOMAIN notes /\ \A n \in DOMAIN notes : notes'[n].uid = notes[n].uid
    BY <1>1, <2>2, UndoneRows
  <2> QED
    BY <2>3 DEF KeepsTexts
<1>10. (\E kind \in Kinds : PlanMerge(kind)) \/ BeginOperation \/ FinishMerge \/ PlanReembed
         \/ PlanExpiry \/ AbortJob
       => notes' = notes
  BY DEF PlanMerge, BeginOperation, FinishMerge, PlanReembed, PlanExpiry, AbortJob
<1> QED
  BY <1>2, <1>3, <1>4, <1>5, <1>6, <1>7, <1>8, <1>9, <1>10
     DEF Next, FreeWrite, JobStep, LockedWrite
-----------------------------------------------------------------------------
(* Chains of replacements. *)

\* A set of naturals that is not empty has a smallest element.
LEMMA Smallest ==
  ASSUME NEW S \in SUBSET Nat, S # {}
  PROVE  \E m \in S : \A n \in S : m <= n
<1> DEFINE Less == {p \in Nat \X Nat : p[1] < p[2]}
<1>1. IsWellFoundedOn(Less, Nat)
  BY NatLessThanWellFounded DEF OpToRel
<1>2. PICK m \in S : \A n \in S : <<n, m>> \notin Less
  <2> HIDE DEF Less
  <2> QED
    BY <1>1, WFMin
<1>3. \A n \in S : ~(n < m)
  BY <1>2
<1> QED
  BY <1>3

\* One hop of _resolve_supersession, and k of them.
Hop(n) == IF notes[n].sb = NULL THEN n ELSE notes[n].sb

IsPath(f, n, k) == f = [i \in 0 .. k |-> IF i = 0 THEN n ELSE Hop(f[i - 1])]

LEMMA PathFacts ==
  ASSUME NEW f, NEW n, NEW k \in Nat, IsPath(f, n, k)
  PROVE  f[0] = n /\ \A i \in 1 .. k : f[i] = Hop(f[i - 1])
<1>1. f = [i \in 0 .. k |-> IF i = 0 THEN n ELSE Hop(f[i - 1])]
  BY DEF IsPath
<1>2. \A i \in 0 .. k : f[i] = IF i = 0 THEN n ELSE Hop(f[i - 1])
  BY <1>1, Zenon
<1> QED
  BY <1>2

\* What holds of the first node and is handed on by a hop holds of all.
LEMMA PathInduction ==
  ASSUME NEW f, NEW n, NEW k \in Nat, IsPath(f, n, k), NEW S, n \in S,
         \A x \in S : Hop(x) \in S
  PROVE  \A i \in 0 .. k : f[i] \in S
<1> SUFFICES ASSUME NEW j \in 0 .. k, f[j] \notin S PROVE FALSE
  OBVIOUS
<1> DEFINE Bad == {i \in 0 .. k : f[i] \notin S}
<1>1. PICK i \in Bad : \A l \in Bad : i <= l
  <2>1. Bad \in SUBSET Nat /\ Bad # {}
    OBVIOUS
  <2> QED
    BY <2>1, Smallest
<1>2. i # 0 /\ i - 1 \in 0 .. k /\ f[i] = Hop(f[i - 1])
  BY <1>1, PathFacts
<1>3. f[i - 1] \in S
  BY <1>1, <1>2
<1> QED
  BY <1>1, <1>2, <1>3

LEMMA PathExists ==
  ASSUME NEW n, NEW k \in Nat
  PROVE  \E f : IsPath(f, n, k)
<1> SUFFICES ASSUME ~\E f : IsPath(f, n, k) PROVE FALSE
  OBVIOUS
<1> DEFINE Bad == {i \in Nat : ~\E f : IsPath(f, n, i)}
<1>1. PICK i \in Bad : \A l \in Bad : i <= l
  <2>1. Bad \in SUBSET Nat /\ Bad # {}
    OBVIOUS
  <2> HIDE DEF Bad
  <2> QED
    BY <2>1, Smallest
<1>2. i # 0
  <2> DEFINE f == [j \in 0 .. 0 |-> n]
  <2>1. f = [j \in 0 .. 0 |-> IF j = 0 THEN n ELSE Hop(f[j - 1])]
    OBVIOUS
  <2>2. IsPath(f, n, 0)
    BY <2>1 DEF IsPath
  <2> QED
    BY <1>1, <2>2
<1>3. i - 1 \in Nat /\ i - 1 \notin Bad
  BY <1>1, <1>2
<1>4. PICK f : IsPath(f, n, i - 1)
  BY <1>3
<1> DEFINE g == [j \in 0 .. i |-> IF j = i THEN Hop(f[i - 1]) ELSE f[j]]
<1>5. \A j \in 0 .. i : g[j] = IF j = 0 THEN n ELSE Hop(g[j - 1])
  <2>1. f[0] = n /\ \A j \in 1 .. i - 1 : f[j] = Hop(f[j - 1])
    BY <1>3, <1>4, PathFacts
  <2>2. g[0] = n
    BY <1>1, <1>2, <2>1
  <2>3. g[i] = Hop(g[i - 1])
    BY <1>1, <1>2
  <2>4. ASSUME NEW j \in 1 .. i - 1 PROVE g[j] = Hop(g[j - 1])
    BY <1>1, <2>1
  <2> QED
    BY <1>1, <1>2, <2>2, <2>3, <2>4, SMTT(60)
<1>6. IsPath(g, n, i)
  <2>1. g = [j \in 0 .. i |-> g[j]]
    OBVIOUS
  <2> HIDE DEF g
  <2> QED
    BY <1>5, <2>1 DEF IsPath
<1> QED
  BY <1>1, <1>6

\* The nodes of two paths from the same note are the same.
LEMMA PathsAgree ==
  ASSUME NEW f, NEW g, NEW n, NEW k \in Nat, NEW l \in Nat, k <= l,
         IsPath(f, n, k), IsPath(g, n, l)
  PROVE  \A i \in 0 .. k : f[i] = g[i]
<1> SUFFICES ASSUME NEW j \in 0 .. k, f[j] # g[j] PROVE FALSE
  OBVIOUS
<1> DEFINE Bad == {i \in 0 .. k : f[i] # g[i]}
<1>1. PICK i \in Bad : \A m \in Bad : i <= m
  <2>1. Bad \in SUBSET Nat /\ Bad # {}
    OBVIOUS
  <2> QED
    BY <2>1, Smallest
<1>2. f[0] = n /\ \A m \in 1 .. k : f[m] = Hop(f[m - 1])
  BY PathFacts
<1>3. g[0] = n /\ \A m \in 1 .. l : g[m] = Hop(g[m - 1])
  BY PathFacts
<1>4. i # 0
  BY <1>1, <1>2, <1>3
<1>5. f[i - 1] = g[i - 1]
  BY <1>1, <1>4
<1> QED
  BY <1>1, <1>2, <1>3, <1>4, <1>5

\* _resolve_supersession follows the path for as many hops as it may.
LEMMA ResolvedIsOnPath ==
  ASSUME NEW n, NEW f, NEW k \in Nat, MaxHops <= k, IsPath(f, n, k)
  PROVE  Resolved(n) = f[MaxHops]
<1> DEFINE node == CHOOSE g : IsPath(g, n, MaxHops)
<1>1. MaxHops \in Nat
  BY RecallAssumption
<1>2. IsPath(node, n, MaxHops)
  BY <1>1, PathExists
<1>3. Resolved(n) = node[MaxHops]
  BY DEF Resolved, IsPath, Hop
<1> HIDE DEF node
<1>4. node[MaxHops] = f[MaxHops]
  BY <1>1, <1>2, PathsAgree
<1> QED
  BY <1>3, <1>4

LEMMA NotesAreFinite ==
  ASSUME IInv
  PROVE  DOMAIN notes \subseteq NoteIds /\ IsFiniteSet(NoteIds) /\ IsFiniteSet(DOMAIN notes)
<1>1. DOMAIN notes \subseteq NoteIds
  BY DEF IInv, TableOK
<1>2. IsFiniteSet(NoteIds)
  BY FS_Interval, BoundAssumption DEF NoteIds
<1> QED
  BY <1>1, <1>2, FS_Subset

LEMMA HopFacts ==
  ASSUME IInv, NEW n \in DOMAIN notes
  PROVE  /\ n \in NoteIds /\ Hop(n) \in DOMAIN notes /\ Hop(n) >= n
         /\ notes[n].status = "active" => Hop(n) = n
<1>1. notes[n] \in Note /\ RowOK(n, notes[n]) /\ n \in NoteIds
  BY DEF IInv, TableOK, RowOK
<1>2. notes[n].sb # NULL => notes[n].sb \in DOMAIN notes
  BY DEF IInv, ForeignKeysHold
<1> QED
  BY <1>1, <1>2 DEF Hop, RowOK, NoteIds, StatusOf

\* A path stays among what a note has been replaced by.
LEMMA PathInLine ==
  ASSUME IInv, NEW n \in DOMAIN notes, NEW f, NEW k \in Nat, IsPath(f, n, k)
  PROVE  \A i \in 0 .. k : f[i] \in Line(n)
<1>1. \A i \in 0 .. k : f[i] \in DOMAIN notes
  BY HopFacts, PathInduction
<1>2. ASSUME NEW S \in SUBSET DOMAIN notes, n \in S,
             \A x \in S : notes[x].sb # NULL => notes[x].sb \in S
      PROVE  \A i \in 0 .. k : f[i] \in S
  <2>1. \A x \in S : Hop(x) \in S
    BY <1>2 DEF Hop
  <2> QED
    BY <1>2, <2>1, PathInduction
<1> QED
  BY <1>1, <1>2 DEF Line

\* A path that has come to its end goes no further.
LEMMA PathStays ==
  ASSUME NEW f, NEW n, NEW k \in Nat, IsPath(f, n, k), NEW i \in 0 .. k, Hop(f[i]) = f[i]
  PROVE  \A j \in i .. k : f[j] = f[i]
<1> SUFFICES ASSUME NEW j \in i .. k, f[j] # f[i] PROVE FALSE
  OBVIOUS
<1> DEFINE Bad == {l \in i .. k : f[l] # f[i]}
<1>1. PICK l \in Bad : \A m \in Bad : l <= m
  <2>1. Bad \in SUBSET Nat /\ Bad # {}
    OBVIOUS
  <2> QED
    BY <2>1, Smallest
<1>2. l # i /\ f[l] = Hop(f[l - 1])
  BY <1>1, PathFacts
<1>3. f[l - 1] = f[i]
  BY <1>1, <1>2
<1> QED
  BY <1>1, <1>2, <1>3

\* At the end of a path are all that the note has been replaced by.
LEMMA LineOnPath ==
  ASSUME IInv, NEW n \in DOMAIN notes, NEW f, NEW k \in Nat, IsPath(f, n, k),
         Hop(f[k]) = f[k]
  PROVE  \A m \in Line(n) : \E i \in 0 .. k : m = f[i]
<1> DEFINE S == {f[i] : i \in 0 .. k}
<1>1. S \in SUBSET DOMAIN notes
  BY PathInLine DEF Line
<1>2. n \in S
  BY PathFacts
<1>3. ASSUME NEW x \in S, notes[x].sb # NULL PROVE notes[x].sb \in S
  <2>1. PICK i \in 0 .. k : x = f[i]
    OBVIOUS
  <2>2. notes[x].sb = Hop(f[i])
    BY <1>3, <2>1 DEF Hop
  <2>3. CASE i = k
    BY <2>2, <2>3
  <2>4. CASE i # k
    <3>1. i + 1 \in 1 .. k /\ f[i + 1] = Hop(f[(i + 1) - 1])
      BY <2>4, PathFacts
    <3> QED
      BY <2>2, <3>1
  <2> QED
    BY <2>3, <2>4
<1> HIDE DEF S
<1>4. \A m \in Line(n) : m \in S
  BY <1>1, <1>2, <1>3 DEF Line
<1> QED
  BY <1>4 DEF S

\* One that has not come to its end has passed as many notes as it has nodes.
LEMMA PathIsStrict ==
  ASSUME IInv, NEW n \in DOMAIN notes, NEW f, NEW k \in Nat, IsPath(f, n, k + 1),
         f[k + 1] # f[k]
  PROVE  Cardinality(Line(n)) > k + 1
<1>1. \A i \in 0 .. k + 1 : f[i] \in Line(n) /\ f[i] \in DOMAIN notes
  BY PathInLine DEF Line
<1>2. \A i \in 0 .. k + 1 : f[i] \in Nat
  BY <1>1, HopFacts DEF NoteIds
<1>3. \A i \in 0 .. k : f[i + 1] = Hop(f[i])
  <2>1. \A i \in 1 .. k + 1 : f[i] = Hop(f[i - 1])
    BY PathFacts
  <2> QED
    BY <2>1
<1>4. ASSUME NEW i \in 0 .. k PROVE f[i] < f[i + 1]
  <2>1. Hop(f[i]) # f[i]
    BY <1>3, PathStays
  <2> QED
    BY <1>1, <1>3, <2>1, HopFacts DEF NoteIds
<1>5. ASSUME NEW i \in 0 .. k + 1, NEW j \in 0 .. k + 1, i < j PROVE f[i] < f[j]
  <2> SUFFICES ASSUME ~(f[i] < f[j]) PROVE FALSE
    OBVIOUS
  <2> DEFINE Bad == {l \in i + 1 .. k + 1 : ~(f[i] < f[l])}
  <2>1. PICK l \in Bad : \A m \in Bad : l <= m
    <3>1. Bad \in SUBSET Nat /\ Bad # {}
      BY <1>5
    <3> QED
      BY <3>1, Smallest
  <2>2. l # i + 1
    BY <1>4, <2>1
  <2>3. f[i] < f[l - 1] /\ f[l - 1] < f[l]
    <3>1. l - 1 \in 0 .. k /\ (l - 1) + 1 = l
      BY <2>1, <2>2
    <3>2. f[l - 1] < f[l]
      BY <3>1, <1>4
    <3> QED
      BY <2>1, <2>2, <3>2
  <2>4. f[i] \in Nat /\ f[l - 1] \in Nat /\ f[l] \in Nat
    <3>1. l - 1 \in 0 .. k + 1 /\ l \in 0 .. k + 1
      BY <2>1
    <3> QED
      BY <1>2, <3>1
  <2> QED
    BY <2>1, <2>3, <2>4
<1>6. f \in Injection(0 .. k + 1, Line(n))
  <2>1. f \in [0 .. k + 1 -> Line(n)]
    BY <1>1 DEF IsPath
  <2>2. \A i, j \in 0 .. k + 1 : f[i] = f[j] => i = j
    BY <1>5, <1>2
  <2>3. IsInjective(f)
    BY <2>1, <2>2 DEF IsInjective
  <2> QED
    BY <2>1, <2>3 DEF Injection
<1>7. IsFiniteSet(Line(n))
  BY NotesAreFinite, FS_Subset DEF Line
<1>8. Cardinality(0 .. k + 1) <= Cardinality(Line(n))
  BY <1>6, <1>7, FS_Injection
<1>9. Cardinality(0 .. k + 1) = k + 2
  BY FS_Interval
<1> QED
  BY <1>7, <1>8, <1>9, FS_CardinalityType

\* A found note stands for one that it has been replaced by,
LEMMA ReplacementInLine ==
  ASSUME IInv, NEW n \in DOMAIN notes
  PROVE  Replacement(n) \in Line(n) /\ Replacement(n) \in DOMAIN notes
<1>1. MaxHops \in Nat
  BY RecallAssumption
<1>2. PICK f : IsPath(f, n, MaxHops)
  BY <1>1, PathExists
<1>3. Resolved(n) = f[MaxHops]
  BY <1>1, <1>2, ResolvedIsOnPath
<1>4. f[MaxHops] \in Line(n)
  BY <1>1, <1>2, PathInLine
<1> QED
  BY <1>3, <1>4 DEF Replacement, Line

\* for itself when it is current,
LEMMA ActiveStandsForItself ==
  ASSUME IInv, NEW n \in Active
  PROVE  Replacement(n) = n
<1>1. MaxHops \in Nat
  BY RecallAssumption
<1>2. PICK f : IsPath(f, n, MaxHops)
  BY <1>1, PathExists
<1>3. n \in DOMAIN notes /\ Hop(n) = n
  BY HopFacts DEF Active
<1>4. f[0] = n
  BY <1>1, <1>2, PathFacts
<1>5. f[MaxHops] = n
  BY <1>1, <1>2, <1>3, <1>4, PathStays
<1> QED
  BY <1>1, <1>2, <1>3, <1>5, ResolvedIsOnPath DEF Replacement

\* and for the one current note it has come to, unless there are too many between.
LEMMA ReplacementIsCurrent ==
  ASSUME IInv, NEW n \in DOMAIN notes, NEW m \in Line(n), m \in Active,
         Cardinality(Line(n)) <= MaxHops + 1
  PROVE  Replacement(n) = m
<1>1. MaxHops \in Nat /\ MaxHops + 1 \in Nat /\ MaxHops + 1 - 1 = MaxHops
  BY RecallAssumption
<1>2. PICK f : IsPath(f, n, MaxHops + 1)
  BY <1>1, PathExists
<1>3. Resolved(n) = f[MaxHops]
  BY <1>1, <1>2, ResolvedIsOnPath
<1>4. f[MaxHops + 1] = f[MaxHops]
  <2>1. IsFiniteSet(Line(n))
    BY NotesAreFinite, FS_Subset DEF Line
  <2>2. Cardinality(Line(n)) \in Nat
    BY <2>1, FS_CardinalityType
  <2> QED
    BY <1>1, <1>2, <2>2, PathIsStrict
<1>5. Hop(f[MaxHops]) = f[MaxHops] /\ Hop(f[MaxHops + 1]) = f[MaxHops + 1]
  <2>1. f[MaxHops + 1] = Hop(f[MaxHops])
    BY <1>1, <1>2, PathFacts
  <2> QED
    BY <1>4, <2>1
<1>6. PICK i \in 0 .. MaxHops + 1 : m = f[i]
  BY <1>1, <1>2, <1>5, LineOnPath
<1>7. Hop(m) = m
  BY HopFacts DEF Active
<1>8. \A j \in i .. MaxHops + 1 : f[j] = m
  BY <1>1, <1>2, <1>6, <1>7, PathStays
<1>9. f[MaxHops] = m
  BY <1>1, <1>4, <1>6, <1>8
<1> QED
  BY <1>3, <1>9 DEF Replacement
-----------------------------------------------------------------------------
(* What a call knows between its statements. *)

AnyQuery == [how : Hows, all : BOOLEAN, close : SUBSET Uids, says : SUBSET Uids]
Candidating == {"vectors", "text", "resolve", "hydrate", "recent"}
Answering == {"history", "links", "linked", "answered"}

\* The call's own state, stage by stage.
CallOK ==
  /\ limit \in Nat /\ IsFiniteSet(rows)
  /\ at \in {"idle", "waiting"} \cup Candidating \cup Answering
  /\ query \subseteq AnyQuery /\ \A p, q \in query : p = q
  /\ query = {} <=> at \in {"idle", "waiting"}
  /\ steady \subseteq Active /\ (query = {} => steady = {})
  /\ at \notin {"text", "resolve", "hydrate"} => hits = {}
  /\ at \notin {"text", "resolve", "hydrate", "recent"} => vecs = Blank
  /\ at \in {"idle", "waiting", "vectors", "text", "resolve", "recent"} => stale = {}
  /\ at \notin Answering => rows = {}
  /\ at \notin {"links", "linked", "answered"} => history = {}
  /\ \A q \in query :
       /\ at = "vectors" => UsesVector(q)
       /\ at = "text" => UsesText(q) /\ (UsesVector(q) \/ (hits = {} /\ vecs = Blank))
       /\ at = "resolve" => ~q.all
       /\ at = "recent" => q.how # "text"

\* What the call has found of the notes nobody has touched.
SteadyOK(q) ==
  /\ \A n \in steady \cap DOMAIN vecs : vecs[n] = notes[n].vec
  /\ at = "text" /\ UsesVector(q) =>
       \A n \in steady : notes[n].vec \in q.close => n \in hits
  /\ at \in {"resolve", "hydrate"} => steady \cap Matches(q) \subseteq hits
  /\ at = "recent" => steady \cap Matches(q) = {}
  /\ at \in Answering => \A n \in steady \cap Matches(q) : Answered(q, n)

\* What it knows of replaced notes, as long as no row has been deleted.
HistoryOK ==
  /\ \A p \in stale :
       /\ p[1] \in DOMAIN notes /\ p[2] \in DOMAIN notes
       /\ <<notes[p[1]].uid, notes[p[2]].uid>> \in ancestry
  /\ at = "history" => \A r \in rows : r.id \in DOMAIN notes /\ r.uid = notes[r.id].uid
  /\ history \subseteq ancestry

\* What the matching notes have come to be replaced by, and what of that is within
\* the hops.
Current(q) == (UNION {Line(n) : n \in Matches(q)}) \cap Active
WithinHops(q) ==
  {n \in Current(q) : \E m \in Matches(q) : n \in Line(m) /\ Cardinality(Line(m)) <= MaxHops + 1}

\* What it has found as long as nobody writes.
AloneOK(q) ==
  /\ \A n \in DOMAIN vecs : n \in DOMAIN notes /\ vecs[n] = notes[n].vec
  /\ at = "text" => hits = {n \in Living : UsesVector(q) /\ notes[n].vec \in q.close}
  /\ at = "resolve" => hits = Matches(q) /\ hits # {}
  /\ at = "hydrate" =>
       hits \cap Active \subseteq Current(q) /\ WithinHops(q) \subseteq hits /\ Matches(q) # {}
  /\ at = "recent" => Matches(q) = {}
  /\ at \in Answering => IsCurrentTruth(q)

CallInv ==
  /\ CallOK
  /\ \A q \in query : SteadyOK(q) /\ (alone /\ ~q.all => AloneOK(q))
  /\ ~freed => HistoryOK

\* Answered and IsCurrentTruth, of an answer T.
AnsweredBy(T, q, n) ==
  \/ \E r \in T : r.id = n
  \/ Cardinality(T) = limit
  \/ UsesVector(q) /\ \E r \in T : r.vec # NULL /\ <<notes[n].vec, r.vec>> \in Same

TruthOf(T, q) ==
  /\ \A n \in WithinHops(q) : AnsweredBy(T, q, n)
  /\ Matches(q) # {} \/ q.how = "text" => \A r \in T : r.id \in Current(q)
  /\ Matches(q) = {} /\ q.how # "text" =>
       Cardinality(T) = limit \/ {r.id : r \in T} = Active

LEMMA TruthIsThat ==
  ASSUME NEW q
  PROVE  /\ IsCurrentTruth(q) <=> TruthOf(rows, q)
         /\ \A n : Answered(q, n) <=> AnsweredBy(rows, q, n)
BY DEF IsCurrentTruth, TruthOf, Answered, AnsweredBy, Current, WithinHops

\* Without a write, what is said of the notes stays.
LEMMA SameNotes ==
  ASSUME UNCHANGED notes
  PROVE  /\ Active' = Active /\ Living' = Living
         /\ \A n : Line(n)' = Line(n)
         /\ \A q : Matches(q)' = Matches(q)
         /\ \A q : Current(q)' = Current(q)
         /\ \A q : WithinHops(q)' = WithinHops(q)
<1>1. Active' = Active /\ Living' = Living
  BY DEF Active, Living
<1>2. \A n : Line(n)' = Line(n)
  BY DEF Line
<1>3. \A q : Matches(q)' = Matches(q)
  BY <1>1 DEF Matches
<1>4. \A q : Current(q)' = Current(q)
  BY <1>1, <1>2, <1>3 DEF Current
<1>5. \A q : WithinHops(q)' = WithinHops(q)
  BY <1>2, <1>3, <1>4 DEF WithinHops
<1> QED
  BY <1>1, <1>2, <1>3, <1>4, <1>5

LEMMA SameTruth ==
  ASSUME UNCHANGED <<notes, limit>>, NEW q
  PROVE  /\ IsCurrentTruth(q)' <=> TruthOf(rows', q)
         /\ \A n : Answered(q, n)' <=> AnsweredBy(rows', q, n)
<1>1. IsCurrentTruth(q)' <=> TruthOf(rows, q)'
  BY TruthIsThat, PTL
<1> QED
  BY SameNotes, <1>1 DEF TruthOf, AnsweredBy, Answered

LEMMA MatchesFacts ==
  ASSUME NEW q \in AnyQuery, IInv
  PROVE  /\ Matches(q) = {n \in Living : UsesVector(q) /\ notes[n].vec \in q.close}
                           \cup {n \in Living : UsesText(q) /\ notes[n].uid \in q.says}
         /\ Active \subseteq Living /\ Living \subseteq DOMAIN notes
         /\ \A n \in Living : notes[n].vec \in q.close => notes[n].vec # NULL
<1>1. NULL \notin q.close
  BY DEF AnyQuery, Uids, NULL
<1> QED
  BY <1>1 DEF Matches, Active, Living

-----------------------------------------------------------------------------
(* Rows of an answer. *)

LEMMA HydratedFacts ==
  ASSUME IInv, NEW S, NEW q \in AnyQuery
  PROVE  /\ IsFiniteSet(Hydrated(S, q))
         /\ \A r \in Hydrated(S, q) :
              /\ r.id \in S /\ r.id \in Living /\ r = Row(r.id) /\ r.uid = notes[r.id].uid
              /\ ~q.all => r.id \in Active
         /\ \A n \in S \cap Active : Row(n) \in Hydrated(S, q) /\ Row(n).id = n
<1>1. \A n : Row(n).id = n /\ Row(n).uid = notes[n].uid
  BY DEF Row
<1>2. Active \subseteq Living /\ Living \subseteq NoteIds
  BY NotesAreFinite DEF Active, Living
<1>3. \A r \in Hydrated(S, q) :
        /\ r.id \in S /\ r.id \in Living /\ r = Row(r.id) /\ r.uid = notes[r.id].uid
        /\ ~q.all => r.id \in Active
  BY <1>1, <1>2 DEF Hydrated
<1>4. \A n \in S \cap Active : Row(n) \in Hydrated(S, q)
  BY <1>2 DEF Hydrated
<1>5. IsFiniteSet(Hydrated(S, q))
  <2> DEFINE R == Hydrated(S, q)
             f == [r \in R |-> r.id]
  <2>1. \A r \in R : r.id \in NoteIds /\ r = Row(r.id)
    BY <1>2, <1>3
  <2> HIDE DEF R
  <2>2. f \in [R -> NoteIds] /\ \A r, s \in R : f[r] = f[s] => r = s
    BY <2>1
  <2>3. f \in Injection(R, NoteIds)
    BY <2>2 DEF Injection, IsInjective
  <2> HIDE DEF f
  <2>4. IsFiniteSet(R)
    BY <2>3, NotesAreFinite, FS_Injection
  <2> QED
    BY <2>4 DEF R
<1> QED
  BY <1>1, <1>3, <1>4, <1>5

\* What a LIMIT keeps.
LEMMA CutFacts ==
  ASSUME NEW S, IsFiniteSet(S), NEW T \in Cut(S)
  PROVE  T \subseteq S /\ IsFiniteSet(T) /\ (T = S \/ Cardinality(T) = limit)
BY FS_Subset DEF Cut

\* What the walk along the rows keeps: nothing is dropped but for want of room or
\* beside a row of the same meaning.
LEMMA DistinctFacts ==
  ASSUME limit \in Nat, NEW S, IsFiniteSet(S), NEW T \in Distinct(S)
  PROVE  /\ T \subseteq S /\ IsFiniteSet(T)
         /\ \A r \in S : r \in T \/ Cardinality(T) = limit \/ \E s \in T : Alike(r, s)
<1>1. /\ T \subseteq S /\ Cardinality(T) <= limit
      /\ Cardinality(T) < limit => \A r \in S \ T : \E s \in T : Alike(r, s)
  BY DEF Distinct
<1>2. IsFiniteSet(T) /\ Cardinality(T) \in Nat
  BY <1>1, FS_Subset, FS_CardinalityType
<1> QED
  BY <1>1, <1>2

\* What hydration does to the ids found: a current note among them is answered.
LEMMA HydratedAnswers ==
  ASSUME IInv, limit \in Nat, NEW S, NEW q \in AnyQuery,
         NEW T \in IF UsesVector(q) THEN Distinct(Hydrated(S, q)) ELSE Cut(Hydrated(S, q))
  PROVE  /\ IsFiniteSet(T)
         /\ \A r \in T : /\ r.id \in S /\ r.id \in DOMAIN notes /\ r.uid = notes[r.id].uid
                         /\ ~q.all => r.id \in Active
         /\ \A n \in S \cap Active :
              (n \in DOMAIN vecs => vecs[n] = notes[n].vec) => AnsweredBy(T, q, n)
<1> DEFINE R == Hydrated(S, q)
<1>1. /\ IsFiniteSet(R)
      /\ \A r \in R :
           /\ r.id \in S /\ r.id \in Living /\ r = Row(r.id) /\ r.uid = notes[r.id].uid
           /\ ~q.all => r.id \in Active
      /\ \A n \in S \cap Active : Row(n) \in R /\ Row(n).id = n
  BY HydratedFacts
<1>2. T \in IF UsesVector(q) THEN Distinct(R) ELSE Cut(R)
  OBVIOUS
<1> HIDE DEF R
<1>3. /\ T \subseteq R /\ IsFiniteSet(T)
      /\ \A r \in R : \/ r \in T \/ Cardinality(T) = limit
                      \/ UsesVector(q) /\ \E s \in T : Alike(r, s)
  <2>1. CASE UsesVector(q)
    <3>1. T \in Distinct(R)
      BY <1>2, <2>1
    <3> QED
      BY <1>1, <2>1, <3>1, DistinctFacts
  <2>2. CASE ~UsesVector(q)
    <3>1. T \in Cut(R)
      BY <1>2, <2>2
    <3> QED
      BY <1>1, <3>1, CutFacts
  <2> QED
    BY <2>1, <2>2
<1>4. ASSUME NEW n \in S \cap Active, n \in DOMAIN vecs => vecs[n] = notes[n].vec
      PROVE  AnsweredBy(T, q, n)
  <2>1. Row(n) \in R /\ Row(n).id = n
    BY <1>1
  <2>2. ASSUME NEW s \in T, Alike(Row(n), s)
        PROVE  s.vec # NULL /\ <<notes[n].vec, s.vec>> \in Same
    BY <1>4, <2>2 DEF Alike, Row
  <2> QED
    BY <1>3, <2>1, <2>2 DEF AnsweredBy
<1>5. Living \subseteq DOMAIN notes
  BY DEF Living
<1> QED
  BY <1>1, <1>3, <1>4, <1>5

-----------------------------------------------------------------------------
(* Each statement keeps what the call knows. *)

\* A step of the call that writes nothing.
Looks ==
  /\ UNCHANGED vars /\ UNCHANGED <<query, limit, alone, freed, steady>>
  /\ ancestry' = IF at = "resolve" THEN Ancestry ELSE ancestry

LEMMA TheQuery ==
  ASSUME CallOK, NEW q \in query, query' = query
  PROVE  /\ query = {q} /\ q \in AnyQuery /\ \A p \in query' : p = q
         /\ q.how \in Hows /\ q.all \in BOOLEAN
         /\ UsesVector(q) \in BOOLEAN /\ UsesText(q) \in BOOLEAN
         /\ UsesVector(q) /\ ~UsesText(q) <=> q.how = "vector"
         /\ UsesText(q) /\ ~UsesVector(q) <=> q.how = "text"
BY DEF CallOK, AnyQuery, UsesVector, UsesText, Hows

LEMMA BeginsFacts ==
  ASSUME NEW q \in AnyQuery
  PROVE  /\ Begins(q) \in {"vectors", "text", "recent"}
         /\ Begins(q) = "vectors" => UsesVector(q)
         /\ Begins(q) = "text" => UsesText(q) /\ ~UsesVector(q)
         /\ Begins(q) = "recent" => ~UsesText(q) /\ ~UsesVector(q) /\ q.how # "text"
<1>1. CASE UsesVector(q)
  <2>1. q.how # "text"
    BY <1>1 DEF UsesVector
  <2>2. Begins(q) = "vectors"
    BY <1>1, <2>1, Zenon DEF Begins
  <2> QED
    BY <1>1, <2>2
<1>2. CASE ~UsesVector(q) /\ q.how = "text"
  <2>1. Begins(q) = "text"
    BY <1>2, Zenon DEF Begins
  <2> QED
    BY <1>2, <2>1 DEF UsesText
<1>3. CASE ~UsesVector(q) /\ q.how # "text"
  <2>1. q.how # "hybrid"
    BY <1>3 DEF UsesVector
  <2>2. ~UsesText(q)
    BY <1>3, <2>1 DEF UsesText
  <2>3. Begins(q) = "recent"
    BY <1>3, Zenon DEF Begins
  <2> QED
    BY <1>3, <2>2, <2>3
<1> QED
  BY <1>1, <1>2, <1>3, Zenon

LEMMA AfterHitsFacts ==
  ASSUME NEW q, NEW found
  PROVE  /\ found # {} /\ q.all => AfterHits(q, found) = "hydrate"
         /\ found # {} /\ ~q.all => AfterHits(q, found) = "resolve"
         /\ found = {} /\ UsesVector(q) => AfterHits(q, found) = "recent"
         /\ found = {} /\ ~UsesVector(q) => AfterHits(q, found) = "answered"
<1>1. CASE found # {}
  BY <1>1, Zenon DEF AfterHits
<1>2. CASE found = {} /\ UsesVector(q)
  BY <1>2, Zenon DEF AfterHits
<1>3. CASE found = {} /\ ~UsesVector(q)
  BY <1>3, Zenon DEF AfterHits
<1> QED
  BY <1>1, <1>2, <1>3, Zenon

\* A call begins with nothing in hand.
LEMMA BeginsOK ==
  ASSUME IInv, CallInv, query = {}, NEW q \in AnyQuery, query' = {q}, at' = Begins(q),
         limit' \in Nat, UNCHANGED <<vars, vecs, hits, stale, answer>>, steady' = Active
  PROVE  CallInv'
<1>1. /\ hits' = {} /\ vecs' = Blank /\ stale' = {} /\ rows' = {} /\ history' = {}
      /\ IsFiniteSet(rows')
  BY DEF CallInv, CallOK, Candidating, Answering, answer
<1>2. UNCHANGED notes /\ Active' = Active /\ Living' = Living /\ \A p : Matches(p)' = Matches(p)
  <2>1. UNCHANGED notes
    BY DEF vars
  <2> QED
    BY <2>1, SameNotes
<1>3. /\ at' \in {"vectors", "text", "recent"}
      /\ at' = "vectors" => UsesVector(q)
      /\ at' = "text" => UsesText(q) /\ ~UsesVector(q)
      /\ at' = "recent" => q.how # "text" /\ ~UsesText(q) /\ ~UsesVector(q)
  BY BeginsFacts
<1>4. CallOK'
  BY <1>1, <1>2, <1>3 DEF CallOK, Candidating, Answering
<1>5. at' = "recent" => Matches(q) = {}
  BY <1>3 DEF Matches
<1>6. SteadyOK(q)'
  BY <1>1, <1>2, <1>3, <1>5 DEF SteadyOK, Answering, Blank
<1>7. AloneOK(q)'
  BY <1>1, <1>2, <1>3, <1>5 DEF AloneOK, Answering, Blank
<1>8. HistoryOK'
  BY <1>1, <1>3 DEF HistoryOK
<1> QED
  BY <1>4, <1>6, <1>7, <1>8 DEF CallInv

\* And ends with nothing.
LEMMA EndsOK ==
  ASSUME CallInv, at' \in {"idle", "waiting"}, query' = {}, limit' \in Nat, vecs' = Blank,
         hits' = {}, stale' = {}, rows' = {}, history' = {}, steady' = {}
  PROVE  CallInv'
<1>1. IsFiniteSet(rows')
  BY FS_EmptySet
<1>2. CallOK'
  BY <1>1 DEF CallOK, Candidating, Answering
<1>3. HistoryOK'
  BY DEF HistoryOK
<1> QED
  BY <1>2, <1>3 DEF CallInv

\* What a statement of the call starts from and may rely on.
LEMMA LookFacts ==
  ASSUME IInv, CallInv, Looks, NEW q \in query
  PROVE  /\ UNCHANGED <<notes, limit, query, alone, freed, steady>>
         /\ query = {q} /\ q \in AnyQuery /\ limit \in Nat
         /\ CallOK /\ SteadyOK(q) /\ (alone /\ ~q.all => AloneOK(q)) /\ (~freed => HistoryOK)
         /\ steady \subseteq Active /\ Active \subseteq Living /\ Living \subseteq DOMAIN notes
         /\ Active' = Active /\ Matches(q)' = Matches(q)
         /\ Current(q)' = Current(q) /\ WithinHops(q)' = WithinHops(q)
<1>1. CallOK
  BY DEF CallInv
<1>2. UNCHANGED <<notes, limit, query, alone, freed, steady>>
  BY DEF Looks, vars
<1>3. query = {q} /\ q \in AnyQuery
  BY <1>1 DEF CallOK
<1>4. limit \in Nat /\ steady \subseteq Active /\ Active \subseteq Living
        /\ Living \subseteq DOMAIN notes
  BY <1>1 DEF CallOK, Active, Living
<1>5. /\ Active' = Active /\ Matches(q)' = Matches(q)
      /\ Current(q)' = Current(q) /\ WithinHops(q)' = WithinHops(q)
  BY <1>2, SameNotes
<1> QED
  BY <1>1, <1>2, <1>3, <1>4, <1>5 DEF CallInv

\* It is enough to look at the one query there is.
LEMMA LooksOK ==
  ASSUME IInv, CallInv, Looks, NEW q \in query,
         CallOK', SteadyOK(q)', alone /\ ~q.all => AloneOK(q)', ~freed => HistoryOK'
  PROVE  CallInv'
BY LookFacts DEF CallInv

LEMMA ReadVectorsOK ==
  ASSUME IInv, CallInv, Looks, NEW q \in query, ReadVectors(q)
  PROVE  CallInv'
<1> DEFINE close == {n \in Living : UsesVector(q) /\ notes[n].vec \in q.close}
<1>1. /\ UsesVector(q) /\ q.how # "text" /\ stale' = {} /\ rows' = {} /\ history' = {}
      /\ IsFiniteSet(rows')
  BY LookFacts DEF ReadVectors, CallOK, Answering, answer, UsesVector
<1>2. vecs' = [n \in {m \in Living : notes[m].vec # NULL} |-> notes[n].vec]
  BY DEF ReadVectors
<1>3. hits' = close
  BY <1>1, <1>2, LookFacts, MatchesFacts DEF ReadVectors
<1>4. /\ \/ at' = "text" /\ UsesText(q)
         \/ at' = "resolve" /\ ~q.all /\ hits' # {} /\ ~UsesText(q)
         \/ at' = "hydrate" /\ q.all /\ hits' # {} /\ ~UsesText(q)
         \/ at' = "recent" /\ hits' = {} /\ ~UsesText(q)
  BY <1>1, AfterHitsFacts DEF ReadVectors
<1>5. at' # "text" => Matches(q) = hits'
  BY <1>3, <1>4, LookFacts, MatchesFacts
<1> HIDE DEF close
<1>6. CallOK'
  BY <1>1, <1>4, LookFacts DEF CallOK, Candidating, Answering
<1>7. SteadyOK(q)'
  BY <1>1, <1>2, <1>3, <1>4, <1>5, LookFacts DEF SteadyOK, Answering, close
<1>8. AloneOK(q)' \/ q.all
  BY <1>1, <1>2, <1>3, <1>4, <1>5, LookFacts DEF AloneOK, Answering, close, Living
<1>9. HistoryOK'
  BY <1>1, <1>4 DEF HistoryOK
<1> QED
  BY <1>6, <1>7, <1>8, <1>9, LooksOK

\* The answer to nothing found.
LEMMA NothingIsTruth ==
  ASSUME NEW q, Matches(q) = {}, q.how = "text"
  PROVE  TruthOf({}, q)
BY DEF TruthOf, WithinHops, Current

LEMMA MatchTextOK ==
  ASSUME IInv, CallInv, Looks, NEW q \in query, MatchText(q)
  PROVE  CallInv'
<1> DEFINE says == {n \in Living : UsesText(q) /\ notes[n].uid \in q.says}
<1>1. /\ UsesText(q) /\ stale' = {} /\ rows' = {} /\ history' = {} /\ IsFiniteSet(rows')
      /\ ~UsesVector(q) => q.how = "text" /\ hits = {} /\ vecs' = Blank
      /\ UsesVector(q) => q.how # "text"
  BY LookFacts DEF MatchText, CallOK, Answering, answer, UsesVector, UsesText
<1>2. hits' = hits \cup says /\ vecs' = vecs
  BY <1>1 DEF MatchText, Fused
<1>3. /\ \/ at' = "resolve" /\ ~q.all /\ hits' # {}
         \/ at' = "hydrate" /\ q.all /\ hits' # {}
         \/ at' = "recent" /\ UsesVector(q) /\ hits' = {}
         \/ at' = "answered" /\ ~UsesVector(q) /\ hits' = {}
  BY AfterHitsFacts DEF MatchText
<1>4. alone /\ ~q.all => Matches(q) = hits'
  BY <1>2, LookFacts, MatchesFacts DEF AloneOK, MatchText
<1>5. steady \cap Matches(q) \subseteq hits'
  BY <1>2, LookFacts, MatchesFacts DEF SteadyOK, MatchText
<1> HIDE DEF says
<1>6. CallOK'
  BY <1>1, <1>3, LookFacts DEF CallOK, Candidating, Answering
<1>7. SteadyOK(q)'
  BY <1>1, <1>2, <1>3, <1>5, LookFacts DEF SteadyOK, Answering
<1>8. ASSUME alone, ~q.all PROVE AloneOK(q)'
  <2>1. at' = "answered" => IsCurrentTruth(q)'
    BY <1>1, <1>3, <1>4, <1>8, LookFacts, NothingIsTruth, SameTruth
  <2> QED
    BY <1>1, <1>2, <1>3, <1>4, <1>8, <2>1, LookFacts DEF AloneOK, Answering
<1>9. HistoryOK'
  BY <1>1, <1>3 DEF HistoryOK
<1> QED
  BY <1>6, <1>7, <1>8, <1>9, LooksOK

LEMMA AfterRowsFacts ==
  ASSUME NEW T
  PROVE  AfterRows(T) \in Answering /\ AfterRows(T) # "linked"
         /\ (AfterRows(T) = "history" => stale # {})
BY DEF AfterRows, Answering, StaleOf

LEMMA MatchRowsOK ==
  ASSUME IInv, CallInv, Looks, NEW q \in query, MatchRows(q)
  PROVE  CallInv'
<1> DEFINE found == {r \in Hydrated(DOMAIN notes, q) : r.uid \in q.says}
<1>1. /\ stale' = {} /\ stale = {} /\ history' = {} /\ ~UsesVector(q) /\ q.all
      /\ hits' = {} /\ vecs' = Blank
  BY LookFacts DEF MatchRows, CallOK, UsesVector
<1>2. at' \in Answering /\ at' # "history"
  BY <1>1, AfterRowsFacts DEF MatchRows
<1>3. IsFiniteSet(found)
  BY LookFacts, HydratedFacts, FS_Subset
<1>4. rows' \in Cut(found)
  BY DEF MatchRows
<1>5. \A n \in steady \cap Matches(q) : \E r \in found : r.id = n
  BY <1>1, LookFacts, HydratedFacts DEF Matches, Living
<1> HIDE DEF found
<1>6. IsFiniteSet(rows') /\ (rows' = found \/ Cardinality(rows') = limit)
  BY <1>3, <1>4, CutFacts
<1>7. CallOK'
  BY <1>1, <1>2, <1>6, LookFacts DEF CallOK, Candidating, Answering
<1>8. \A n \in steady \cap Matches(q) : Answered(q, n)'
  BY <1>5, <1>6, LookFacts, SameTruth DEF AnsweredBy
<1>9. SteadyOK(q)'
  BY <1>1, <1>2, <1>8, LookFacts DEF SteadyOK, Answering, Blank
<1>10. HistoryOK'
  BY <1>1, <1>2 DEF HistoryOK
<1> QED
  BY <1>1, <1>7, <1>9, <1>10, LooksOK

LEMMA ResolveOK ==
  ASSUME IInv, CallInv, Looks, NEW q \in query, Resolve(q)
  PROVE  CallInv'
<1>1. /\ rows' = {} /\ history' = {} /\ IsFiniteSet(rows') /\ at' = "hydrate" /\ vecs' = vecs
      /\ at = "resolve" /\ ~q.all
  BY LookFacts DEF Resolve, CallOK, Answering, answer
<1>2. hits' = {Replacement(n) : n \in hits}
  BY DEF Resolve
<1>3. CallOK'
  BY <1>1, LookFacts DEF CallOK, Candidating, Answering
<1>4. \A n \in hits \cap Active : n \in hits'
  BY <1>2, ActiveStandsForItself
<1>5. SteadyOK(q)'
  BY <1>1, <1>4, LookFacts DEF SteadyOK, Answering
<1>6. ASSUME alone, ~q.all PROVE AloneOK(q)'
  <2>1. hits = Matches(q) /\ hits # {}
    BY <1>1, <1>6, LookFacts DEF AloneOK
  <2>2. hits' \cap Active \subseteq Current(q)
    BY <1>2, <2>1, ReplacementInLine DEF Current, Matches, Living
  <2>3. ASSUME NEW n \in WithinHops(q) PROVE n \in hits'
    <3>1. PICK m \in Matches(q) : n \in Line(m) /\ Cardinality(Line(m)) <= MaxHops + 1
      BY DEF WithinHops
    <3>2. n \in Active /\ m \in DOMAIN notes
      BY DEF WithinHops, Current, Matches, Living
    <3>3. Replacement(m) = n
      BY <3>1, <3>2, ReplacementIsCurrent
    <3> QED
      BY <1>2, <2>1, <3>3
  <2>4. \A n \in DOMAIN vecs' : n \in DOMAIN notes' /\ vecs'[n] = notes'[n].vec
    BY <1>1, <1>6, LookFacts DEF AloneOK
  <2>5. /\ hits' \cap Active' \subseteq Current(q)' /\ WithinHops(q)' \subseteq hits'
        /\ Matches(q)' # {}
    BY <2>1, <2>2, <2>3, LookFacts
  <2> QED
    BY <1>1, <2>4, <2>5 DEF AloneOK, Answering
<1>7. HistoryOK'
  <2>1. ASSUME NEW n \in hits, Replacement(n) # n
        PROVE  /\ n \in DOMAIN notes /\ Replacement(n) \in DOMAIN notes
               /\ <<notes[n].uid, notes[Replacement(n)].uid>> \in ancestry'
    <3>1. n \in DOMAIN notes
      BY <2>1 DEF Replacement
    <3>2. Replacement(n) \in Line(n) \ {n} /\ Replacement(n) \in DOMAIN notes
      BY <2>1, <3>1, ReplacementInLine
    <3>3. ancestry' = Ancestry
      BY <1>1 DEF Looks
    <3> QED
      BY <3>1, <3>2, <3>3 DEF Ancestry
  <2>2. \A p \in stale' : \E n \in hits : Replacement(n) # n /\ p = <<n, Replacement(n)>>
    BY DEF Resolve
  <2>3. UNCHANGED notes
    BY LookFacts
  <2> QED
    BY <1>1, <2>1, <2>2, <2>3 DEF HistoryOK
<1> QED
  BY <1>3, <1>5, <1>6, <1>7, LooksOK

LEMMA HydrateOK ==
  ASSUME IInv, CallInv, Looks, NEW q \in query, Hydrate(q)
  PROVE  CallInv'
<1>1. /\ at = "hydrate" /\ vecs' = Blank /\ hits' = {} /\ stale' = stale /\ history' = {}
      /\ history = {}
      /\ rows' \in IF UsesVector(q) THEN Distinct(Hydrated(hits, q)) ELSE Cut(Hydrated(hits, q))
  BY LookFacts DEF Hydrate, CallOK
<1>2. at' \in Answering
  BY AfterRowsFacts DEF Hydrate
<1>3. /\ IsFiniteSet(rows')
      /\ \A r \in rows' : /\ r.id \in hits /\ r.id \in DOMAIN notes /\ r.uid = notes[r.id].uid
                          /\ ~q.all => r.id \in Active
      /\ \A n \in hits \cap Active :
           (n \in DOMAIN vecs => vecs[n] = notes[n].vec) => AnsweredBy(rows', q, n)
  BY <1>1, LookFacts, HydratedAnswers
<1>4. CallOK'
  BY <1>1, <1>2, <1>3, LookFacts DEF CallOK, Candidating, Answering
<1>5. \A n \in steady \cap Matches(q) : Answered(q, n)'
  BY <1>1, <1>3, LookFacts, SameTruth DEF SteadyOK
<1>6. SteadyOK(q)'
  BY <1>1, <1>2, <1>5, LookFacts DEF SteadyOK, Answering, Blank
<1>7. ASSUME alone, ~q.all PROVE AloneOK(q)'
  <2>1. /\ hits \cap Active \subseteq Current(q) /\ WithinHops(q) \subseteq hits
        /\ Matches(q) # {} /\ \A n \in DOMAIN vecs : vecs[n] = notes[n].vec
    BY <1>1, <1>7, LookFacts DEF AloneOK
  <2>2. WithinHops(q) \subseteq Active
    BY DEF WithinHops, Current
  <2>3. TruthOf(rows', q)
    BY <1>3, <1>7, <2>1, <2>2 DEF TruthOf
  <2>4. IsCurrentTruth(q)'
    BY <2>3, LookFacts, SameTruth
  <2> QED
    BY <1>1, <1>2, <2>4 DEF AloneOK, Answering, Blank
<1>8. ~freed => HistoryOK'
  <2>1. UNCHANGED <<notes, ancestry>>
    BY <1>1, LookFacts DEF Looks
  <2> QED
    BY <1>1, <1>3, <2>1, LookFacts DEF HistoryOK
<1> QED
  BY <1>4, <1>6, <1>7, <1>8, LooksOK

LEMMA RecentOK ==
  ASSUME IInv, CallInv, Looks, NEW q \in query, Recent(q)
  PROVE  CallInv'
<1> DEFINE found == Hydrated(DOMAIN notes, q)
<1>1. /\ at = "recent" /\ vecs' = Blank /\ hits' = {} /\ stale' = {} /\ stale = {}
      /\ history' = {} /\ rows' \in Cut(found) /\ q.how # "text"
  BY LookFacts DEF Recent, CallOK
<1>2. at' \in Answering /\ at' # "history"
  BY <1>1, AfterRowsFacts DEF Recent
<1>3. /\ IsFiniteSet(found)
      /\ ~q.all => {r.id : r \in found} = Active
  BY LookFacts, HydratedFacts
<1> HIDE DEF found
<1>4. IsFiniteSet(rows') /\ (rows' = found \/ Cardinality(rows') = limit)
  BY <1>1, <1>3, CutFacts
<1>5. CallOK'
  BY <1>1, <1>2, <1>4, LookFacts DEF CallOK, Candidating, Answering
<1>6. SteadyOK(q)'
  BY <1>1, <1>2, LookFacts DEF SteadyOK, Answering, Blank
<1>7. ASSUME alone, ~q.all PROVE AloneOK(q)'
  <2>1. Matches(q) = {}
    BY <1>1, <1>7, LookFacts DEF AloneOK
  <2>2. TruthOf(rows', q)
    BY <1>1, <1>3, <1>4, <1>7, <2>1 DEF TruthOf, WithinHops, Current
  <2>3. IsCurrentTruth(q)'
    BY <2>2, LookFacts, SameTruth
  <2> QED
    BY <1>1, <1>2, <2>3 DEF AloneOK, Answering, Blank
<1>8. HistoryOK'
  BY <1>1, <1>2 DEF HistoryOK
<1> QED
  BY <1>5, <1>6, <1>7, <1>8, LooksOK

\* Once there is an answer, a statement that leaves its notes alone keeps it.
LEMMA GoesOnOK ==
  ASSUME IInv, CallInv, Looks, NEW q \in query, at \in Answering,
         at' \in {"links", "linked", "answered"},
         UNCHANGED <<vecs, hits, rows>>, ~freed => history' \subseteq ancestry,
         stale' \subseteq stale
  PROVE  CallInv'
<1>1. vecs' = Blank /\ hits' = {} /\ IsFiniteSet(rows') /\ ancestry' = ancestry /\ at' \in Answering
  BY LookFacts DEF CallOK, Answering, Looks
<1>2. CallOK'
  BY <1>1, LookFacts DEF CallOK, Candidating, Answering
<1>3. SteadyOK(q)'
  <2>1. \A n \in steady \cap Matches(q) : Answered(q, n)'
    BY LookFacts, TruthIsThat, SameTruth DEF SteadyOK
  <2> QED
    BY <1>1, <2>1, LookFacts DEF SteadyOK, Answering, Blank
<1>4. ASSUME alone, ~q.all PROVE AloneOK(q)'
  <2>1. IsCurrentTruth(q)'
    BY <1>4, LookFacts, TruthIsThat, SameTruth DEF AloneOK
  <2> QED
    BY <1>1, <2>1 DEF AloneOK, Answering, Blank
<1>5. ~freed => HistoryOK'
  BY <1>1, LookFacts DEF HistoryOK
<1> QED
  BY <1>2, <1>3, <1>4, <1>5, LooksOK

LEMMA ReadHistoryOK ==
  ASSUME IInv, CallInv, Looks, NEW q \in query, ReadHistory
  PROVE  CallInv'
<1>1. /\ at = "history" /\ at' \in {"links", "answered"} /\ stale' = {}
      /\ UNCHANGED <<vecs, hits, rows>>
      /\ history' = UNION {{<<notes[n].uid, r.uid>> : n \in StaleOf(r) \cap DOMAIN notes} :
                             r \in rows}
  BY DEF ReadHistory
<1>2. ASSUME ~freed PROVE history' \subseteq ancestry
  <2> SUFFICES ASSUME NEW r \in rows, NEW n \in StaleOf(r)
               PROVE  <<notes[n].uid, r.uid>> \in ancestry
    BY <1>1
  <2>1. PICK p \in stale : p[1] = n /\ p[2] = r.id
    BY DEF StaleOf
  <2> QED
    BY <1>1, <1>2, <2>1, LookFacts DEF HistoryOK
<1> QED
  BY <1>1, <1>2, GoesOnOK DEF Answering

LEMMA LinksOK ==
  ASSUME IInv, CallInv, Looks, NEW q \in query, FollowLinks \/ ReadLinked \/ Fill(q)
  PROVE  CallInv'
<1>1. /\ at \in Answering /\ at' \in {"linked", "answered"}
      /\ UNCHANGED <<vecs, hits, rows, history, stale>>
  BY DEF FollowLinks, ReadLinked, Fill, Answering
<1>2. ~freed => history' \subseteq ancestry
  BY <1>1, LookFacts DEF HistoryOK
<1> QED
  BY <1>1, <1>2, GoesOnOK

LEMMA ReadOK ==
  ASSUME IInv, CallInv, Looks, Read
  PROVE  CallInv'
<1>1. PICK q : q \in query
  <2>1. query # {}
    BY DEF Read, ReadHistory, FollowLinks, ReadLinked, CallInv, CallOK
  <2> QED
    BY <2>1
<1>2. CASE \E p \in query : \/ ReadVectors(p) \/ MatchText(p) \/ MatchRows(p) \/ Resolve(p)
                            \/ Hydrate(p) \/ Recent(p)
  BY <1>2, ReadVectorsOK, MatchTextOK, MatchRowsOK, ResolveOK, HydrateOK, RecentOK
<1>3. CASE ReadHistory
  BY <1>1, <1>3, ReadHistoryOK
<1>4. CASE FollowLinks \/ ReadLinked
  BY <1>1, <1>4, LinksOK
<1> QED
  BY <1>2, <1>3, <1>4 DEF Read

LEMMA ReadingOK ==
  ASSUME IInv, CallInv, Reading
  PROVE  CallInv'
<1>1. UNCHANGED vars
  BY DEF Reading
<1>2. CASE \E q \in Queries : Ask(q) /\ steady' = Active
  <2>1. PICK q \in Queries : Ask(q) /\ steady' = Active
    BY <1>2
  <2>2. q \in AnyQuery /\ K \in Nat
    BY RecallAssumption DEF AnyQuery
  <2>3. query = {}
    BY <2>1 DEF Ask, CallInv, CallOK
  <2> QED
    BY <1>1, <2>1, <2>2, <2>3, BeginsOK DEF Ask
<1>3. CASE /\ Read /\ ancestry' = IF at = "resolve" THEN Ancestry ELSE ancestry
           /\ UNCHANGED <<alone, freed, steady>>
  <2>1. UNCHANGED <<query, limit>>
    BY <1>3 DEF Read, ReadVectors, MatchText, MatchRows, Resolve, Hydrate, Recent,
                ReadHistory, FollowLinks, ReadLinked
  <2>2. Looks
    BY <1>1, <1>3, <2>1 DEF Looks
  <2> QED
    BY <1>3, <2>2, ReadOK
<1>4. CASE Return /\ steady' = {}
  BY <1>4, EndsOK DEF Return, CallInv, CallOK
<1> QED
  BY <1>2, <1>3, <1>4 DEF Reading

LEMMA FillingOK ==
  ASSUME IInv, CallInv, Filling
  PROVE  CallInv'
<1>1. PICK q \in query : Fill(q)
  BY DEF Filling
<1>2. Looks
  BY <1>1 DEF Looks, Filling, Fill, witnesses
<1> QED
  BY <1>1, <1>2, LinksOK

\* Nor does a writer take from the call what it knows.
LEMMA WritingOK ==
  ASSUME IInv, CallInv, Writing
  PROVE  CallInv'
<1>1. UNCHANGED <<query, at, limit, vecs, hits, stale, rows, history>> /\ Next
  BY DEF Writing, reader, answer
<1>2. CASE at = "idle"
  <2>1. query = {} /\ steady' = {} /\ stale' = {} /\ history' = {}
    BY <1>1, <1>2 DEF CallInv, CallOK, Writing, witnesses
  <2>2. CallOK'
    BY <1>1, <2>1 DEF CallInv, CallOK
  <2>3. HistoryOK'
    BY <1>1, <1>2, <2>1 DEF HistoryOK
  <2> QED
    BY <1>1, <2>1, <2>2, <2>3 DEF CallInv
<1>3. CASE at # "idle"
  <2>1. /\ alone' => alone /\ UNCHANGED notes
        /\ ~freed' => ~freed /\ DOMAIN notes \subseteq DOMAIN notes'
        /\ steady' = {n \in steady : n \in DOMAIN notes' /\ notes'[n] = notes[n]}
        /\ ancestry' = ancestry
    BY <1>3 DEF Writing
  <2>2. steady \subseteq Active /\ (query = {} => steady = {})
    BY DEF CallInv, CallOK
  <2>3. CallOK'
    <3>1. steady' \subseteq Active' /\ (query' = {} => steady' = {})
      BY <1>1, <2>1, <2>2 DEF Active
    <3> QED
      BY <1>1, <3>1 DEF CallInv, CallOK
  <2>4. ASSUME NEW q \in query PROVE SteadyOK(q)'
    <3>1. \A n \in steady' : n \in steady /\ n \in DOMAIN notes /\ notes'[n] = notes[n]
      BY <2>1, <2>2 DEF Active
    <3>2. \A n \in steady' \cap Matches(q)' : n \in steady \cap Matches(q)
      BY <3>1 DEF Matches, Living
    <3>3. \A n \in steady' : Answered(q, n) => Answered(q, n)'
      BY <1>1, <3>1 DEF Answered
    <3>4. SteadyOK(q)
      BY DEF CallInv
    <3> QED
      BY <1>1, <3>1, <3>2, <3>3, <3>4 DEF SteadyOK
  <2>5. ASSUME NEW q \in query, alone', ~q.all PROVE AloneOK(q)'
    <3>1. alone /\ UNCHANGED notes /\ AloneOK(q)
      BY <2>1, <2>5 DEF CallInv
    <3>2. IsCurrentTruth(q) => IsCurrentTruth(q)'
      BY <1>1, <3>1, TruthIsThat, SameTruth
    <3>3. /\ Active' = Active /\ Living' = Living /\ Matches(q)' = Matches(q)
          /\ Current(q)' = Current(q) /\ WithinHops(q)' = WithinHops(q)
      BY <3>1, SameNotes
    <3> QED
      BY <1>1, <3>1, <3>2, <3>3 DEF AloneOK
  <2>6. ASSUME ~freed' PROVE HistoryOK'
    <3>1. KeepsTexts(notes, notes')
      BY <1>1, <2>1, <2>6, WritersKeepTexts
    <3>2. HistoryOK
      BY <2>1, <2>6 DEF CallInv
    <3> QED
      BY <1>1, <2>1, <3>1, <3>2 DEF HistoryOK, KeepsTexts
  <2> QED
    BY <1>1, <2>3, <2>4, <2>5, <2>6 DEF CallInv
<1> QED
  BY <1>2, <1>3

\* One project's call, whoever writes.
LEMMA CallStepOK ==
  ASSUME IInv, CallInv, Reading \/ Filling \/ Writing
  PROVE  CallInv'
BY ReadingOK, FillingOK, WritingOK

LEMMA ReadersWriteNothing ==
  ASSUME IInv, UNCHANGED vars
  PROVE  IInv'
<1>1. [Next]_vars
  OBVIOUS
<1> QED
  BY <1>1, NextOK

LEMMA StoreStepOK ==
  ASSUME IInv, Reading \/ Filling \/ Writing
  PROVE  IInv'
<1>1. [Next]_vars
  BY DEF Reading, Filling, Writing
<1> QED
  BY <1>1, NextOK

\* A call that nothing of changes.
LEMMA CallStands ==
  ASSUME CallInv, UNCHANGED rvars
  PROVE  CallInv'
<1>1. /\ UNCHANGED <<notes, query, at, limit, vecs, hits, stale, rows, history>>
      /\ UNCHANGED <<alone, freed, steady, ancestry>>
  BY DEF rvars, vars, reader, answer, witnesses
<1>2. /\ Active' = Active /\ Living' = Living
      /\ \A q : /\ Matches(q)' = Matches(q) /\ Current(q)' = Current(q)
                /\ WithinHops(q)' = WithinHops(q)
  BY <1>1, SameNotes
<1>3. CallOK'
  BY <1>1, <1>2 DEF CallInv, CallOK
<1>4. ASSUME NEW q \in query
      PROVE  SteadyOK(q)' /\ (alone /\ ~q.all => AloneOK(q)')
  <2>1. /\ IsCurrentTruth(q) => IsCurrentTruth(q)'
        /\ \A n : Answered(q, n) => Answered(q, n)'
    BY <1>1, TruthIsThat, SameTruth
  <2>2. SteadyOK(q) /\ (alone /\ ~q.all => AloneOK(q))
    BY DEF CallInv
  <2> QED
    BY <1>1, <1>2, <2>1, <2>2 DEF SteadyOK, AloneOK
<1>5. HistoryOK => HistoryOK'
  BY <1>1 DEF HistoryOK
<1> QED
  BY <1>1, <1>3, <1>4, <1>5 DEF CallInv

-----------------------------------------------------------------------------
(* Sums and products over finite sets, as the folds compute them. *)

Pick(s) == CHOOSE x \in s : TRUE
Neutral(kind) == IF kind = "sum" THEN 0 ELSE 1
Joined(kind, a, b) == IF kind = "sum" THEN a + b ELSE a * b

\* What a fold's recursion says of a set, given what it says of the rest.
Folded(g, h, kind, s) ==
  IF s = {} THEN Neutral(kind) ELSE Joined(kind, h[Pick(s)], g[s \ {Pick(s)}])

IsFold(g, S, h, kind) == g = [s \in SUBSET S |-> Folded(g, h, kind, s)]

LEMMA PickFacts ==
  ASSUME NEW s, IsFiniteSet(s), s # {}
  PROVE  /\ Pick(s) \in s /\ IsFiniteSet(s \ {Pick(s)})
         /\ Cardinality(s) \in Nat /\ Cardinality(s \ {Pick(s)}) = Cardinality(s) - 1
<1>1. Pick(s) \in s
  BY DEF Pick
<1> QED
  BY <1>1, FS_RemoveElement, FS_CardinalityType

\* What holds of the empty set, and of a set when it holds of the rest, holds of all.
LEMMA SetInduction ==
  ASSUME NEW S, IsFiniteSet(S), NEW Good, {} \in Good,
         \A s \in SUBSET S : s # {} /\ s \ {Pick(s)} \in Good => s \in Good
  PROVE  \A s \in SUBSET S : s \in Good
<1> SUFFICES ASSUME NEW b \in SUBSET S, b \notin Good PROVE FALSE
  OBVIOUS
<1> DEFINE Bad == {n \in Nat : \E s \in SUBSET S : Cardinality(s) = n /\ s \notin Good}
<1>1. \A s \in SUBSET S : IsFiniteSet(s) /\ Cardinality(s) \in Nat
  BY FS_Subset, FS_CardinalityType
<1>2. Bad \in SUBSET Nat /\ Bad # {}
  BY <1>1
<1>3. PICK n \in Bad : \A m \in Bad : n <= m
  <2> HIDE DEF Bad
  <2> QED
    BY <1>2, Smallest
<1>4. PICK s \in SUBSET S : Cardinality(s) = n /\ s \notin Good
  BY <1>3
<1>5. s # {} /\ s \ {Pick(s)} \in SUBSET S /\ s \ {Pick(s)} \notin Good
  BY <1>4
<1>6. Cardinality(s \ {Pick(s)}) = n - 1 /\ n - 1 \in Nat
  BY <1>1, <1>4, <1>5, PickFacts
<1>7. n - 1 \in Bad
  BY <1>5, <1>6
<1> QED
  BY <1>3, <1>7

\* The recursion has a solution.
LEMMA FoldExists ==
  ASSUME NEW S, IsFiniteSet(S), NEW h, NEW kind
  PROVE  \E g : IsFold(g, S, h, kind)
<1> DEFINE UpTo(g, n) ==
             /\ g = [s \in SUBSET S |-> g[s]]
             /\ \A s \in SUBSET S : Cardinality(s) <= n => g[s] = Folded(g, h, kind, s)
<1>1. \A s \in SUBSET S : IsFiniteSet(s) /\ Cardinality(s) \in Nat
                            /\ Cardinality(s) <= Cardinality(S)
  BY FS_Subset, FS_CardinalityType
<1>2. ASSUME NEW n \in Nat PROVE \E g : UpTo(g, n)
  <2> SUFFICES ASSUME ~\E g : UpTo(g, n) PROVE FALSE
    OBVIOUS
  <2> DEFINE Bad == {m \in Nat : ~\E g : UpTo(g, m)}
  <2>1. PICK m \in Bad : \A l \in Bad : m <= l
    <3>1. Bad \in SUBSET Nat /\ Bad # {}
      OBVIOUS
    <3> HIDE DEF Bad
    <3> QED
      BY <3>1, Smallest
  <2>2. m # 0
    <3> DEFINE g == [s \in SUBSET S |-> Neutral(kind)]
    <3>1. ASSUME NEW s \in SUBSET S, Cardinality(s) <= 0 PROVE s = {}
      BY <1>1, <3>1, FS_EmptySet
    <3>2. \A s \in SUBSET S : Cardinality(s) <= 0 => g[s] = Folded(g, h, kind, s)
      BY <3>1 DEF Folded
    <3>3. g = [s \in SUBSET S |-> g[s]]
      OBVIOUS
    <3> HIDE DEF g
    <3>4. UpTo(g, 0)
      BY <3>2, <3>3
    <3> HIDE DEF UpTo
    <3> QED
      BY <2>1, <3>4
  <2>3. PICK g : UpTo(g, m - 1)
    <3>1. m \in Nat
      BY <2>1
    <3>2. m - 1 \in Nat /\ m - 1 \notin Bad
      <4> HIDE DEF Bad
      <4> QED
        BY <2>1, <2>2, <3>1
    <3> HIDE DEF UpTo
    <3> QED
      BY <3>2
  <2> DEFINE f == [s \in SUBSET S |-> IF Cardinality(s) = m THEN Folded(g, h, kind, s) ELSE g[s]]
  <2>4. ASSUME NEW s \in SUBSET S, Cardinality(s) <= m
        PROVE  f[s] = Folded(f, h, kind, s)
    <3>1. Folded(f, h, kind, s) = Folded(g, h, kind, s)
      <4>1. CASE s = {}
        BY <4>1 DEF Folded
      <4>2. CASE s # {}
        <5>1. /\ s \ {Pick(s)} \in SUBSET S
              /\ Cardinality(s \ {Pick(s)}) # m
          BY <1>1, <2>1, <2>4, <4>2, PickFacts
        <5>2. f[s \ {Pick(s)}] = g[s \ {Pick(s)}]
          BY <5>1
        <5> QED
          BY <5>2 DEF Folded
      <4> QED
        BY <4>1, <4>2
    <3>2. CASE Cardinality(s) = m
      BY <3>1, <3>2
    <3>3. CASE Cardinality(s) # m
      <4>1. Cardinality(s) <= m - 1
        BY <1>1, <2>1, <2>4, <3>3
      <4>2. g[s] = Folded(g, h, kind, s) /\ f[s] = g[s]
        BY <2>3, <3>3, <4>1
      <4> QED
        BY <3>1, <4>2
    <3> QED
      BY <3>2, <3>3
  <2>5. f = [s \in SUBSET S |-> f[s]]
    OBVIOUS
  <2> HIDE DEF f
  <2>6. UpTo(f, m)
    BY <2>4, <2>5
  <2> HIDE DEF UpTo
  <2> QED
    BY <2>1, <2>6
<1>3. PICK g : UpTo(g, Cardinality(S))
  BY <1>1, <1>2
<1>4. \A s \in SUBSET S : g[s] = Folded(g, h, kind, s)
  BY <1>1, <1>3
<1>5. g = [s \in SUBSET S |-> g[s]]
  BY <1>3
<1> QED
  BY <1>4, <1>5 DEF IsFold

LEMMA FoldFacts ==
  ASSUME NEW S, NEW h, NEW kind, NEW g, IsFold(g, S, h, kind)
  PROVE  \A s \in SUBSET S : g[s] = Folded(g, h, kind, s)
<1>1. g = [s \in SUBSET S |-> Folded(g, h, kind, s)]
  BY DEF IsFold
<1> QED
  BY <1>1, Zenon

\* One unfolding: the picked member is joined to what the rest makes.
LEMMA FoldStep ==
  ASSUME NEW S, NEW h, NEW kind, NEW g, IsFold(g, S, h, kind)
  PROVE  \A s \in SUBSET S :
           s # {} => Pick(s) \in s /\ g[s] = Joined(kind, h[Pick(s)], g[s \ {Pick(s)}])
<1> SUFFICES ASSUME NEW s \in SUBSET S, s # {}
             PROVE  Pick(s) \in s /\ g[s] = Joined(kind, h[Pick(s)], g[s \ {Pick(s)}])
  OBVIOUS
<1>1. g[s] = Folded(g, h, kind, s)
  BY FoldFacts
<1>2. g[s] = Joined(kind, h[Pick(s)], g[s \ {Pick(s)}])
  BY <1>1, Zenon DEF Folded
<1>3. Pick(s) \in s
  BY Zenon DEF Pick
<1> QED
  BY <1>2, <1>3

\* A sum of naturals is at least what any two of them make.
LEMMA SumBounds ==
  ASSUME NEW S, IsFiniteSet(S), NEW h \in [S -> Nat], NEW g, IsFold(g, S, h, "sum")
  PROVE  \A s \in SUBSET S :
           /\ g[s] \in Nat /\ \A x \in s : h[x] <= g[s]
           /\ \A x, y \in s : x # y => h[x] + h[y] <= g[s]
           /\ \A x \in S : s = {x} => g[s] = h[x]
<1> DEFINE Good == {s \in SUBSET S :
                      /\ g[s] \in Nat /\ \A x \in s : h[x] <= g[s]
                      /\ \A x, y \in s : x # y => h[x] + h[y] <= g[s]}
<1>1. g[{}] = 0
  <2>1. {} \in SUBSET S
    OBVIOUS
  <2>2. g[{}] = Folded(g, h, "sum", {})
    BY <2>1, FoldFacts
  <2> QED
    BY <2>2 DEF Folded, Neutral
<1>2. {} \in Good
  BY <1>1
<1>3. ASSUME NEW s \in SUBSET S, s # {} PROVE g[s] = h[Pick(s)] + g[s \ {Pick(s)}]
  <2>1. g[s] = Folded(g, h, "sum", s)
    BY FoldFacts
  <2> QED
    BY <1>3, <2>1 DEF Folded, Joined
<1>4. ASSUME NEW s \in SUBSET S, s # {}, s \ {Pick(s)} \in Good PROVE s \in Good
  <2>1. g[s] = h[Pick(s)] + g[s \ {Pick(s)}] /\ Pick(s) \in s
    BY <1>3, <1>4, PickFacts DEF Pick
  <2> DEFINE c == Pick(s)
             rest == s \ {c}
  <2>2. c \in s /\ g[s] = h[c] + g[rest] /\ h[c] \in Nat /\ g[rest] \in Nat
    BY <1>4, <2>1
  <2>3. /\ \A x \in rest : h[x] <= g[rest] /\ h[x] \in Nat
        /\ \A x, y \in rest : x # y => h[x] + h[y] <= g[rest]
        /\ \A x \in s : x = c \/ x \in rest
    BY <1>4
  <2> HIDE DEF c, rest
  <2>4. \A x \in s : h[x] <= g[s]
    BY <2>2, <2>3
  <2>5. \A x, y \in s : x # y => h[x] + h[y] <= g[s]
    BY <2>2, <2>3
  <2> QED
    BY <2>2, <2>4, <2>5
<1>5. \A s \in SUBSET S : s \in Good
  <2> HIDE DEF Good
  <2> QED
    BY <1>2, <1>4, SetInduction
<1>6. ASSUME NEW x \in S PROVE g[{x}] = h[x]
  <2>1. Pick({x}) = x
    BY DEF Pick
  <2>2. {x} \ {x} = {} /\ {x} # {} /\ {x} \in SUBSET S
    OBVIOUS
  <2>3. g[{x}] = h[x] + g[{}]
    BY <1>3, <2>1, <2>2
  <2> QED
    BY <1>1, <2>3
<1> QED
  BY <1>5, <1>6

\* A product of positive naturals is at least each of them.
LEMMA ProductBounds ==
  ASSUME NEW S, IsFiniteSet(S), NEW h \in [S -> Nat \ {0}], NEW g, IsFold(g, S, h, "product")
  PROVE  \A s \in SUBSET S : g[s] \in Nat \ {0} /\ \A x \in s : h[x] <= g[s]
<1> DEFINE Good == {s \in SUBSET S : g[s] \in Nat \ {0} /\ \A x \in s : h[x] <= g[s]}
<1>1. {} \in Good
  <2>1. {} \in SUBSET S
    OBVIOUS
  <2>2. g[{}] = Folded(g, h, "product", {})
    BY <2>1, FoldFacts
  <2>3. g[{}] = 1
    BY <2>2 DEF Folded, Neutral
  <2> QED
    BY <2>3
<1>2. ASSUME NEW s \in SUBSET S, s # {}, s \ {Pick(s)} \in Good PROVE s \in Good
  <2> DEFINE c == Pick(s)
             rest == s \ {c}
  <2>0. c \in s /\ g[s] = Joined("product", h[c], g[rest])
    BY <1>2, FoldStep
  <2>1. c \in s /\ g[s] = h[c] * g[rest]
    BY <2>0 DEF Joined
  <2>2. /\ h[c] \in Nat \ {0} /\ g[rest] \in Nat \ {0}
        /\ \A x \in rest : h[x] <= g[rest] /\ h[x] \in Nat
        /\ \A x \in s : x = c \/ x \in rest
    BY <1>2, <2>1
  <2> HIDE DEF c, rest
  <2>3. ASSUME NEW a \in Nat \ {0}, NEW b \in Nat \ {0}
        PROVE  a * b \in Nat \ {0} /\ a <= a * b /\ b <= a * b
    <3>1. a * (b - 1) \in Nat /\ (a - 1) * b \in Nat
      OBVIOUS
    <3>2. a * b = a * (b - 1) + a /\ a * b = (a - 1) * b + b
      OBVIOUS
    <3> QED
      BY <3>1, <3>2
  <2>4. g[s] \in Nat \ {0} /\ h[c] <= g[s] /\ g[rest] <= g[s]
    BY <2>1, <2>2, <2>3
  <2>5. \A x \in s : h[x] <= g[s]
    BY <2>2, <2>4
  <2> QED
    BY <2>4, <2>5
<1>3. \A s \in SUBSET S : s \in Good
  <2> HIDE DEF Good
  <2> QED
    BY <1>1, <1>2, SetInduction
<1> QED
  BY <1>3

-----------------------------------------------------------------------------
(* Fusion by reciprocal ranks. *)

LEMMA ScoreBounds ==
  ASSUME NEW t, IsFiniteSet(Places(t)), \A p \in Places(t) : Share(p) \in Nat
  PROVE  /\ Score(t) \in Nat
         /\ \A p, r \in Places(t) : p # r => Share(p) + Share(r) <= Score(t)
         /\ \A p : Places(t) = {p} => Score(t) = Share(p)
<1> DEFINE S == Places(t)
           h == [p \in S |-> Share(p)]
           D(f) == f = [s \in SUBSET S |->
                          IF s = {} THEN 0 ELSE Share(Pick(s)) + f[s \ {Pick(s)}]]
           sum == CHOOSE f : D(f)
<1>1. Score(t) = sum[S]
  BY DEF Score, MapThenSumSet, MapThenFoldSet, Pick
<1>2. \A f : D(f) <=> IsFold(f, S, h, "sum")
  <2> SUFFICES ASSUME NEW f PROVE D(f) <=> IsFold(f, S, h, "sum")
    OBVIOUS
  <2>1. \A s \in SUBSET S : s # {} => h[Pick(s)] = Share(Pick(s))
    BY DEF Pick
  <2>2. \A s \in SUBSET S :
          Folded(f, h, "sum", s) = IF s = {} THEN 0 ELSE Share(Pick(s)) + f[s \ {Pick(s)}]
    <3> HIDE DEF h
    <3> QED
      BY <2>1 DEF Folded, Joined, Neutral
  <2>3. [s \in SUBSET S |-> Folded(f, h, "sum", s)]
          = [s \in SUBSET S |-> IF s = {} THEN 0 ELSE Share(Pick(s)) + f[s \ {Pick(s)}]]
    <3> HIDE DEF h, S
    <3> QED
      BY <2>2
  <2> QED
    BY <2>3 DEF IsFold
<1>3. \E f : IsFold(f, S, h, "sum")
  <2> HIDE DEF h
  <2> QED
    BY FoldExists
<1> HIDE DEF D
<1>4. IsFold(sum, S, h, "sum")
  <2> HIDE DEF h
  <2> QED
    BY <1>2, <1>3
<1>5. h \in [S -> Nat] /\ \A p \in S : h[p] = Share(p)
  OBVIOUS
<1> HIDE DEF h, sum
<1>6. /\ sum[S] \in Nat
      /\ \A x, y \in S : x # y => h[x] + h[y] <= sum[S]
      /\ \A x \in S : S = {x} => sum[S] = h[x]
  <2>1. S \in SUBSET S /\ IsFiniteSet(S)
    OBVIOUS
  <2> HIDE DEF S
  <2> QED
    BY <1>4, <1>5, <2>1, SumBounds
<1> QED
  BY <1>1, <1>5, <1>6

LEMMA ImageIsFinite ==
  ASSUME NEW S, IsFiniteSet(S), NEW f
  PROVE  IsFiniteSet({f[x] : x \in S})
<1> DEFINE g == [x \in S |-> f[x]]
<1>1. g \in Surjection(S, {f[x] : x \in S})
  BY DEF Surjection
<1> QED
  BY <1>1, FS_Surjection

\* The lists heard are sequences.
ListsOK == \A m \in Members : \E n \in Nat : DOMAIN lists[m] = 1 .. n

LEMMA ListFacts ==
  ASSUME ListsOK, NEW m \in Members
  PROVE  /\ IsFiniteSet(DOMAIN lists[m]) /\ DOMAIN lists[m] \subseteq Nat \ {0}
         /\ IsFiniteSet(ToSet(lists[m]))
<1>1. PICK n \in Nat : DOMAIN lists[m] = 1 .. n
  BY DEF ListsOK
<1>2. IsFiniteSet(DOMAIN lists[m])
  BY <1>1, FS_Interval
<1>3. IsFiniteSet(ToSet(lists[m]))
  BY <1>2, ImageIsFinite DEF ToSet
<1> QED
  BY <1>1, <1>2, <1>3

LEMMA MembersAreFinite == IsFiniteSet(Members)
BY PoolAssumption, FS_AddElement DEF Members

LEMMA HeardIsFinite ==
  ASSUME ListsOK
  PROVE  IsFiniteSet(Heard)
<1> DEFINE f == [m \in Members |-> ToSet(lists[m])]
<1>1. IsFiniteSet({f[m] : m \in Members})
  BY MembersAreFinite, ImageIsFinite
<1>2. \A S \in {f[m] : m \in Members} : IsFiniteSet(S)
  BY ListFacts
<1>3. Heard = UNION {f[m] : m \in Members}
  BY DEF Heard
<1> HIDE DEF f
<1> QED
  BY <1>1, <1>2, <1>3, FS_UNION

LEMMA PlacesAreFinite ==
  ASSUME ListsOK, NEW t
  PROVE  IsFiniteSet(Places(t))
<1> DEFINE f == [m \in Members |-> {<<m, i>> : i \in {j \in DOMAIN lists[m] : lists[m][j] = t}}]
<1>1. IsFiniteSet({f[m] : m \in Members})
  BY MembersAreFinite, ImageIsFinite
<1>2. ASSUME NEW m \in Members PROVE IsFiniteSet(f[m])
  <2> DEFINE X == {j \in DOMAIN lists[m] : lists[m][j] = t}
             g == [i \in X |-> <<m, i>>]
  <2>1. IsFiniteSet(X)
    BY ListFacts, FS_Subset
  <2>2. f[m] = {g[i] : i \in X}
    OBVIOUS
  <2> HIDE DEF f, g, X
  <2> QED
    BY <2>1, <2>2, ImageIsFinite
<1>3. Places(t) = UNION {f[m] : m \in Members}
  BY DEF Places
<1> HIDE DEF f
<1>4. \A S \in {f[m] : m \in Members} : IsFiniteSet(S)
  BY <1>2
<1> QED
  BY <1>1, <1>3, <1>4, FS_UNION

\* A common multiple is no smaller than any k + rank.
LEMMA UnitBounds ==
  ASSUME ListsOK
  PROVE  /\ Unit \in Nat \ {0}
         /\ \A m \in Members : \A i \in DOMAIN lists[m] : RankConstant + i <= Unit
<1> DEFINE ranks == UNION {DOMAIN lists[m] : m \in Members}
           S == {RankConstant + i : i \in ranks}
           h == [x \in S |-> x]
           D(f) == f = [s \in SUBSET S |->
                          IF s = {} THEN 1 ELSE Pick(s) * f[s \ {Pick(s)}]]
           product == CHOOSE f : D(f)
<1>1. Unit = product[S]
  BY DEF Unit, ProductSet, FoldSet, MapThenFoldSet, Pick
<1>2. IsFiniteSet(S) /\ S \subseteq Nat \ {0}
  <2> DEFINE d == [m \in Members |-> DOMAIN lists[m]]
             g == [i \in ranks |-> RankConstant + i]
  <2>1. IsFiniteSet({d[m] : m \in Members}) /\ \A T \in {d[m] : m \in Members} : IsFiniteSet(T)
    BY MembersAreFinite, ImageIsFinite, ListFacts
  <2>2. ranks = UNION {d[m] : m \in Members}
    OBVIOUS
  <2>3. IsFiniteSet(ranks)
    <3> HIDE DEF d, ranks
    <3> QED
      BY <2>1, <2>2, FS_UNION
  <2>4. S = {g[i] : i \in ranks}
    OBVIOUS
  <2>5. ranks \subseteq Nat \ {0} /\ RankConstant \in Nat
    BY ListFacts, PoolAssumption
  <2> HIDE DEF ranks
  <2>6. S \subseteq Nat \ {0}
    BY <2>5
  <2> HIDE DEF g
  <2>7. IsFiniteSet(S)
    <3> HIDE DEF S
    <3> QED
      BY <2>3, <2>4, ImageIsFinite
  <2> QED
    BY <2>6, <2>7
<1>3. \A m \in Members : \A i \in DOMAIN lists[m] : RankConstant + i \in S
  OBVIOUS
<1> HIDE DEF S
<1>4. \A f : D(f) <=> IsFold(f, S, h, "product")
  <2> SUFFICES ASSUME NEW f PROVE D(f) <=> IsFold(f, S, h, "product")
    OBVIOUS
  <2>1. \A s \in SUBSET S : s # {} => h[Pick(s)] = Pick(s)
    BY DEF Pick
  <2>2. \A s \in SUBSET S :
          Folded(f, h, "product", s) = IF s = {} THEN 1 ELSE Pick(s) * f[s \ {Pick(s)}]
    <3> HIDE DEF h
    <3> QED
      BY <2>1 DEF Folded, Joined, Neutral
  <2>3. [s \in SUBSET S |-> Folded(f, h, "product", s)]
          = [s \in SUBSET S |-> IF s = {} THEN 1 ELSE Pick(s) * f[s \ {Pick(s)}]]
    <3> HIDE DEF h
    <3> QED
      BY <2>2
  <2> QED
    BY <2>3 DEF IsFold
<1>5. h \in [S -> Nat \ {0}] /\ \A x \in S : h[x] = x
  BY <1>2
<1> HIDE DEF h
<1>6. \E f : IsFold(f, S, h, "product")
  BY <1>2, FoldExists
<1> HIDE DEF D
<1>7. IsFold(product, S, h, "product")
  BY <1>4, <1>6
<1> HIDE DEF product
<1>8. product[S] \in Nat \ {0} /\ \A x \in S : h[x] <= product[S]
  <2>1. S \in SUBSET S
    OBVIOUS
  <2> QED
    BY <1>2, <1>5, <1>7, <2>1, ProductBounds
<1> QED
  BY <1>1, <1>3, <1>5, <1>8

\* A larger divisor divides no more often.
LEMMA Quotients ==
  ASSUME NEW a \in Nat, NEW b \in Nat \ {0}, NEW c \in Nat \ {0}, c <= b
  PROVE  /\ a \div b \in Nat /\ a \div b <= a \div c
         /\ b <= a => 1 <= a \div b
<1> DEFINE q == a \div b
           p == a \div c
<1>1. q \in Nat /\ p \in Nat /\ q * b <= a /\ a < (q + 1) * b /\ p * c <= a /\ a < (p + 1) * c
  OBVIOUS
<1> HIDE DEF q, p
<1>2. q <= p
  <2> SUFFICES ASSUME p + 1 <= q PROVE FALSE
    BY <1>1
  <2>1. (p + 1) * c <= q * c /\ q * c <= q * b
    BY <1>1
  <2> QED
    BY <1>1, <2>1
<1>3. b <= a => 1 <= q
  <2> SUFFICES ASSUME b <= a, q = 0 PROVE FALSE
    BY <1>1
  <2> QED
    BY <1>1
<1> QED
  BY <1>1, <1>2, <1>3 DEF q, p

LEMMA PlaceFacts ==
  ASSUME NEW t, NEW p \in Places(t)
  PROVE  p[1] \in Members /\ p[2] \in DOMAIN lists[p[1]] /\ p = <<p[1], p[2]>>
BY DEF Places

\* A share is a positive natural; a better rank in a list of no less weight gives no
\* smaller one.
LEMMA ShareFacts ==
  ASSUME ListsOK, NEW t, NEW u, NEW r \in Places(t), NEW p \in Places(u)
  PROVE  /\ Share(r) \in Nat \ {0} /\ Share(p) \in Nat
         /\ r[2] <= p[2] /\ r[1] \in {Seed, p[1]} => Share(p) <= Share(r)
<1> DEFINE W(x) == IF x = Seed THEN Weight ELSE 1
           rq == Unit \div (RankConstant + r[2])
           pq == Unit \div (RankConstant + p[2])
<1>1. r[1] \in Members /\ r[2] \in DOMAIN lists[r[1]] /\ p[1] \in Members /\ p[2] \in DOMAIN lists[p[1]]
  BY PlaceFacts
<1>2. /\ RankConstant \in Nat /\ r[2] \in Nat \ {0} /\ p[2] \in Nat \ {0}
      /\ RankConstant + r[2] \in Nat \ {0} /\ RankConstant + p[2] \in Nat \ {0}
  <2>1. r[2] \in Nat \ {0} /\ p[2] \in Nat \ {0}
    BY <1>1, ListFacts
  <2> QED
    BY <2>1, PoolAssumption
<1>3. Unit \in Nat /\ RankConstant + r[2] <= Unit
  BY <1>1, UnitBounds
<1>4. rq \in Nat \ {0} /\ pq \in Nat /\ (r[2] <= p[2] => pq <= rq)
  <2> DEFINE x == RankConstant + r[2]
             y == RankConstant + p[2]
  <2>1. /\ x \in Nat \ {0} /\ y \in Nat \ {0} /\ x <= Unit /\ Unit \in Nat
        /\ r[2] <= p[2] => x <= y
    BY <1>2, <1>3
  <2>2. rq = Unit \div x /\ pq = Unit \div y
    OBVIOUS
  <2> HIDE DEF x, y, rq, pq
  <2>3. rq \in Nat /\ 1 <= rq /\ pq \in Nat
    BY <2>1, <2>2, Quotients
  <2>4. r[2] <= p[2] => pq <= rq
    BY <2>1, <2>2, Quotients
  <2> QED
    BY <2>3, <2>4
<1>5. Share(r) = W(r[1]) * rq /\ Share(p) = W(p[1]) * pq
  BY DEF Share
<1>6. /\ W(r[1]) \in Nat \ {0} /\ W(p[1]) \in Nat \ {0}
      /\ r[1] \in {Seed, p[1]} => W(p[1]) <= W(r[1])
  BY PoolAssumption
<1> HIDE DEF W, rq, pq
<1>7. \A a, b, c, d \in Nat : a <= c /\ b <= d => a * b <= c * d
  <2> SUFFICES ASSUME NEW a \in Nat, NEW b \in Nat, NEW c \in Nat, NEW d \in Nat, a <= c, b <= d
               PROVE  a * b <= c * d
    OBVIOUS
  <2>1. a * b <= c * b /\ c * b <= c * d
    OBVIOUS
  <2> QED
    BY <2>1
<1>8. W(r[1]) * rq \in Nat \ {0} /\ W(p[1]) * pq \in Nat
  BY <1>4, <1>6
<1>9. r[2] <= p[2] /\ r[1] \in {Seed, p[1]} => W(p[1]) * pq <= W(r[1]) * rq
  BY <1>4, <1>6, <1>7
<1> QED
  BY <1>5, <1>8, <1>9

\* What more members have, no worse placed, scores more.
LEMMA CorroboratedScoresMore ==
  ASSUME ListsOK, NEW t, NEW u, Cardinality({p[1] : p \in Places(t)}) > 1,
         Cardinality(Places(u)) = 1,
         \A p \in Places(u) : \E r \in Places(t) : r[2] <= p[2] /\ r[1] \in {Seed, p[1]}
  PROVE  Score(t) \in Nat /\ Score(u) \in Nat /\ Score(u) < Score(t)
<1>1. IsFiniteSet(Places(t)) /\ IsFiniteSet(Places(u))
  BY PlacesAreFinite
<1>2. PICK p : Places(u) = {p}
  BY <1>1, FS_Singleton
<1>3. PICK r \in Places(t) : r[2] <= p[2] /\ r[1] \in {Seed, p[1]}
  BY <1>2
<1>4. PICK s \in Places(t) : s[1] # r[1]
  <2> SUFFICES ASSUME \A s \in Places(t) : s[1] = r[1] PROVE FALSE
    OBVIOUS
  <2>1. {s[1] : s \in Places(t)} = {r[1]}
    BY <1>3
  <2>2. Cardinality({r[1]}) = 1
    BY FS_Singleton
  <2> QED
    BY <2>1, <2>2
<1>5. \A x \in Places(t) : Share(x) \in Nat \ {0}
  BY <1>2, ShareFacts
<1>6. \A x \in Places(u) : Share(x) \in Nat
  BY <1>3, ShareFacts
<1>7. Share(p) <= Share(r)
  BY <1>2, <1>3, ShareFacts
<1>8. Score(t) \in Nat /\ Share(r) + Share(s) <= Score(t)
  BY <1>1, <1>3, <1>4, <1>5, ScoreBounds
<1>9. Score(u) \in Nat /\ Score(u) = Share(p)
  BY <1>1, <1>2, <1>6, ScoreBounds
<1> QED
  BY <1>2, <1>3, <1>4, <1>5, <1>6, <1>7, <1>8, <1>9

\* What scores more comes first.
LEMMA FusionOrder ==
  ASSUME IsFiniteSet(Heard), NEW s \in Fusions, NEW t \in Heard, NEW u \in Heard,
         Score(t) \in Nat, Score(u) \in Nat, Score(u) < Score(t), NEW i \in DOMAIN s, s[i] = u
  PROVE  \E j \in 1 .. i - 1 : s[j] = t
<1> DEFINE scores == [x \in Heard |-> <<Score(x), BestRank(x)>>]
           Behind(x, y) == \/ scores[x][1] < scores[y][1]
                           \/ scores[x][1] = scores[y][1] /\ scores[x][2] > scores[y][2]
           N == Cardinality(Heard)
<1>1. N \in Nat /\ K \in Nat
  BY FS_CardinalityType, RecallAssumption
<1>2. PICK r \in SetToSeqs(Heard) :
        /\ \A j, l \in DOMAIN r : j < l => ~Behind(r[j], r[l])
        /\ s = SubSeq(r, 1, Min({K, Len(r)}))
  BY DEF Fusions
<1>3. Behind(u, t)
  <2>1. scores[u][1] = Score(u) /\ scores[t][1] = Score(t)
    OBVIOUS
  <2> QED
    BY <2>1
<1> HIDE DEF Behind
<1>4. r \in [1 .. N -> Heard] /\ \A j, l \in 1 .. N : j # l => r[j] # r[l]
  BY <1>2 DEF SetToSeqs
<1>5. r \in Seq(Heard) /\ Len(r) = N /\ DOMAIN r = 1 .. N
  BY <1>1, <1>4
<1> DEFINE L == Min({K, N})
<1>6. L \in Nat /\ L <= N
  BY <1>1 DEF Min
<1>7. s = SubSeq(r, 1, L)
  BY <1>2, <1>5
<1> HIDE DEF L
<1>8. PICK j \in 1 .. N : r[j] = t
  <2> HIDE DEF N
  <2>1. r \in Injection(1 .. N, Heard)
    BY <1>4 DEF Injection, IsInjective
  <2>2. Cardinality(1 .. N) = N
    BY <1>1, FS_Interval
  <2>3. r \in Surjection(1 .. N, Heard)
    BY <2>1, <2>2, FS_Injection DEF N
  <2> QED
    BY <2>3 DEF Surjection
<1> HIDE DEF N
<1>9. DOMAIN s = 1 .. L /\ \A l \in 1 .. L : s[l] = r[l]
  BY <1>1, <1>5, <1>6, <1>7
<1>10. i \in 1 .. L /\ i \in 1 .. N /\ r[i] = u
  BY <1>1, <1>6, <1>9
<1>11. j # i /\ ~(i < j)
  <2>1. t # u
    OBVIOUS
  <2>2. ~(i < j)
    BY <1>2, <1>3, <1>5, <1>8, <1>10
  <2> QED
    BY <1>8, <1>10, <2>1, <2>2
<1>12. j \in 1 .. i - 1 /\ j \in 1 .. L
  BY <1>1, <1>6, <1>8, <1>10, <1>11
<1> QED
  BY <1>8, <1>9, <1>12

\* A fusion holds texts that were heard, each once, and as many as there is room for.
LEMMA FusionFacts ==
  ASSUME IsFiniteSet(Heard), NEW s \in Fusions
  PROVE  /\ ToSet(s) \subseteq Heard /\ Len(s) = Cardinality(ToSet(s))
         /\ Len(s) = Min({K, Cardinality(Heard)})
<1> DEFINE N == Cardinality(Heard)
<1>1. N \in Nat /\ K \in Nat
  BY FS_CardinalityType, RecallAssumption
<1>2. PICK r \in SetToSeqs(Heard) : s = SubSeq(r, 1, Min({K, Len(r)}))
  BY DEF Fusions
<1>3. r \in [1 .. N -> Heard] /\ \A i, j \in 1 .. N : i # j => r[i] # r[j]
  BY <1>2 DEF SetToSeqs
<1>4. r \in Seq(Heard) /\ Len(r) = N
  BY <1>1, <1>3
<1> DEFINE L == Min({K, N})
<1>5. L \in Nat /\ L <= N
  BY <1>1 DEF Min
<1> HIDE DEF L
<1>6. s = SubSeq(r, 1, L)
  BY <1>2, <1>4 DEF L
<1> HIDE DEF N
<1>7. Len(s) = L /\ DOMAIN s = 1 .. L /\ \A i \in 1 .. L : s[i] = r[i]
  BY <1>1, <1>4, <1>5, <1>6
<1>8. \A i \in 1 .. L : i \in 1 .. N
  BY <1>1, <1>5
<1>9. \A i, j \in 1 .. L : s[i] = s[j] => i = j
  BY <1>3, <1>7, <1>8
<1>10. s \in Bijection(1 .. L, ToSet(s))
  <2>1. s = [i \in 1 .. L |-> s[i]]
    BY <1>4, <1>5, <1>6
  <2>2. s \in Surjection(1 .. L, ToSet(s))
    BY <1>7, <2>1 DEF ToSet, Surjection
  <2>3. s \in Injection(1 .. L, ToSet(s))
    BY <1>7, <1>9, <2>1 DEF ToSet, Injection, IsInjective
  <2> QED
    BY <2>2, <2>3 DEF Bijection
<1>11. Cardinality(ToSet(s)) = L
  <2>1. IsFiniteSet(1 .. L) /\ Cardinality(1 .. L) = L
    BY <1>5, FS_Interval
  <2> QED
    BY <1>10, <2>1, FS_Bijection DEF ExistsBijection
<1>12. ToSet(s) \subseteq Heard
  BY <1>3, <1>7, <1>8 DEF ToSet
<1> QED
  BY <1>7, <1>11, <1>12 DEF L, N

LEMMA FusionIsFair ==
  ASSUME ListsOK, NEW s \in Fusions, fused' = {s}, UNCHANGED lists
  PROVE  CorroboratedComesFirst'
<1>1. IsFiniteSet(Heard)
  BY HeardIsFinite
<1>2. Heard' = Heard /\ \A t : Places(t)' = Places(t)
  BY DEF Heard, Places
<1>3. ASSUME NEW t \in Heard, NEW u \in Heard,
             Cardinality({p[1] : p \in Places(t)}) > 1, Cardinality(Places(u)) = 1,
             \A p \in Places(u) : \E r \in Places(t) : r[2] <= p[2] /\ r[1] \in {Seed, p[1]},
             NEW i \in DOMAIN s, s[i] = u
      PROVE  \E j \in 1 .. i - 1 : s[j] = t
  BY <1>1, <1>3, CorroboratedScoresMore, FusionOrder
<1> QED
  BY <1>2, <1>3 DEF CorroboratedComesFirst

-----------------------------------------------------------------------------
(* The members of a Pool. *)

\* What the members of a Pool have come to: the seed's reader runs while it is
\* querying, and a member that was called ready is being asked or has answered, unless
\* its status says otherwise.
PoolOK ==
  /\ asked \subseteq PoolQueries
  /\ asked = {} =>
       at # "waiting" /\ fused = {} /\ \A m \in Members : stage[m] = "planned" /\ status[m] = ""
  /\ asked # {} => at # "idle" /\ (at = "waiting" <=> stage[Seed] # "querying")
  /\ stage = [m \in Members |-> stage[m]] /\ status = [m \in Members |-> status[m]]
  /\ \A m \in Members :
       /\ stage[m] \in {"planned", "querying", "answered", "failed"}
       /\ stage[m] \in {"querying", "answered"} => status[m] = "ready"
       /\ stage[m] = "failed" => status[m] = "query-failed"
       /\ fused # {} => status[m] # "" /\ (status[m] = "ready" => stage[m] = "answered")
  /\ lists = [m \in Members |-> lists[m]] /\ ListsOK
  /\ PoolAnswerIsFused

PInv == IInv /\ CallInv /\ PoolOK

LEMMA EmptyIsList == \E n \in Nat : DOMAIN <<>> = 1 .. n
<1>1. DOMAIN <<>> = 1 .. 0 /\ 0 \in Nat
  OBVIOUS
<1> QED
  BY <1>1

LEMMA PoolInitOK == PInit => PInv
<1> SUFFICES ASSUME PInit PROVE PInv
  OBVIOUS
<1>1. Init /\ RInit
  BY DEF PInit, RInit
<1>2. IInv
  BY <1>1, InitOK
<1>3. CallInv
  <2>1. K \in Nat /\ IsFiniteSet({})
    BY RecallAssumption, FS_EmptySet
  <2> QED
    BY <1>1, <2>1 DEF RInit, CallInv, CallOK, HistoryOK, Candidating, Answering
<1>4. PoolOK
  <2>1. ListsOK
    BY <1>1, EmptyIsList DEF PInit, ListsOK, Each
  <2>2. PoolAnswerIsFused
    BY <1>1 DEF PInit, PoolAnswerIsFused, PoolAnswerIsWhole, CorroboratedComesFirst
  <2> QED
    BY <1>1, <2>1, <2>2 DEF PInit, RInit, PoolOK, Each
<1> QED
  BY <1>2, <1>3, <1>4 DEF PInv

LEMMA NoAnswerYet ==
  ASSUME fused' = {}
  PROVE  PoolAnswerIsFused'
BY DEF PoolAnswerIsFused, PoolAnswerIsWhole, CorroboratedComesFirst

LEMMA AnswerStands ==
  ASSUME UNCHANGED <<status, stage, lists, fused>>
  PROVE  (ListsOK => ListsOK') /\ (PoolAnswerIsFused => PoolAnswerIsFused')
<1>1. Heard' = Heard /\ \A t : Places(t)' = Places(t)
  BY DEF Heard, Places
<1>2. PoolAnswerIsWhole => PoolAnswerIsWhole'
  BY <1>1 DEF PoolAnswerIsWhole
<1>3. CorroboratedComesFirst => CorroboratedComesFirst'
  BY <1>1 DEF CorroboratedComesFirst
<1> QED
  BY <1>2, <1>3 DEF ListsOK, PoolAnswerIsFused

\* A step of a project's call, or of the seed's part in a Pool's, or of a writer.
LEMMA WithinOK ==
  ASSUME PInv, Within
  PROVE  PInv'
<1>1. IInv' /\ CallInv'
  BY CallStepOK, StoreStepOK DEF PInv, Within
<1>2. UNCHANGED <<asked, status, stage, lists, fused>>
  BY DEF Within, members
<1>3. /\ asked = {} => at' # "waiting"
      /\ asked # {} => at' # "idle" /\ (at' = "waiting" <=> at = "waiting")
  <2>1. CASE Filling \/ Writing
    <3>1. at' = at
      BY <2>1 DEF Filling, Fill, Writing, reader
    <3> QED
      BY <3>1 DEF PInv, PoolOK
  <2>2. CASE Reading /\ asked = {}
    <3>1. query' # {} => at' # "waiting"
      BY <1>1 DEF CallInv, CallOK
    <3>2. query' = {} => at' = "idle"
      BY <2>2
         DEF Reading, Ask, Return, Read, ReadVectors, MatchText, MatchRows, Resolve, Hydrate,
             Recent, ReadHistory, FollowLinks, ReadLinked, PInv, CallInv, CallOK
    <3> QED
      BY <2>2, <3>1, <3>2
  <2>3. CASE Reading /\ asked # {} /\ at # "answered"
    <3>1. Read /\ at # "idle"
      BY <2>3 DEF Reading, Ask, Return, PInv, PoolOK
    <3>2. query' = query /\ query # {}
      BY <3>1
         DEF Read, ReadVectors, MatchText, MatchRows, Resolve, Hydrate,
             Recent, ReadHistory, FollowLinks, ReadLinked, PInv, CallInv, CallOK
    <3>3. at \notin {"idle", "waiting"} /\ at' \notin {"idle", "waiting"}
      BY <1>1, <3>2 DEF PInv, CallInv, CallOK
    <3> QED
      BY <2>3, <3>3
  <2> QED
    BY <2>1, <2>2, <2>3 DEF Within
<1>4. PoolOK'
  <2>1. ListsOK' /\ PoolAnswerIsFused'
    BY <1>2, AnswerStands DEF PInv, PoolOK
  <2> QED
    BY <1>2, <1>3, <2>1 DEF PInv, PoolOK
<1> QED
  BY <1>1, <1>4 DEF PInv

LEMMA SeedIsMember == Seed \in Members
BY DEF Members

LEMMA AskPoolOK ==
  ASSUME PInv, NEW q \in PoolQueries, AskPool(q)
  PROVE  PInv'
<1>1. IInv'
  BY ReadersWriteNothing DEF AskPool, PInv
<1>2. CallInv'
  BY EndsOK DEF AskPool, PInv, CallInv, CallOK, answer, witnesses, Answering
<1>3. PoolOK'
  <2>1. PoolAnswerIsFused' /\ ListsOK'
    BY NoAnswerYet, EmptyIsList DEF AskPool, PInv, PoolOK, ListsOK, Each
  <2>2. asked = {} /\ fused' = {} /\ asked' = {q} /\ at' = "waiting"
    BY DEF AskPool, PInv, PoolOK
  <2>3. /\ stage' = [m \in Members |-> "planned"] /\ status' = [m \in Members |-> ""]
        /\ lists' = [m \in Members |-> <<>>]
    BY DEF AskPool, Each
  <2> QED
    BY <2>1, <2>2, <2>3 DEF PoolOK, Members
<1> QED
  BY <1>1, <1>2, <1>3 DEF PInv

LEMMA OnlyPool ==
  ASSUME PInv, UNCHANGED rvars
  PROVE  IInv' /\ CallInv' /\ at' = at
BY ReadersWriteNothing, CallStands DEF PInv, rvars, reader

LEMMA ProbeOK ==
  ASSUME PInv, NEW m \in Members, NEW c \in Conditions, Probe(m, c)
  PROVE  PInv'
<1>1. IInv' /\ CallInv' /\ at' = at
  BY OnlyPool DEF Probe
<1>2. /\ asked # {} /\ fused = {} /\ stage[m] = "planned"
      /\ UNCHANGED <<asked, stage, lists, fused>>
  BY DEF Probe, PInv, PoolOK
<1>3. \E x : status' = [status EXCEPT ![m] = x]
  BY DEF Probe
<1>4. PoolOK'
  BY <1>1, <1>2, <1>3, NoAnswerYet DEF PInv, PoolOK, ListsOK
<1> QED
  BY <1>1, <1>4 DEF PInv

LEMMA ForMemberFacts ==
  ASSUME NEW q \in PoolQueries, NEW m
  PROVE  ForMember(q, m) \in AnyQuery
<1> DEFINE how == CASE q.how = "hybrid" -> "text" [] q.how = "vector" -> "unparsed" [] OTHER -> q.how
<1>1. q \in AnyQuery
  BY PoolAssumption DEF AnyQuery
<1>2. how \in Hows
  <2>1. CASE q.how = "hybrid"
    <3>1. q.how # "vector"
      BY <2>1
    <3>2. how = "text"
      BY <2>1, <3>1, Zenon
    <3> QED
      BY <3>2 DEF Hows
  <2>2. CASE q.how = "vector"
    <3>1. q.how # "hybrid"
      BY <2>2
    <3>2. how = "unparsed"
      BY <2>2, <3>1, Zenon
    <3> QED
      BY <3>2 DEF Hows
  <2>3. CASE q.how # "hybrid" /\ q.how # "vector"
    <3>1. how = q.how
      BY <2>3, Zenon
    <3> QED
      BY <1>1, <3>1 DEF AnyQuery
  <2> QED
    BY <2>1, <2>2, <2>3
<1>3. ForMember(q, m) = IF vector[m] THEN q ELSE [q EXCEPT !.how = how]
  BY Zenon DEF ForMember
<1> HIDE DEF how
<1> QED
  BY <1>1, <1>2, <1>3 DEF AnyQuery

LEMMA QueryOK ==
  ASSUME PInv, NEW m \in Members, Query(m)
  PROVE  PInv'
<1>1. /\ asked # {} /\ status[m] = "ready" /\ stage[m] = "planned" /\ fused = {}
      /\ stage' = [stage EXCEPT ![m] = "querying"]
      /\ UNCHANGED <<asked, status, lists, fused>>
  BY DEF Query, Planned, Ready, PInv, PoolOK
<1>2. CASE m = Seed
  <2>1. PICK q \in asked :
          /\ query' = {ForMember(q, m)} /\ at' = Begins(ForMember(q, m))
          /\ limit' = MaxWrites /\ steady' = Active
          /\ UNCHANGED <<vars, vecs, hits, stale, answer>>
    BY <1>2 DEF Query
  <2>2. ForMember(q, m) \in AnyQuery
    BY ForMemberFacts DEF PInv, PoolOK
  <2>3. at = "waiting" /\ query = {}
    BY <1>1, <1>2 DEF PInv, PoolOK, CallInv, CallOK
  <2>4. IInv' /\ CallInv'
    BY <2>1, <2>2, <2>3, BeginsOK, ReadersWriteNothing, BoundAssumption DEF PInv
  <2>5. at' \notin {"idle", "waiting"}
    BY <2>1, <2>2, BeginsFacts
  <2>6. PoolOK'
    BY <1>1, <1>2, <2>5, NoAnswerYet DEF PInv, PoolOK, ListsOK
  <2> QED
    BY <2>4, <2>6 DEF PInv
<1>3. CASE m # Seed
  <2>1. IInv' /\ CallInv' /\ at' = at
    BY <1>3, OnlyPool DEF Query
  <2>2. PoolOK'
    BY <1>1, <1>3, <2>1, NoAnswerYet, SeedIsMember DEF PInv, PoolOK, ListsOK
  <2> QED
    BY <2>1, <2>2 DEF PInv
<1> QED
  BY <1>2, <1>3

\* The seed's reader ends, or another member's does.
LEMMA EndedOK ==
  ASSUME PInv, NEW m \in Members, stage[m] = "querying",
         IF m = Seed THEN SeedReturns ELSE UNCHANGED rvars
  PROVE  /\ IInv' /\ CallInv' /\ asked # {} /\ fused = {}
         /\ at' = IF m = Seed THEN "waiting" ELSE at
<1>1. asked # {} /\ fused = {}
  BY DEF PInv, PoolOK
<1>2. CASE m = Seed
  <2>1. UNCHANGED <<vars, limit>> /\ limit \in Nat
    BY <1>2 DEF SeedReturns, PInv, CallInv, CallOK
  <2>2. CallInv'
    BY <1>2, <2>1, EndsOK DEF SeedReturns, PInv
  <2> QED
    BY <1>1, <1>2, <2>1, <2>2, ReadersWriteNothing DEF SeedReturns, PInv
<1>3. CASE m # Seed
  BY <1>1, <1>3, OnlyPool
<1> QED
  BY <1>2, <1>3

LEMMA TextsAreFinite ==
  ASSUME IsFiniteSet(rows)
  PROVE  IsFiniteSet(Texts)
<1> DEFINE f == [r \in rows |-> r.uid]
<1>1. f \in Surjection(rows, Texts)
  BY DEF Surjection, Texts
<1> QED
  BY <1>1, FS_Surjection

LEMMA AnswerOK ==
  ASSUME PInv, NEW m \in Members, Answer(m)
  PROVE  PInv'
<1>1. /\ stage[m] = "querying" /\ stage' = [stage EXCEPT ![m] = "answered"]
      /\ UNCHANGED <<asked, status, fused>>
  BY DEF Answer
<1>2. /\ IInv' /\ CallInv' /\ asked # {} /\ fused = {}
      /\ at' = IF m = Seed THEN "waiting" ELSE at
  BY <1>1, EndedOK DEF Answer
<1>3. PICK s : lists' = [lists EXCEPT ![m] = s] /\ \E n \in Nat : DOMAIN s = 1 .. n
  <2>1. CASE m = Seed
    <3>1. PICK s \in SetToSeqs(Texts) : lists' = [lists EXCEPT ![m] = s]
      BY <2>1 DEF Answer
    <3>2. DOMAIN s = 1 .. Cardinality(Texts)
      BY DEF SetToSeqs
    <3>3. Cardinality(Texts) \in Nat
      BY TextsAreFinite, FS_CardinalityType DEF PInv, CallInv, CallOK
    <3> QED
      BY <3>1, <3>2, <3>3
  <2>2. CASE m # Seed
    <3>1. PICK s \in Lists : lists' = [lists EXCEPT ![m] = s]
      BY <2>2 DEF Answer
    <3>2. s \in Seq(Nat)
      BY PoolAssumption
    <3>3. Len(s) \in Nat /\ DOMAIN s = 1 .. Len(s)
      BY <3>2
    <3> QED
      BY <3>1, <3>3
  <2> QED
    BY <2>1, <2>2
<1>4. lists' = [n \in Members |-> lists'[n]] /\ ListsOK'
  BY <1>3 DEF PInv, PoolOK, ListsOK
<1>5. PoolOK'
  BY <1>1, <1>2, <1>4, NoAnswerYet, SeedIsMember DEF PInv, PoolOK
<1> QED
  BY <1>2, <1>5 DEF PInv

LEMMA FailOK ==
  ASSUME PInv, NEW m \in Members, Fail(m)
  PROVE  PInv'
<1>1. /\ stage[m] = "querying" /\ stage' = [stage EXCEPT ![m] = "failed"]
      /\ status' = [status EXCEPT ![m] = "query-failed"] /\ UNCHANGED <<asked, lists, fused>>
  BY DEF Fail
<1>2. /\ IInv' /\ CallInv' /\ asked # {} /\ fused = {}
      /\ at' = IF m = Seed THEN "waiting" ELSE at
  BY <1>1, EndedOK DEF Fail
<1>3. PoolOK'
  BY <1>1, <1>2, NoAnswerYet, SeedIsMember DEF PInv, PoolOK, ListsOK
<1> QED
  BY <1>2, <1>3 DEF PInv

LEMMA FuseOK ==
  ASSUME PInv, Fuse
  PROVE  PInv'
<1>1. IInv' /\ CallInv' /\ at' = at
  BY OnlyPool DEF Fuse
<1>2. PICK s \in Fusions : fused' = {s}
  BY DEF Fuse
<1>3. /\ asked # {} /\ UNCHANGED <<asked, status, stage, lists>>
      /\ \A m \in Members :
           /\ status[m] # ""
           /\ status[m] = "ready" => stage[m] \notin {"planned", "querying"}
  BY DEF Fuse, members, Planned, Ready
<1>4. \A m \in Members :
        status[m] # "" /\ (status[m] = "ready" <=> stage[m] = "answered")
  BY <1>3 DEF PInv, PoolOK
<1>5. /\ ToSet(s) \subseteq Heard /\ Len(s) = Cardinality(ToSet(s))
      /\ Len(s) = Min({K, Cardinality(Heard)})
  BY FusionFacts, HeardIsFinite DEF PInv, PoolOK
<1>6. Heard' = Heard
  BY <1>3 DEF Heard
<1>7. PoolAnswerIsFused'
  <2>1. PoolAnswerIsWhole'
    BY <1>2, <1>3, <1>4, <1>5, <1>6 DEF PoolAnswerIsWhole
  <2>2. CorroboratedComesFirst'
    BY <1>2, <1>3, FusionIsFair DEF PInv, PoolOK
  <2> QED
    BY <2>1, <2>2 DEF PoolAnswerIsFused
<1>8. PoolOK'
  BY <1>1, <1>3, <1>4, <1>7 DEF PInv, PoolOK, ListsOK
<1> QED
  BY <1>1, <1>8 DEF PInv

LEMMA ReturnPoolOK ==
  ASSUME PInv, ReturnPool
  PROVE  PInv'
<1>1. asked # {} /\ at = "waiting" /\ query = {}
  <2>1. asked # {} /\ stage[Seed] # "querying"
    BY DEF ReturnPool, PInv, PoolOK, Members
  <2> QED
    BY <2>1 DEF PInv, PoolOK, CallInv, CallOK
<1>2. IInv'
  BY ReadersWriteNothing DEF ReturnPool, PInv
<1>3. CallInv'
  <2>1. K \in Nat
    BY RecallAssumption
  <2> QED
    BY <1>1, <2>1, EndsOK
       DEF ReturnPool, PInv, CallInv, CallOK, answer, witnesses, Answering
<1>4. PoolOK'
  <2>1. PoolAnswerIsFused' /\ ListsOK'
    BY NoAnswerYet, EmptyIsList DEF ReturnPool, ListsOK, Each
  <2> QED
    BY <2>1 DEF ReturnPool, PoolOK, Each
<1> QED
  BY <1>2, <1>3, <1>4 DEF PInv

LEMMA PoolNextOK == PInv /\ [PNext]_pvars => PInv'
<1> SUFFICES ASSUME PInv, [PNext]_pvars PROVE PInv'
  OBVIOUS
<1>1. CASE Within
  BY <1>1, WithinOK
<1>2. CASE \E q \in PoolQueries : AskPool(q)
  BY <1>2, AskPoolOK
<1>3. CASE \E m \in Members : PoolStep(m)
  BY <1>3, ProbeOK, QueryOK, AnswerOK, FailOK DEF PoolStep
<1>4. CASE Fuse
  BY <1>4, FuseOK
<1>5. CASE ReturnPool
  BY <1>5, ReturnPoolOK
<1>6. CASE UNCHANGED pvars
  <2>1. IInv' /\ CallInv' /\ at' = at /\ UNCHANGED <<asked, status, stage, lists, fused>>
    BY <1>6, OnlyPool DEF pvars, members
  <2>2. PoolOK'
    BY <2>1, AnswerStands DEF PInv, PoolOK
  <2> QED
    BY <2>1, <2>2 DEF PInv
<1> QED
  BY <1>1, <1>2, <1>3, <1>4, <1>5, <1>6 DEF PNext

LEMMA PoolInvariance == PSpec => []PInv
BY PoolInitOK, PoolNextOK, PTL DEF PSpec

\* QuietRecallIsCurrentTruth: a recall nobody writes beside answers with what the notes
\* that match have come to be replaced by, and with nothing else (server.py:583).
THEOREM QuietRecallIsCurrentTruthTheorem == PSpec => []QuietRecallIsCurrentTruth
<1>1. PInv => QuietRecallIsCurrentTruth
  BY DEF PInv, CallInv, AloneOK, QuietRecallIsCurrentTruth, Answering
<1> QED
  BY <1>1, PoolInvariance, PTL

\* SteadyNotesAreFound: whatever others replace, forget, delete or merge between its
\* SELECTs, a recall finds every matching note that stays as it is.
THEOREM SteadyNotesAreFoundTheorem == PSpec => []SteadyNotesAreFound
<1>1. PInv => SteadyNotesAreFound
  BY DEF PInv, CallInv, SteadyOK, SteadyNotesAreFound, Answering
<1> QED
  BY <1>1, PoolInvariance, PTL

\* HistoryIsAncestry: what an answer says it replaced had been replaced by it, unless a
\* row was deleted during the call (store.py:2428).
THEOREM HistoryIsAncestryTheorem == PSpec => []HistoryIsAncestry
<1>1. PInv => HistoryIsAncestry
  BY DEF PInv, CallInv, HistoryOK, HistoryIsAncestry
<1> QED
  BY <1>1, PoolInvariance, PTL

\* PoolAnswerIsFused: whatever becomes of its members, a Pool's answer holds texts of the
\* members called ready, each once and as many as there is room for; a member that was
\* planned but not heard is not called ready (federate.py:36); and what several members
\* hold comes before what one of them holds no better placed (federate.py:26).
THEOREM PoolAnswerIsFusedTheorem == PSpec => []PoolAnswerIsFused
<1>1. PInv => PoolAnswerIsFused
  BY DEF PInv, PoolOK
<1> QED
  BY <1>1, PoolInvariance, PTL

=============================================================================
