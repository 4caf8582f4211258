-------------------------- MODULE NoteStoreHistory --------------------------
(***************************************************************************)
(* NoteStore with observers of the latest merge job: what the notes were   *)
(* when it planned, whether only it has written since, and whether any row *)
(* was ever deleted.  The observers read the store and never constrain it. *)
(***************************************************************************)
EXTENDS NoteStoreProperties

VARIABLES
  before,  \* the notes when the latest merge job planned, while quiet
  quiet,   \* no writer but that job has committed since
  run,     \* the operation that job opened
  purged   \* some note row has been deleted

observers == <<before, quiet, run, purged>>
hvars == <<vars, observers>>

Nothing == [n \in {} |-> NULL]

HInit == Init /\ before = Nothing /\ quiet = FALSE /\ run = NULL /\ purged = FALSE

Disturbed == before' = Nothing /\ quiet' = FALSE /\ run' = NULL

Watched ==
  \/ /\ \E kind \in Kinds : PlanMerge(kind)
     /\ before' = notes /\ quiet' = TRUE /\ run' = NULL
  \/ BeginOperation /\ run' = op' /\ UNCHANGED <<before, quiet>>
  \/ /\ MergeCluster \/ FinishMerge \/ PlanReembed \/ PlanExpiry \/ AbortJob
     /\ UNCHANGED <<before, quiet, run>>
  \/ WriteEmbeddings /\ Disturbed
  \/ ApplyExpiry /\ Disturbed
  \/ FreeWrite /\ Disturbed
  \/ LockedWrite /\ Disturbed

HNext == Watched /\ purged' = (purged \/ ~(DOMAIN notes \subseteq DOMAIN notes'))

HSpec == HInit /\ [][HNext]_hvars

\* The operation of the latest merge job, while nobody else has written.
Undisturbed == quiet /\ run \in DOMAIN ops /\ ~ops[run].undone

\* undo_operation "restores each note's snapshotted deleted_at/superseded_by,
\* and tombstones any note the operation CREATED" (store.py:2125): as long as
\* nobody else wrote, undoing gives back exactly the rows the job found and
\* leaves none of its own alive.  Checked at every step of the job, so also
\* for an operation whose job died after some of its clusters.
QuietUndoIsExact ==
  Undisturbed =>
    LET after == Undone(notes, ops[run].recs)
    IN  /\ ForeignKeysHold(after)
        /\ \A n \in DOMAIN before : n \in DOMAIN after /\ after[n] = before[n]
        /\ \A n \in DOMAIN after \ DOMAIN before : after[n].status = "tombstoned"

\* "a crash mid-cluster could leave a live synthesis with live sources, or a
\* synthesis absent from the op-log" (store.py:1941): with one transaction per
\* cluster, whatever the job replaced is replaced by a live row of its own,
\* and every row of its own is logged as created.
QuietMergeIsWhole ==
  Undisturbed =>
    /\ \A n \in DOMAIN before :
         notes[n].sb # before[n].sb =>
           /\ notes[n].sb \in DOMAIN notes \ DOMAIN before
           /\ notes[notes[n].sb].status = "active"
    /\ \A n \in DOMAIN notes \ DOMAIN before :
         \E r \in ops[run].recs : r.note = n /\ r.action = "created"

\* What undo can promise of a merge nobody has disturbed.
QuietOperationIsExact == QuietUndoIsExact /\ QuietMergeIsWhole

\* A note a merge retired comes back only by undoing that merge: as long as no
\* row id was ever freed, no other operation's undo, in whatever order they are
\* undone, brings it back next to its replacement.
MergedStaysRetired ==
  ~purged =>
    \A o \in DOMAIN ops : ~ops[o].undone =>
      \A r \in ops[o].recs :
        r.action # "created" => notes[r.note].status = "tombstoned"

\* A stored vector is the vector of the row's own text, although reembed-notes
\* computes it from a read made before its transaction; again as long as no
\* row id was freed in between.
VectorMatchesText ==
  ~purged => \A n \in DOMAIN notes : notes[n].vec \in {NULL, notes[n].uid}
=============================================================================
