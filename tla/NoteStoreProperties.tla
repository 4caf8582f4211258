------------------------- MODULE NoteStoreProperties -------------------------
(***************************************************************************)
(* What the note tables promise, whoever wrote last.                       *)
(***************************************************************************)
EXTENDS NoteStore

\* `status` is the liveness authority and the two provenance columns are "kept
\* in sync by every write path" (schema.py:150): the status of every row is the
\* one its provenance implies, through merges, undo and purges.
StatusAgrees ==
  \A n \in DOMAIN notes :
    notes[n].status = StatusOf(notes[n].deleted, notes[n].sb)

\* A replacement is a later row than what it replaces, also after undo has
\* restored old pointers and row ids have been reused: following superseded_by
\* never goes back, so a chain can only end or stay on one row.
SupersessionForward ==
  \A n \in DOMAIN notes : notes[n].sb # NULL => notes[n].sb >= n

\* superseded_by never points at a row that is gone: hard forget, retention
\* and clear unlink before they delete, and undo never restores such a pointer.
NoDanglingSupersession == ForeignKeysHold(notes)
=============================================================================
