------------------------- MODULE NoteStoreHistoryMC -------------------------
(* NoteStoreHistory on small instances: two texts out of three are near. *)
EXTENDS NoteStoreHistory

MCNear == {p \in Uids \X Uids : (p[1] + p[2]) % 3 # 0}
=============================================================================
