--------------------------- MODULE LegacyRecoveryMC ---------------------------
(* Two projects and a small shared database. *)
EXTENDS LegacyRecovery, TLC

Note(uid, status, sb, vec, rev) ==
  [uid |-> uid, status |-> status, sb |-> sb, vec |-> vec, rev |-> rev]
Row(owner, pooled, note) ==
  [owner |-> owner, pooled |-> pooled, uid |-> note.uid, status |-> note.status,
   sb |-> note.sb, vec |-> note.vec, rev |-> note.rev]

\* Project 1 has a note and its replacement, with a link, and a pooled document; row 4
\* is of nobody; project 2 has a note without an embedding.
MCShared ==
  [notes |-> << Row(1, Null, Note("u", "superseded", 2, "old", 2)),
                Row(1, 1, Note("v", "active", Null, "old", 1)),
                Row(2, Null, Note("w", "active", Null, None, 1)),
                Row(1, 2, Note("x", "active", Null, "old", 1)) >>,
   links |-> {<<1, 2>>, <<2, 3>>},
   docs |-> << [owner |-> 1, pooled |-> 1, key |-> "d", hash |-> "h", born |-> "shared"] >>]

\* Later somebody forgets a note in it.
MCLegacies == << MCShared, [MCShared EXCEPT !.notes[2].status = "tombstoned"] >>

\* The second project may hold the original of its pooled note, which it has merged.
MCStores ==
  (1 :> {Absent}) @@
  (2 :> {Absent,
         [EmptyStore EXCEPT !.notes = (1 :> Note("w", "tombstoned", 2, None, 2)) @@
                                      (2 :> Note("k", "active", Null, None, 1)),
                            !.merges = {<<1, 2>>}]})

\* The instance is one that OnlyDivergenceRejects is proved of.
ASSUME InstanceIsWhole == LegacyIsWhole
=============================================================================
