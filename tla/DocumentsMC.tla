------------------------------- MODULE DocumentsMC -------------------------------
(* Two documents of one to three chunks out of two texts: one has the words of the  *)
(* query, the other is nearer to it.                                                *)
EXTENDS Documents

CONSTANTS k1, k2, a, b

MCVersions == {<<a>>, <<b>>, <<a, b>>, <<b, b, a>>}
MCNear == [t \in {a, b} |-> IF t = b THEN 2 ELSE 1]
MCMatching == {a}
MCVerbatim == {a}
=============================================================================
