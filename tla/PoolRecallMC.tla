----------------------------- MODULE PoolRecallMC -----------------------------
(* A Pool of two: the connected project and one other.  Texts are near unless their  *)
(* numbers add up to a multiple of three; texts 1 and 3 are the same.               *)
EXTENDS PoolRecall

MCNear == {p \in Uids \X Uids : (p[1] + p[2]) % 3 # 0}
MCSame == {p \in Uids \X Uids : p[1] = p[2] \/ p[1] + p[2] = 4}

Asks(how, all, close, says) == [how |-> how, all |-> all, close |-> close, says |-> says]

MCQueries ==
  {Asks("hybrid", FALSE, Uids, {1}),
   Asks("hybrid", TRUE, {1}, {2}), Asks("text", FALSE, {}, {1, 2}),
   Asks("text", TRUE, {}, {1})}

\* A member that the vector does not fit is asked for its newest notes.
MCPoolQueries == {Asks("vector", FALSE, Uids, {})}
MCLists == {<<>>, <<1>>, <<9, 1>>, <<2, 9>>}
=============================================================================
