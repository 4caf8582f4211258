-------------------------------- MODULE Recall --------------------------------
(***************************************************************************)
(* SqliteStore.recall beside the writers of NoteStore.  A call is several  *)
(* SELECTs, each a snapshot of its own; between two of them notes are      *)
(* replaced, forgotten and deleted, and the ids of deleted rows reused.    *)
(*                                                                         *)
(* Abstracted: a query is the sets of texts it comes close to and of texts *)
(* it matches; ranks, scores, confidence and age only order the rows, so   *)
(* any order may come out, and a LIMIT keeps any rows of its number.  The  *)
(* limit of candidates, at least 30, is taken to exceed the notes there    *)
(* are.  Notes of one project: its clause selects all of them.             *)
(***************************************************************************)
EXTENDS NoteStore

CONSTANTS
  K,         \* notes asked for
  MaxHops,   \* _SUPERSEDE_MAX_HOPS
  Expand,    \* _LINK_EXPAND
  Same,      \* pairs of texts whose vectors exceed _DEDUP_COSINE
  Queries,   \* the queries asked
  Excerpts   \* texts of the chunks that the chunk fallback finds relevant

\* hybrid: a vector and a text; vector: a text that FTS5 refuses; text: no vector,
\* as the embedder is down; unparsed: neither; recency: no text at all.
\* all: include_superseded.
Hows == {"hybrid", "vector", "text", "unparsed", "recency"}

ASSUME RecallAssumption ==
  /\ K \in Nat \ {0} /\ MaxHops \in Nat \ {0} /\ Expand \in Nat
  /\ Same \subseteq Uids \X Uids
  /\ Queries \subseteq [how : Hows, all : BOOLEAN, close : SUBSET Uids, says : SUBSET Uids]

VARIABLES
  query,   \* the query of the call, {} when there is none
  at,      \* the SELECT it comes to next
  limit,   \* how many notes this call may return
  vecs,    \* id_to_vec: the vectors it has read
  hits,    \* the ids it has found; after the resolution, the ids they stand for
  stale,   \* resolved_from: pairs of an id found and the id it stands for
  rows,    \* the notes of the answer, as hydrated
  history, \* pairs of texts: what a note of the answer says it replaced
  want,    \* the linked ids it still has to look up
  also,    \* the linked notes and the excerpts it adds
  alone,   \* no writer has committed since the call began
  freed,   \* a row has been deleted since
  steady,  \* the notes active at its beginning whose rows have not changed since
  ancestry \* pairs of texts: what each had been replaced by when it resolved

answer == <<rows, history, want, also>>
reader == <<query, at, limit, vecs, hits, stale, answer>>
witnesses == <<alone, freed, steady, ancestry>>
rvars == <<vars, reader, witnesses>>

Blank == [n \in {} |-> NULL]
Active == {n \in DOMAIN notes : notes[n].status = "active"}
Living == {n \in DOMAIN notes : notes[n].status # "tombstoned"}

UsesVector(q) == q.how \in {"hybrid", "vector"}
UsesText(q) == q.how \in {"hybrid", "text"}

RTypeOK ==
  /\ query \subseteq Queries
  /\ at \in {"idle", "vectors", "text", "resolve", "hydrate", "recent", "history",
             "links", "linked", "answered", "waiting"}
  /\ hits \cup want \subseteq NoteIds
  /\ rows \subseteq [id : NoteIds, uid : Uids, vec : Uids \cup {NULL}]

-----------------------------------------------------------------------------

\* The end of the supersession chain, or as far as the hops go.
Resolved(n) ==
  LET node[i \in 0 .. MaxHops] ==
        IF i = 0 THEN n
        ELSE IF notes[node[i - 1]].sb = NULL THEN node[i - 1] ELSE notes[node[i - 1]].sb
  IN  node[MaxHops]

\* _resolve_supersession; an id whose row is gone stands for itself.
Replacement(n) == IF n \in DOMAIN notes THEN Resolved(n) ELSE n

Row(n) ==
  [id |-> n, uid |-> notes[n].uid, vec |-> IF n \in DOMAIN vecs THEN vecs[n] ELSE NULL]

\* Two rows that the deduplication does not keep together.
Alike(r, s) == r.vec # NULL /\ s.vec # NULL /\ <<r.vec, s.vec>> \in Same

\* The ids that are hydrated into rows: current truth, or all that is not deleted.
Hydrated(S, q) == {Row(n) : n \in S \cap IF q.all THEN Living ELSE Active}

\* LIMIT: as many as may be, and no more.
Cut(S) ==
  {T \in SUBSET S : Cardinality(T) <= limit /\ (T # S => Cardinality(T) = limit)}

\* Distinct mutated: the limit is applied before the deduplication.
DistinctOfFew(S) ==
  UNION {{U \in SUBSET T :
            /\ \A r, s \in U : r # s => ~Alike(r, s)
            /\ \A r \in T \ U : \E s \in U : Alike(r, s)} : T \in Cut(S)}

\* The greedy walk that drops what is alike to a row kept, up to the limit.
Distinct(S) ==
  {T \in SUBSET S :
     /\ Cardinality(T) <= limit
     /\ \A r, s \in T : r # s => ~Alike(r, s)
     /\ Cardinality(T) < limit => \A r \in S \ T : \E s \in T : Alike(r, s)}

Begins(q) ==
  CASE UsesVector(q) -> "vectors"
    [] q.how = "text" -> "text"
    [] OTHER -> "recent"

\* A call: recall_notes for one project.
Ask(q) ==
  /\ at = "idle"
  /\ query' = {q}
  /\ at' = Begins(q)
  /\ limit' = K
  /\ UNCHANGED <<vecs, hits, stale, answer>>

\* What follows the candidates: a hybrid recall without any falls back to the newest
\* notes, a keyword recall has its answer.
AfterHits(q, found) ==
  CASE found # {} -> IF q.all THEN "hydrate" ELSE "resolve"
    [] found = {} /\ UsesVector(q) -> "recent"
    [] OTHER -> "answered"

\* Either fusion of two ranked lists keeps all that one of them has.
Fused(S, T) == S \cup T

ReadVectors(q) ==
  /\ q \in query /\ at = "vectors"
  /\ vecs' = [n \in {m \in Living : notes[m].vec # NULL} |-> notes[n].vec]
  /\ hits' = {n \in DOMAIN vecs' : vecs'[n] \in q.close}
  /\ at' = IF UsesText(q) THEN "text" ELSE AfterHits(q, hits')
  /\ UNCHANGED <<query, limit, stale, answer>>

\* MatchText mutated: superseded notes are left out of the candidates.
MatchCurrentText(q) ==
  /\ q \in query /\ at = "text"
  /\ UsesVector(q) \/ ~q.all
  /\ hits' = Fused(hits, {n \in Active : notes[n].uid \in q.says})
  /\ at' = AfterHits(q, hits')
  /\ UNCHANGED <<query, limit, vecs, stale, answer>>

MatchText(q) ==
  /\ q \in query /\ at = "text"
  /\ UsesVector(q) \/ ~q.all
  /\ hits' = Fused(hits, {n \in Living : notes[n].uid \in q.says})
  /\ at' = AfterHits(q, hits')
  /\ UNCHANGED <<query, limit, vecs, stale, answer>>

\* Resolve mutated: every other hit is put down to a replacement that comes up.
ResolveBlurred(q) ==
  /\ q \in query /\ at = "resolve"
  /\ stale' = {<<p[1], Replacement(p[2])>> : p \in
                 {p \in hits \X hits : Replacement(p[2]) \notin {p[1], p[2]}}}
  /\ hits' = {Replacement(n) : n \in hits}
  /\ at' = "hydrate"
  /\ UNCHANGED <<query, limit, vecs, answer>>

\* _resolve_supersession and _apply_resolution.
Resolve(q) ==
  /\ q \in query /\ at = "resolve"
  /\ stale' = {<<n, Replacement(n)>> : n \in {h \in hits : Replacement(h) # h}}
  /\ hits' = {Replacement(n) : n \in hits}
  /\ at' = "hydrate"
  /\ UNCHANGED <<query, limit, vecs, answer>>

StaleOf(r) == {p[1] : p \in {s \in stale : s[2] = r.id}}

AfterRows(found) ==
  IF \E r \in found : StaleOf(r) # {} THEN "history"
  ELSE IF found # {} /\ Expand > 0 THEN "links" ELSE "answered"

Hydrate(q) ==
  /\ q \in query /\ at = "hydrate"
  /\ LET found == Hydrated(hits, q)
     IN  rows' \in IF UsesVector(q) THEN Distinct(found) ELSE Cut(found)
  /\ at' = AfterRows(rows')
  /\ vecs' = Blank /\ hits' = {}
  /\ UNCHANGED <<query, limit, stale, history, want, also>>

Recent(q) ==
  /\ q \in query /\ at = "recent"
  /\ rows' \in Cut(Hydrated(DOMAIN notes, q))
  /\ at' = AfterRows(rows')
  /\ vecs' = Blank
  /\ UNCHANGED <<query, limit, hits, stale, history, want, also>>

\* A keyword recall of superseded notes too is one SELECT.
MatchRows(q) ==
  /\ q \in query /\ at = "text"
  /\ q.how = "text" /\ q.all
  /\ rows' \in Cut({r \in Hydrated(DOMAIN notes, q) : r.uid \in q.says})
  /\ at' = AfterRows(rows')
  /\ UNCHANGED <<query, limit, vecs, hits, stale, history, want, also>>

\* _note_history: whatever is found now under the ids that were resolved.
ReadHistory ==
  /\ at = "history"
  /\ history' = UNION {{<<notes[n].uid, r.uid>> : n \in StaleOf(r) \cap DOMAIN notes} :
                         r \in rows}
  /\ at' = IF Expand > 0 THEN "links" ELSE "answered"
  /\ stale' = {}
  /\ UNCHANGED <<query, limit, vecs, hits, rows, want, also>>

\* _maybe_expand_links: the heaviest links that lead out of the answer,
FollowLinks ==
  LET ids == {r.id : r \in rows}
      out == {l[2] : l \in {l \in links : l[1] \in ids}} \ ids
  IN  /\ at = "links"
      /\ want' \in {T \in SUBSET out : Cardinality(T) <= Expand
                                         /\ (T # out => Cardinality(T) = Expand)}
      /\ at' = IF want' = {} THEN "answered" ELSE "linked"
      /\ UNCHANGED <<query, limit, vecs, hits, stale, rows, history, also>>

\* and those of their ends that are current.
ReadLinked ==
  /\ at = "linked"
  /\ also' = {notes[n].uid : n \in want \cap Active}
  /\ want' = {}
  /\ at' = "answered"
  /\ UNCHANGED <<query, limit, vecs, hits, stale, rows, history>>

Texts == {r.uid : r \in rows}

\* _chunk_fallback: excerpts fill what is missing, and repeat no note.
Fill(q) ==
  LET new == Excerpts \ (Texts \cup also)
      missing == limit - Cardinality(rows) - Cardinality(also)
  IN  /\ q \in query /\ at = "answered"
      /\ q.how # "recency" /\ ~q.all
      /\ missing > 0 /\ new # {}
      /\ also' \in {also \cup T : T \in {T \in SUBSET new :
                      Cardinality(T) <= missing /\ (T # new => Cardinality(T) = missing)}}
      /\ UNCHANGED <<query, at, limit, vecs, hits, stale, rows, history, want>>

Return ==
  /\ at = "answered"
  /\ query' = {} /\ at' = "idle"
  /\ vecs' = Blank /\ hits' = {} /\ stale' = {}
  /\ rows' = {} /\ history' = {} /\ want' = {} /\ also' = {}
  /\ UNCHANGED limit

-----------------------------------------------------------------------------

\* What a note was replaced by in the end, by definition: the smallest set with it
\* that is closed under superseded_by.
Line(n) ==
  {m \in DOMAIN notes : \A S \in SUBSET DOMAIN notes :
     (n \in S /\ \A x \in S : notes[x].sb # NULL => notes[x].sb \in S) => m \in S}

Ancestry ==
  UNION {{<<notes[n].uid, notes[m].uid>> : m \in Line(n) \ {n}} : n \in DOMAIN notes}

RInit ==
  /\ Init
  /\ query = {} /\ at = "idle" /\ limit = K
  /\ vecs = Blank /\ hits = {} /\ stale = {}
  /\ rows = {} /\ history = {} /\ want = {} /\ also = {}
  /\ alone = FALSE /\ freed = FALSE /\ steady = {} /\ ancestry = {}

Read ==
  \/ \E q \in query :
       \/ ReadVectors(q) \/ MatchText(q) \/ MatchRows(q) \/ Resolve(q)
       \/ Hydrate(q) \/ Recent(q)
  \/ ReadHistory \/ FollowLinks \/ ReadLinked

\* A step of the call.
Reading ==
  /\ UNCHANGED vars
  /\ \/ /\ \E q \in Queries : Ask(q)
        /\ alone' = TRUE /\ steady' = Active /\ UNCHANGED <<freed, ancestry>>
     \/ /\ Read
        /\ ancestry' = IF at = "resolve" THEN Ancestry ELSE ancestry
        /\ UNCHANGED <<alone, freed, steady>>
     \/ /\ Return
        /\ alone' = FALSE /\ freed' = FALSE /\ steady' = {} /\ ancestry' = {}

\* recall_notes adds the excerpts.
Filling == (\E q \in query : Fill(q)) /\ UNCHANGED <<vars, witnesses>>

\* A step of anybody else; a merge that has no id for its operation is not begun.
Writing ==
  /\ Next
  /\ MaxOps = 0 => lock' \notin Kinds
  /\ IF at = "idle" THEN UNCHANGED witnesses
     ELSE /\ alone' = (alone /\ UNCHANGED <<notes, links>>)
          /\ freed' = (freed \/ ~(DOMAIN notes \subseteq DOMAIN notes'))
          /\ steady' = {n \in steady : n \in DOMAIN notes' /\ notes'[n] = notes[n]}
          /\ UNCHANGED ancestry
  /\ UNCHANGED reader

RNext == Reading \/ Filling \/ Writing

RSpec == RInit /\ [][RNext]_rvars

-----------------------------------------------------------------------------

\* The notes a query is about.
Matches(q) ==
  {n \in Living : \/ UsesVector(q) /\ notes[n].vec \in q.close
                  \/ UsesText(q) /\ notes[n].uid \in q.says}

\* A note is in the answer, or it is full, or has one of the same meaning.
Answered(q, n) ==
  \/ \E r \in rows : r.id = n
  \/ Cardinality(rows) = limit
  \/ UsesVector(q) /\ \E r \in rows : r.vec # NULL /\ <<notes[n].vec, r.vec>> \in Same

\* An answer is what all that matches has come to be replaced by, at any distance
\* within the hops, and nothing else; without a match, the newest notes.
IsCurrentTruth(q) ==
  LET current == (UNION {Line(n) : n \in Matches(q)}) \cap Active
      near == {n \in current : \E m \in Matches(q) :
                 n \in Line(m) /\ Cardinality(Line(m)) <= MaxHops + 1}
  IN  /\ \A n \in near : Answered(q, n)
      /\ Matches(q) # {} \/ q.how = "text" => {r.id : r \in rows} \subseteq current
      /\ Matches(q) = {} /\ q.how # "text" =>
           Cardinality(rows) = limit \/ {r.id : r \in rows} = Active

\* "a superseded note never comes back as the answer -- if the query matches its
\* wording, the note that REPLACED it is returned instead" (server.py:583): as long
\* as nobody writes during the call; only a hybrid recall that matches nothing
\* answers with the newest notes.
QuietRecallIsCurrentTruth ==
  at = "answered" /\ alone => \A q \in query : ~q.all => IsCurrentTruth(q)

\* A note that is current all through the call and matches the query is found,
\* whatever others replace, forget, delete or merge meanwhile.
SteadyNotesAreFound ==
  at = "answered" =>
    \A q \in query : \A n \in steady \cap Matches(q) : Answered(q, n)

\* What an answer says it replaced ("so a consumer can see WHAT the current answer
\* replaced", store.py:2428) had been replaced by it, as long as no row id was freed
\* during the call.
HistoryIsAncestry == at = "answered" /\ ~freed => history \subseteq ancestry
=============================================================================
