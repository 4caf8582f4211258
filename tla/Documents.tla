-------------------------------- MODULE Documents --------------------------------
(***************************************************************************)
(* The documents of one project, their chunks, the full-text index over    *)
(* the chunks, and two readers: a search, of three statements, and the     *)
(* fetch of a document, of two.  Writers are builds, clears and            *)
(* reconciliations, one at a time under the mutation lock, each in one     *)
(* transaction; readers take no lock and see every commit between two of   *)
(* their statements, so that one of them at a time says it all.            *)
(*                                                                         *)
(* bc_chunks_fts keeps no text of its own (content='bc_chunks'): what a    *)
(* deletion takes out of it is what the chunk's row says at that time.     *)
(*                                                                         *)
(* Abstracted: a version of a document is the sequence of its chunks'      *)
(* texts, which its hash and title stand for; an embedding is that of its  *)
(* text.  fetch_k (at least 30) is above the number of chunks, the         *)
(* reranker is off (its default).                                          *)
(***************************************************************************)
EXTENDS Naturals, Sequences, FiniteSetsExt, Functions

CONSTANTS
  Keys,      \* doc_key's
  Texts,     \* texts of chunks
  Versions,  \* the versions a document may have
  Near,      \* Near[t]: the cosine of t and the query
  Matching,  \* the texts that hold the words of the query
  Verbatim,  \* those that hold the query as it is written
  K,         \* results asked for
  MaxWrites  \* bound on the changes

ASSUME DocumentsAssumption ==
  /\ Versions \subseteq Seq(Texts) \ {<<>>}
  /\ Near \in [Texts -> Nat]
  /\ Verbatim \subseteq Texts /\ Matching \subseteq Texts
  /\ K \in Nat \ {0} /\ MaxWrites \in Nat

VARIABLES
  docs,   \* bc_documents: by row id, the key and the version
  chunks, \* bc_chunks: by row id, the document's id, the index and the text
  index,  \* bc_chunks_fts: <<text, row id>>
  search, \* the search under way, and what came of it
  fetch,  \* the document being fetched, and what came of it
  writes

vars == <<docs, chunks, index, search, fetch, writes>>

Empty == [x \in {} |-> {}]
Modes == {"semantic", "keyword", "hybrid"}
NoSearch == [stage |-> "idle", mode |-> "hybrid", words |-> {}, near |-> Empty,
             lexical |-> {}, ranked |-> {}, hits |-> {}, touched |-> {}]
NoFetch == [stage |-> "idle", key |-> CHOOSE k \in Keys : TRUE, doc |-> 0,
            texts |-> <<>>, versions |-> {}, gone |-> FALSE]

TypeOK ==
  /\ \A d \in DOMAIN docs : docs[d] \in [key : Keys, version : Versions]
  /\ \A c \in DOMAIN chunks : chunks[c] \in [doc : DOMAIN docs, index : Nat, text : Texts]
  /\ index \subseteq Texts \X Nat
  /\ search.stage \in {"idle", "asked", "compared", "ranked", "answered"}
  /\ fetch.stage \in {"idle", "found", "answered"}

-----------------------------------------------------------------------------

\* INTEGER PRIMARY KEY without AUTOINCREMENT: one above the highest id in use.
NextId(table) == IF DOMAIN table = {} THEN 1 ELSE Max(DOMAIN table) + 1

\* A table with the rows of another one added to it.
Overlaid(new, kept) ==
  [c \in DOMAIN new \cup DOMAIN kept |-> IF c \in DOMAIN new THEN new[c] ELSE kept[c]]

RowsOf(key) == {d \in DOMAIN docs : docs[d].key = key}
ChunksOf(ds) == {c \in DOMAIN chunks : chunks[c].doc \in ds}
Indexed(table) == {<<table[c].text, c>> : c \in DOMAIN table}

\* What is left of the index when the rows cs of the table are deleted from it.
Unindexed(table, cs) == index \ {<<table[c].text, c>> : c \in cs \cap DOMAIN table}

\* The rows of a new version, with ids after those of the table.
Inserted(table, d, v) ==
  LET first == NextId(table)
  IN  [c \in first..(first + Len(v) - 1) |->
         [doc |-> d, index |-> c - first + 1, text |-> v[c - first + 1]]]

\* document_is_current: the hash, and as many chunks as the version has.
IsCurrent(key, v) ==
  \E d \in RowsOf(key) : docs[d].version = v /\ Cardinality(ChunksOf({d})) = Len(v)

\* What nobody tells the reader under way; an answer is looked at once.
Disturb(keys, v) ==
  /\ search' = IF search.stage \in {"idle", "answered"} THEN NoSearch
               ELSE [search EXCEPT !.touched = @ \cup keys]
  /\ fetch' = IF fetch.stage \in {"idle", "answered"} THEN NoFetch
              ELSE IF fetch.key \notin keys THEN fetch
              ELSE IF v = <<>> THEN [fetch EXCEPT !.gone = TRUE]
              ELSE [fetch EXCEPT !.versions = @ \cup {v}]

\* Rewritten mutated: the rows go first.
RewrittenRowsFirst(d, v) ==
  LET old == ChunksOf({d})
      kept == Restrict(chunks, DOMAIN chunks \ old)
      new == Inserted(kept, d, v)
  IN  [chunks |-> Overlaid(new, kept), index |-> Unindexed(kept, old) \cup Indexed(new)]

\* Rewritten mutated: only as many of the old rows go as there are new ones.
RewrittenWithTail(d, v) ==
  LET old == {c \in ChunksOf({d}) : chunks[c].index <= Len(v)}
      kept == Restrict(chunks, DOMAIN chunks \ old)
      new == Inserted(kept, d, v)
  IN  [chunks |-> Overlaid(new, kept), index |-> Unindexed(chunks, old) \cup Indexed(new)]

\* The index and the chunks after the document in row d has been rewritten as v: the
\* index's entries go first, while the rows still say what they are.
Rewritten(d, v) ==
  LET old == ChunksOf({d})
      kept == Restrict(chunks, DOMAIN chunks \ old)
      new == Inserted(kept, d, v)
  IN  [chunks |-> Overlaid(new, kept), index |-> Unindexed(chunks, old) \cup Indexed(new)]

\* replace_document
Replace(key, v) ==
  LET d == IF RowsOf(key) = {} THEN NextId(docs) ELSE CHOOSE r \in RowsOf(key) : TRUE
  IN  /\ writes < MaxWrites /\ writes' = writes + 1
      /\ ~IsCurrent(key, v)
      /\ docs' = [r \in DOMAIN docs \cup {d} |->
                    IF r = d THEN [key |-> key, version |-> v] ELSE docs[r]]
      /\ chunks' = Rewritten(d, v).chunks
      /\ index' = Rewritten(d, v).index
      /\ Disturb({key}, v)

\* A clear or a reset of the embedding space takes all documents, a reconciliation
\* those it has copied to another project; the index is built anew from what is left.
Delete(keys) ==
  LET rows == UNION {RowsOf(key) : key \in keys}
      kept == Restrict(chunks, DOMAIN chunks \ ChunksOf(rows))
  IN  /\ rows # {}
      /\ writes < MaxWrites /\ writes' = writes + 1
      /\ docs' = Restrict(docs, DOMAIN docs \ rows)
      /\ chunks' = kept
      /\ index' = Indexed(kept)
      /\ Disturb(keys, <<>>)

-----------------------------------------------------------------------------
(* Search *)

Ready == search.stage \in {"idle", "answered"} /\ fetch.stage \in {"idle", "answered"}
Reading == <<docs, chunks, index, writes>>

\* Without an embedder a hybrid search is a keyword search.
Ask(mode) ==
  /\ Ready
  /\ search' = [NoSearch EXCEPT !.stage = IF mode = "keyword" THEN "compared" ELSE "asked",
                                !.mode = mode]
  /\ fetch' = NoFetch
  /\ UNCHANGED Reading

\* _vector_search: every chunk that has an embedding.
CompareVectors ==
  /\ search.stage = "asked"
  /\ search' = [search EXCEPT !.stage = "compared",
                              !.near = [c \in DOMAIN chunks |-> Near[chunks[c].text]]]
  /\ UNCHANGED <<Reading, fetch>>


\* What a statement of full-text search finds: the index's entries that still have a
\* row; when it refuses the query, the rows that hold the query as it is.
Lexical(accepted) ==
  IF accepted THEN {e[2] : e \in {f \in index : f[1] \in Matching /\ f[2] \in DOMAIN chunks}}
  ELSE {c \in DOMAIN chunks : chunks[c].text \in Verbatim}

\* A hit that is nearer, and has the words where the other has not, is before it in
\* either fusion of the two lists.
Before(c, e, lexical) ==
  /\ {c, e} \subseteq DOMAIN search.near
  /\ search.near[c] > search.near[e]
  /\ search.mode = "hybrid" => c \in lexical /\ e \notin lexical

\* The first k of what was found, by a ranking that is otherwise left open.
FirstOf(found, lexical) ==
  {top \in SUBSET found :
     /\ Cardinality(top) = IF Cardinality(found) < K THEN Cardinality(found) ELSE K
     /\ \A c \in found \ top, e \in top : ~Before(c, e, lexical)}

\* _fts_search, or _like_search when MATCH raises; then the ranks.
MatchWords(accepted) ==
  /\ search.stage = "compared"
  /\ LET lexical == IF search.mode = "semantic" THEN {} ELSE Lexical(accepted)
     IN  \E top \in FirstOf(DOMAIN search.near \cup lexical, lexical) :
           search' = [search EXCEPT !.stage = "ranked",
                                    !.words = IF accepted THEN Matching ELSE Verbatim,
                                    !.lexical = lexical, !.ranked = top]
  /\ UNCHANGED <<Reading, fetch>>

\* _hydrate_hits: the rows that have these ids by now, with the scores of then.
Hydrate ==
  /\ search.stage = "ranked"
  /\ search' = [search EXCEPT !.stage = "answered",
       !.hits = {[id |-> c, text |-> chunks[c].text, key |-> docs[chunks[c].doc].key,
                  near |-> IF c \in DOMAIN search.near THEN {search.near[c]} ELSE {},
                  matched |-> c \in search.lexical] :
                 c \in search.ranked \cap DOMAIN chunks}]
  /\ UNCHANGED <<Reading, fetch>>

-----------------------------------------------------------------------------
(* get_document *)

FindRow(key) ==
  /\ Ready
  /\ \E d \in RowsOf(key) :
       fetch' = [NoFetch EXCEPT !.stage = "found", !.key = key, !.doc = d,
                                !.versions = {docs[d].version}]
  /\ search' = NoSearch
  /\ UNCHANGED Reading

\* The ways to order chunks by their index.
Ordered(cs) ==
  {o \in [1..Cardinality(cs) -> cs] :
     /\ IsInjective(o)
     /\ \A i, j \in DOMAIN o : i < j => chunks[o[i]].index <= chunks[o[j]].index}

\* The chunks that belong to that row id by now, in the order of their indexes.
ReadChunks ==
  /\ fetch.stage = "found"
  /\ \E o \in Ordered(ChunksOf({fetch.doc})) :
       fetch' = [fetch EXCEPT !.stage = "answered",
                              !.texts = [i \in DOMAIN o |-> chunks[o[i]].text]]
  /\ UNCHANGED <<Reading, search>>

-----------------------------------------------------------------------------

Init ==
  /\ docs = Empty /\ chunks = Empty /\ index = {}
  /\ search = NoSearch /\ fetch = NoFetch
  /\ writes = 0

Write ==
  \/ \E key \in Keys, v \in Versions : Replace(key, v)
  \/ \E keys \in (SUBSET Keys) \ {{}} : Delete(keys)

Search ==
  \/ \E mode \in Modes : Ask(mode)
  \/ CompareVectors
  \/ \E accepted \in BOOLEAN : MatchWords(accepted)
  \/ Hydrate

Next == Write \/ Search \/ ReadChunks \/ \E key \in Keys : FindRow(key)

Spec == Init /\ [][Next]_vars

-----------------------------------------------------------------------------

\* The index holds what the chunks say and nothing else, whatever replaces, clears and
\* reconciliations came one after the other and whichever row ids they reused.
IndexIsContent == index = Indexed(chunks)

\* Of a document nobody touched during a search, a hit tells the truth ("`cosine` is the
\* interpretable vector relevance", server.py:314), and no chunk that has the words is
\* missing unless k others came before it.
SearchIsTrue ==
  search.stage = "answered" =>
    \A c \in DOMAIN chunks :
      docs[chunks[c].doc].key \notin search.touched =>
        /\ \A hit \in {h \in search.hits : h.id = c} :
             /\ hit.text = chunks[c].text
             /\ hit.near \subseteq {Near[hit.text]}
             /\ hit.matched = (search.mode # "semantic" /\ hit.text \in search.words)
        /\ search.mode # "semantic" /\ chunks[c].text \in search.words =>
             c \in {h.id : h \in search.hits} \/ Cardinality(search.ranked) = K

\* A fetched document is one version of it, never part of one and part of another,
\* although a build may replace it between the two statements; after a clear in between
\* it may be empty, or have the chunks of the document that has the row id by then.
DocumentIsWhole ==
  fetch.stage = "answered" /\ ~fetch.gone => fetch.texts \in fetch.versions

ReadersSeeWholes == SearchIsTrue /\ DocumentIsWhole

=============================================================================
