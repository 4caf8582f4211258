----------------------------- MODULE DocumentsProofs -----------------------------
(***************************************************************************)
(* What is proved of documents: those that are ingested, those that skills *)
(* are kept in, and those recovered with the notes of a shared database.   *)
(*                                                                         *)
(* Documents, for every number of documents, texts, results asked for and  *)
(* changes: the full-text index is the content of the chunks, a search     *)
(* tells the truth of what nobody touched, and a fetched document is one   *)
(* version.  The index is exact because row ids are new when they are      *)
(* given out: the ids in use have a largest one (IdsOK), which a deletion  *)
(* may lower.  A search is true because a row id that comes to stand for   *)
(* another chunk does so in a change of that chunk's document, which       *)
(* touches its key (SearchOK); a document is whole because each of its     *)
(* indexes from 1 to the length of the version is that of one chunk        *)
(* (Whole).                                                                *)
(*                                                                         *)
(* Skills, for every set of source files and bodies: a pass that is done   *)
(* has left the store with the canonical body, because a ledger never says *)
(* more of a file than the store answers for (Honest).                     *)
(*                                                                         *)
(* Legacy recovery, for every shared database, store and set of Projects:  *)
(* only approved rows arrive, and nothing is lost on the way (RecoveryInv);*)
(* and if the database is whole, a copy passes its verification (LinksOK). *)
(***************************************************************************)
EXTENDS Documents, SkillAuthority, LegacyRecovery, FiniteSetTheorems, WellFoundedInduction, TLAPS

IdsOK(table) ==
  /\ DOMAIN table \subseteq Nat \ {0}
  /\ \E b \in DOMAIN table \cup {0} : \A r \in DOMAIN table : r <= b

\* The chunks of row d are those of version v, one for each index.
Whole(d, v) ==
  /\ \A c \in ChunksOf({d}) :
       chunks[c].index \in 1..Len(v) /\ chunks[c].text = v[chunks[c].index]
  /\ \A i \in 1..Len(v) : \E c \in ChunksOf({d}) : chunks[c].index = i
  /\ \A c, e \in ChunksOf({d}) : chunks[c].index = chunks[e].index => c = e

RowsOK ==
  /\ IdsOK(docs) /\ IdsOK(chunks)
  /\ \A d \in DOMAIN docs : docs[d] \in [key : Keys, version : Versions]
  /\ \A c \in DOMAIN chunks : chunks[c] \in [doc : DOMAIN docs, index : Nat, text : Texts]
  /\ \A d \in DOMAIN docs : Whole(d, docs[d].version)

KeyOf(c) == docs[chunks[c].doc].key

\* The query has the words that full-text search, or the search that stands in for
\* it, finds in this text.
Sought(text) == search.mode # "semantic" /\ text \in search.words

SearchOK ==
  /\ search = [stage |-> search.stage, mode |-> search.mode, words |-> search.words,
               near |-> search.near, lexical |-> search.lexical,
               ranked |-> search.ranked, hits |-> search.hits, touched |-> search.touched]
  /\ search.stage \in {"compared", "ranked"} =>
       /\ IsFiniteSet(DOMAIN search.near)
       /\ \A c \in DOMAIN chunks \cap DOMAIN search.near :
            KeyOf(c) \notin search.touched => search.near[c] = Near[chunks[c].text]
  /\ search.stage = "ranked" =>
       \A c \in DOMAIN chunks : KeyOf(c) \notin search.touched =>
         /\ (c \in search.lexical) = Sought(chunks[c].text)
         /\ Sought(chunks[c].text) => c \in search.ranked \/ Cardinality(search.ranked) = K

\* Until it is gone, the document being fetched has its row, and what the row says is
\* one of the versions it had since.
FetchOK ==
  /\ fetch = [stage |-> fetch.stage, key |-> fetch.key, doc |-> fetch.doc,
              texts |-> fetch.texts, versions |-> fetch.versions, gone |-> fetch.gone]
  /\ fetch.stage = "found" /\ ~fetch.gone =>
       /\ fetch.doc \in DOMAIN docs
       /\ docs[fetch.doc].key = fetch.key
       /\ docs[fetch.doc].version \in fetch.versions

IInv == RowsOK /\ IndexIsContent /\ SearchOK /\ FetchOK /\ SearchIsTrue /\ DocumentIsWhole

-----------------------------------------------------------------------------
(* Numbers. *)

\* A set of naturals that is not empty has a smallest element.
LEMMA Smallest ==
  ASSUME NEW S \in SUBSET Nat, S # {}
  PROVE  \E m \in S : \A n \in S : m <= n
<1> DEFINE Less == {p \in Nat \X Nat : p[1] < p[2]}
<1>1. IsWellFoundedOn(Less, Nat)
  BY NatLessThanWellFounded DEF OpToRel
<1>2. PICK m \in S : \A n \in S : <<n, m>> \notin Less
  <2> HIDE DEF Less
  <2> QED
    BY <1>1, WFMin
<1>3. \A n \in S : ~(n < m)
  BY <1>2
<1> QED
  BY <1>3

\* A set of naturals with a bound has a largest element, when it is not empty.
LEMMA Largest ==
  ASSUME NEW S \in SUBSET Nat, S # {}, NEW b \in Nat, \A n \in S : n <= b
  PROVE  \E m \in S : \A n \in S : n <= m
<1> DEFINE Bounds == {m \in Nat : \A n \in S : n <= m}
<1>1. PICK m \in Bounds : \A k \in Bounds : m <= k
  <2> b \in Bounds
    OBVIOUS
  <2> QED
    BY Smallest
<1>2. PICK s \in S : TRUE
  OBVIOUS
<1>3. CASE m \notin S
  <2>1. m # 0 /\ m - 1 \in Nat /\ \A n \in S : n < m
    BY <1>2, <1>3
  <2>2. m - 1 \in Bounds
    BY <2>1
  <2> QED
    BY <1>1, <2>2
<1> QED
  BY <1>3

\* A strictly increasing map of 1..n into itself is the identity.
LEMMA IncreasingIsIdentity ==
  ASSUME NEW n \in Nat, NEW h \in [1..n -> 1..n],
         \A i, j \in 1..n : i < j => h[i] < h[j]
  PROVE  \A i \in 1..n : h[i] = i
<1>1. ASSUME NEW i \in 1..n, h[i] < i
      PROVE  FALSE
  <2> DEFINE Low == {k \in 1..n : h[k] < k}
  <2>1. PICK m \in Low : \A k \in Low : m <= k
    <3> Low \in SUBSET Nat /\ Low # {}
      BY <1>1
    <3> QED
      BY Smallest
  <2>2. CASE m = 1
    BY <2>2, h[1] \in 1..n
  <2>3. CASE m # 1
    <3>1. m - 1 \in 1..n /\ m - 1 < m /\ m - 1 \notin Low
      BY <2>1, <2>3
    <3>2. h[m - 1] < h[m] /\ h[m] < m /\ h[m - 1] \in Nat /\ h[m] \in Nat
      BY <2>1, <3>1
    <3>3. ~(h[m - 1] < m - 1)
      BY <3>1
    <3> QED
      BY <2>1, <3>2, <3>3
  <2> QED
    BY <2>2, <2>3
<1>2. ASSUME NEW i \in 1..n, h[i] > i
      PROVE  FALSE
  <2> DEFINE High == {k \in 1..n : h[k] > k}
  <2>1. PICK m \in High : \A k \in High : k <= m
    <3> High \in SUBSET Nat /\ High # {} /\ \A k \in High : k <= n
      BY <1>2
    <3> QED
      BY Largest
  <2>2. h[m] \in 1..n /\ h[m] > m /\ m \in 1..n
    BY <2>1
  <2>3. m + 1 \in 1..n /\ m + 1 \notin High
    BY <2>1, <2>2
  <2>4. h[m] < h[m + 1] /\ h[m + 1] \in Nat /\ ~(h[m + 1] > m + 1)
    BY <2>2, <2>3
  <2> QED
    BY <2>2, <2>4
<1>3. ASSUME NEW i \in 1..n
      PROVE  h[i] = i
  BY <1>1, <1>2, h[i] \in 1..n
<1> QED
  BY <1>3

-----------------------------------------------------------------------------
(* Row ids. *)

\* An id that is given out is new, and above all others.
LEMMA NextIdIsNew ==
  ASSUME NEW table, IdsOK(table)
  PROVE  NextId(table) \in Nat \ {0} /\ \A r \in DOMAIN table : r < NextId(table)
<1>1. CASE DOMAIN table = {}
  BY <1>1 DEF NextId
<1>2. CASE DOMAIN table # {}
  <2>1. \E m \in DOMAIN table : \A r \in DOMAIN table : m >= r
    BY <1>2 DEF IdsOK
  <2>2. Max(DOMAIN table) \in DOMAIN table
        /\ \A r \in DOMAIN table : Max(DOMAIN table) >= r
    BY <2>1 DEF Max
  <2> QED
    BY <1>2, <2>2 DEF NextId, IdsOK
<1> QED
  BY <1>1, <1>2

\* Ids that are bounded have a largest one.
LEMMA BoundedIdsOK ==
  ASSUME NEW table, DOMAIN table \subseteq Nat \ {0}, NEW b \in Nat,
         \A r \in DOMAIN table : r <= b
  PROVE  IdsOK(table)
<1>1. CASE DOMAIN table = {}
  BY <1>1 DEF IdsOK
<1>2. CASE DOMAIN table # {}
  <2>1. DOMAIN table \in SUBSET Nat
    OBVIOUS
  <2>2. \E m \in DOMAIN table : \A r \in DOMAIN table : r <= m
    BY <1>2, <2>1, Largest
  <2> QED
    BY <2>2 DEF IdsOK
<1> QED
  BY <1>1, <1>2

\* What is left of a table has ids that are sound, and the rows it had.
LEMMA RestrictedOK ==
  ASSUME NEW table, IdsOK(table), NEW gone
  PROVE  LET kept == Restrict(table, DOMAIN table \ gone)
         IN  /\ IdsOK(kept)
             /\ DOMAIN kept = DOMAIN table \ gone
             /\ \A r \in DOMAIN kept : kept[r] = table[r]
<1> DEFINE kept == Restrict(table, DOMAIN table \ gone)
<1>1. DOMAIN kept = DOMAIN table \ gone /\ \A r \in DOMAIN kept : kept[r] = table[r]
  BY DEF Restrict
<1>2. PICK b \in DOMAIN table \cup {0} : \A r \in DOMAIN table : r <= b
  BY DEF IdsOK
<1>3. IdsOK(kept)
  <2> HIDE DEF kept
  <2> b \in Nat /\ DOMAIN kept \subseteq Nat \ {0} /\ \A r \in DOMAIN kept : r <= b
    BY <1>1, <1>2 DEF IdsOK
  <2> QED
    BY BoundedIdsOK
<1> QED
  BY <1>1, <1>3

\* A table has finitely many rows.
LEMMA IdsAreFinite ==
  ASSUME NEW table, IdsOK(table)
  PROVE  IsFiniteSet(DOMAIN table)
<1>1. PICK b \in Nat : \A r \in DOMAIN table : r <= b
  BY DEF IdsOK
<1>2. DOMAIN table \in SUBSET Nat
  BY DEF IdsOK
<1> QED
  BY <1>1, <1>2, FS_BoundedSetOfNaturals

-----------------------------------------------------------------------------
(* Rewriting a document. *)

\* The new rows are those of the version, one for each index, above all others.
LEMMA InsertedOK ==
  ASSUME NEW table, IdsOK(table), NEW d, NEW v \in Versions
  PROVE  LET new == Inserted(table, d, v)
             first == NextId(table)
         IN  /\ first \in Nat \ {0}
             /\ DOMAIN new = first..(first + Len(v) - 1)
             /\ DOMAIN new \cap DOMAIN table = {}
             /\ \A c \in DOMAIN new : /\ new[c] = [doc |-> d, index |-> c - first + 1,
                                                   text |-> v[c - first + 1]]
                                      /\ c - first + 1 \in 1..Len(v)
                                      /\ v[c - first + 1] \in Texts
             /\ \A i \in 1..Len(v) : (first + i - 1) \in DOMAIN new
<1> DEFINE first == NextId(table)
<1>1. first \in Nat \ {0} /\ \A r \in DOMAIN table : r < first
  BY NextIdIsNew
<1>2. v \in Seq(Texts) /\ Len(v) \in Nat
  BY DocumentsAssumption
<1>3. \A i \in 1..Len(v) : v[i] \in Texts
  BY <1>2
<1> HIDE DEF first
<1>4. DOMAIN Inserted(table, d, v) = first..(first + Len(v) - 1)
  BY DEF Inserted, first
<1>5. \A c \in first..(first + Len(v) - 1) :
        Inserted(table, d, v)[c] = [doc |-> d, index |-> c - first + 1,
                                    text |-> v[c - first + 1]]
  BY DEF Inserted, first
<1>6. \A c \in first..(first + Len(v) - 1) : c - first + 1 \in 1..Len(v)
  BY <1>1, <1>2
<1>7. \A i \in 1..Len(v) : (first + i - 1) \in first..(first + Len(v) - 1)
  BY <1>1, <1>2
<1>8. DOMAIN table \subseteq Nat
  BY DEF IdsOK
<1>9. \A c \in first..(first + Len(v) - 1) : c \notin DOMAIN table
  BY <1>1, <1>2, <1>8
<1> QED
  BY <1>1, <1>3, <1>4, <1>5, <1>6, <1>7, <1>9 DEF first

\* What a rewriting leaves: the rows of other documents as they were, one row for each
\* chunk of the version, and in the index what the rows say.
LEMMA RewrittenOK ==
  ASSUME IdsOK(chunks), IndexIsContent, NEW d, NEW v \in Versions
  PROVE  LET table == Rewritten(d, v).chunks
         IN  /\ IdsOK(table)
             /\ Rewritten(d, v).index = Indexed(table)
             /\ \A c \in DOMAIN chunks : chunks[c].doc # d =>
                  c \in DOMAIN table /\ table[c] = chunks[c]
             /\ \A c \in DOMAIN table :
                  \/ c \in DOMAIN chunks /\ chunks[c].doc # d /\ table[c] = chunks[c]
                  \/ /\ table[c] = [doc |-> d, index |-> table[c].index,
                                    text |-> v[table[c].index]]
                     /\ table[c].index \in 1..Len(v) /\ table[c].text \in Texts
             /\ \A i \in 1..Len(v) : \E c \in DOMAIN table :
                  table[c].doc = d /\ table[c].index = i
             /\ \A c, e \in DOMAIN table :
                  table[c].doc = d /\ table[e].doc = d /\ table[c].index = table[e].index
                    => c = e
<1> DEFINE old == ChunksOf({d})
           kept == Restrict(chunks, DOMAIN chunks \ old)
           new == Inserted(kept, d, v)
           first == NextId(kept)
           table == Overlaid(new, kept)
<1>1. Rewritten(d, v) = [chunks |-> table, index |-> Unindexed(chunks, old) \cup Indexed(new)]
  BY DEF Rewritten
<1>2. IdsOK(kept) /\ DOMAIN kept = DOMAIN chunks \ old
      /\ \A c \in DOMAIN kept : kept[c] = chunks[c]
  BY RestrictedOK
<1>3. \A c : c \in DOMAIN kept <=> c \in DOMAIN chunks /\ chunks[c].doc # d
  <2>1. \A c : c \in old <=> c \in DOMAIN chunks /\ chunks[c].doc = d
    BY DEF ChunksOf
  <2> HIDE DEF old, kept
  <2> QED
    BY <1>2, <2>1
<1> HIDE DEF old, kept
<1>4. /\ first \in Nat \ {0}
      /\ DOMAIN new = first..(first + Len(v) - 1)
      /\ DOMAIN new \cap DOMAIN kept = {}
      /\ \A c \in DOMAIN new : /\ new[c] = [doc |-> d, index |-> c - first + 1,
                                            text |-> v[c - first + 1]]
                               /\ c - first + 1 \in 1..Len(v)
                               /\ v[c - first + 1] \in Texts
      /\ \A i \in 1..Len(v) : (first + i - 1) \in DOMAIN new
  BY <1>2, InsertedOK
<1> HIDE DEF new, first
<1>5. /\ DOMAIN table = DOMAIN new \cup DOMAIN kept
      /\ \A c \in DOMAIN new : table[c] = new[c]
      /\ \A c \in DOMAIN kept : table[c] = kept[c]
  BY <1>4 DEF Overlaid
<1> HIDE DEF table
<1>6. Len(v) \in Nat
  BY DocumentsAssumption
<1>7. IdsOK(table)
  <2>1. PICK b \in Nat : \A c \in DOMAIN kept : c <= b
    BY <1>2 DEF IdsOK
  <2>2. DOMAIN kept \subseteq Nat \ {0}
    BY <1>2 DEF IdsOK
  <2>3. DOMAIN table \subseteq Nat \ {0}
    BY <1>4, <1>5, <1>6, <2>2
  <2>4. \A c \in DOMAIN table : c <= b + first + Len(v)
    BY <1>4, <1>5, <1>6, <2>1, <2>2
  <2> QED
    BY <1>4, <1>6, <2>1, <2>3, <2>4, BoundedIdsOK
<1>8. Unindexed(chunks, old) = {<<chunks[c].text, c>> : c \in DOMAIN kept}
  <2>1. \A c : c \in old \cap DOMAIN chunks <=> c \in DOMAIN chunks /\ c \notin DOMAIN kept
    BY <1>2
  <2> QED
    BY <1>2, <2>1 DEF Unindexed, Indexed, IndexIsContent
<1>9. Unindexed(chunks, old) \cup Indexed(new) = Indexed(table)
  BY <1>2, <1>5, <1>8 DEF Indexed
<1>10. \A c \in DOMAIN table :
         \/ c \in DOMAIN chunks /\ chunks[c].doc # d /\ table[c] = chunks[c]
         \/ c \in DOMAIN new /\ table[c].doc = d /\ table[c].index = c - first + 1
  BY <1>2, <1>3, <1>4, <1>5
<1>11. \A c \in DOMAIN new :
         /\ table[c] = [doc |-> d, index |-> table[c].index, text |-> v[table[c].index]]
         /\ table[c].index \in 1..Len(v) /\ table[c].text \in Texts
  BY <1>4, <1>5
<1>12. \A c, e \in DOMAIN table :
         table[c].doc = d /\ table[e].doc = d /\ table[c].index = table[e].index => c = e
  BY <1>4, <1>10
<1>13. \A i \in 1..Len(v) : \E c \in DOMAIN table : table[c].doc = d /\ table[c].index = i
  <2> SUFFICES ASSUME NEW i \in 1..Len(v)
               PROVE  \E c \in DOMAIN table : table[c].doc = d /\ table[c].index = i
    OBVIOUS
  <2> DEFINE c == first + i - 1
  <2>1. c \in DOMAIN new
    BY <1>4
  <2>2. c - first + 1 = i
    BY <1>4, <1>6
  <2> HIDE DEF c
  <2>3. table[c].doc = d /\ table[c].index = i /\ c \in DOMAIN table
    BY <1>4, <1>5, <2>1, <2>2
  <2> QED
    BY <2>3
<1>14. \A c \in DOMAIN chunks : chunks[c].doc # d => c \in DOMAIN table /\ table[c] = chunks[c]
  BY <1>2, <1>3, <1>5
<1>15. Rewritten(d, v).chunks = table /\ Rewritten(d, v).index = Indexed(table)
  BY <1>1, <1>9
<1> QED
  BY <1>7, <1>10, <1>11, <1>12, <1>13, <1>14, <1>15

-----------------------------------------------------------------------------
(* Reading a document. *)

\* The chunks of a whole document, in any order of their indexes, are its version.
LEMMA OrderedIsVersion ==
  ASSUME NEW d, NEW v \in Versions, Whole(d, v), NEW o \in Ordered(ChunksOf({d}))
  PROVE  [i \in DOMAIN o |-> chunks[o[i]].text] = v
<1> DEFINE S == ChunksOf({d})
           n == Len(v)
           h == [i \in 1..n |-> chunks[o[i]].index]
<1>1. v \in Seq(Texts) /\ n \in Nat /\ v = [i \in 1..n |-> v[i]]
  BY DocumentsAssumption
<1>2. Cardinality(S) = n
  <2> DEFINE g == [i \in 1..n |-> CHOOSE c \in S : chunks[c].index = i]
  <2>1. \A i \in 1..n : g[i] \in S /\ chunks[g[i]].index = i
    BY DEF Whole
  <2>2. g \in [1..n -> S]
    BY <2>1
  <2>3. \A c \in S : chunks[c].index \in 1..n /\ c = g[chunks[c].index]
    BY <2>1 DEF Whole
  <2> HIDE DEF g, S
  <2>4. g \in Bijection(1..n, S)
    BY <2>1, <2>2, <2>3 DEF Bijection, Injection, Surjection, IsInjective
  <2>5. ExistsBijection(1..n, S)
    BY <2>4 DEF ExistsBijection
  <2> QED
    BY <1>1, <2>5, FS_CountingElements
<1>3. o \in [1..n -> S] /\ IsInjective(o)
      /\ \A i, j \in 1..n : i < j => chunks[o[i]].index <= chunks[o[j]].index
  BY <1>2 DEF Ordered
<1>4. h \in [1..n -> 1..n]
  BY <1>3 DEF Whole
<1>5. \A i, j \in 1..n : i < j => h[i] < h[j]
  <2> SUFFICES ASSUME NEW i \in 1..n, NEW j \in 1..n, i < j
               PROVE  h[i] < h[j]
    OBVIOUS
  <2>1. o[i] \in S /\ o[j] \in S
    BY <1>3
  <2>2. o[i] # o[j]
    <3> i \in DOMAIN o /\ j \in DOMAIN o /\ i # j
      BY <1>1, <1>3
    <3> QED
      BY <1>3 DEF IsInjective
  <2>3. chunks[o[i]].index # chunks[o[j]].index
    BY <2>1, <2>2 DEF Whole
  <2>4. h[i] # h[j] /\ h[i] <= h[j] /\ h[i] \in Int /\ h[j] \in Int
    BY <1>3, <1>4, <2>3
  <2> QED
    BY <2>4
<1>6. \A i \in 1..n : h[i] = i
  <2> HIDE DEF h, n
  <2> QED
    BY <1>1, <1>4, <1>5, IncreasingIsIdentity
<1>7. \A i \in 1..n : chunks[o[i]].text = v[i]
  BY <1>3, <1>6 DEF Whole
<1>8. DOMAIN o = 1..n
  BY <1>3
<1> HIDE DEF n, h, S
<1> QED
  BY <1>1, <1>7, <1>8

-----------------------------------------------------------------------------
(* What a change means for the readers under way. *)

\* The chunks of keys that are not touched, as they were.
Spares(keys) ==
  \A c \in DOMAIN chunks' : KeyOf(c)' \notin keys =>
    /\ c \in DOMAIN chunks
    /\ chunks'[c] = chunks[c] /\ KeyOf(c)' = KeyOf(c)

\* A row keeps its key, and its version or the new one, unless its key goes.
Follows(keys, v) ==
  \A r \in DOMAIN docs : (docs[r].key \in keys => v # <<>>) =>
    /\ r \in DOMAIN docs'
    /\ docs'[r].key = docs[r].key
    /\ \/ docs'[r].version = docs[r].version
       \/ docs[r].key \in keys /\ docs'[r].version = v

\* Replacing a document keeps the tables and the index sound.
LEMMA ReplaceOK ==
  ASSUME RowsOK, IndexIsContent, NEW key \in Keys, NEW v \in Versions, Replace(key, v)
  PROVE  RowsOK' /\ IndexIsContent' /\ Spares({key}) /\ Follows({key}, v)
<1> DEFINE row == [key |-> key, version |-> v]
<1>1. PICK d \in Nat \ {0} :
        /\ d \in DOMAIN docs => docs[d].key = key
        /\ d \notin DOMAIN docs => \A r \in DOMAIN docs : r < d
        /\ docs' = [r \in DOMAIN docs \cup {d} |-> IF r = d THEN row ELSE docs[r]]
        /\ chunks' = Rewritten(d, v).chunks
        /\ index' = Rewritten(d, v).index
  <2> DEFINE e == IF RowsOf(key) = {} THEN NextId(docs) ELSE CHOOSE r \in RowsOf(key) : TRUE
  <2>1. /\ docs' = [r \in DOMAIN docs \cup {e} |-> IF r = e THEN row ELSE docs[r]]
        /\ chunks' = Rewritten(e, v).chunks
        /\ index' = Rewritten(e, v).index
    BY DEF Replace
  <2>2. CASE RowsOf(key) = {}
    <3>1. e = NextId(docs)
      BY <2>2
    <3>2. NextId(docs) \in Nat \ {0} /\ \A r \in DOMAIN docs : r < NextId(docs)
      BY NextIdIsNew DEF RowsOK
    <3> HIDE DEF e
    <3>3. e \notin DOMAIN docs
      BY <3>1, <3>2 DEF RowsOK, IdsOK
    <3> QED
      BY <2>1, <3>1, <3>2, <3>3
  <2>3. CASE RowsOf(key) # {}
    <3>1. e \in RowsOf(key)
      BY <2>3
    <3> HIDE DEF e
    <3>2. e \in Nat \ {0} /\ e \in DOMAIN docs /\ docs[e].key = key
      BY <3>1 DEF RowsOf, RowsOK, IdsOK
    <3> QED
      BY <2>1, <3>2
  <2> QED
    BY <2>2, <2>3
<1>2. /\ docs' = [r \in DOMAIN docs \cup {d} |-> IF r = d THEN row ELSE docs[r]]
      /\ chunks' = Rewritten(d, v).chunks
      /\ index' = Rewritten(d, v).index
  BY <1>1
<1>3. /\ DOMAIN docs' = DOMAIN docs \cup {d}
      /\ docs'[d] = row
      /\ \A r \in DOMAIN docs : r # d => docs'[r] = docs[r]
  BY <1>2
<1>4. /\ IdsOK(chunks')
      /\ index' = Indexed(chunks')
      /\ \A c \in DOMAIN chunks : chunks[c].doc # d =>
           c \in DOMAIN chunks' /\ chunks'[c] = chunks[c]
      /\ \A c \in DOMAIN chunks' :
           \/ c \in DOMAIN chunks /\ chunks[c].doc # d /\ chunks'[c] = chunks[c]
           \/ /\ chunks'[c] = [doc |-> d, index |-> chunks'[c].index,
                               text |-> v[chunks'[c].index]]
              /\ chunks'[c].index \in 1..Len(v) /\ chunks'[c].text \in Texts
      /\ \A i \in 1..Len(v) : \E c \in DOMAIN chunks' :
           chunks'[c].doc = d /\ chunks'[c].index = i
      /\ \A c, e \in DOMAIN chunks' :
           chunks'[c].doc = d /\ chunks'[e].doc = d /\ chunks'[c].index = chunks'[e].index
             => c = e
  BY <1>2, RewrittenOK DEF RowsOK
<1>5. IdsOK(docs')
  <2>1. PICK b \in Nat : \A r \in DOMAIN docs : r <= b
    BY DEF RowsOK, IdsOK
  <2>2. DOMAIN docs' \subseteq Nat \ {0} /\ \A r \in DOMAIN docs' : r <= b + d
    BY <1>1, <1>3, <2>1 DEF RowsOK, IdsOK
  <2> QED
    BY <1>1, <2>1, <2>2, BoundedIdsOK
<1>6. \A r \in DOMAIN docs' : docs'[r] \in [key : Keys, version : Versions]
  BY <1>3 DEF RowsOK
<1>7. \A c \in DOMAIN chunks' : chunks'[c] \in [doc : DOMAIN docs', index : Nat, text : Texts]
  <2>1. ASSUME NEW c \in DOMAIN chunks, chunks'[c] = chunks[c]
        PROVE  chunks'[c] \in [doc : DOMAIN docs', index : Nat, text : Texts]
    BY <1>3, <2>1 DEF RowsOK
  <2>2. ASSUME NEW c \in DOMAIN chunks',
               chunks'[c] = [doc |-> d, index |-> chunks'[c].index,
                             text |-> v[chunks'[c].index]],
               chunks'[c].index \in 1..Len(v), chunks'[c].text \in Texts
        PROVE  chunks'[c] \in [doc : DOMAIN docs', index : Nat, text : Texts]
    BY <1>3, <2>2
  <2> QED
    BY <1>4, <2>1, <2>2
<1>8. \A r \in DOMAIN docs' : Whole(r, docs[r].version)'
  <2>1. Whole(d, docs[d].version)'
    <3>1. docs'[d].version = v
      BY <1>3
    <3>2. \A c : c \in ChunksOf({d})' <=> c \in DOMAIN chunks' /\ chunks'[c].doc = d
      BY DEF ChunksOf
    <3>3. \A c \in DOMAIN chunks' : chunks'[c].doc = d =>
            chunks'[c].index \in 1..Len(v) /\ chunks'[c].text = v[chunks'[c].index]
      BY <1>4
    <3> QED
      BY <1>4, <3>1, <3>2, <3>3 DEF Whole
  <2>2. ASSUME NEW r \in DOMAIN docs, r # d
        PROVE  Whole(r, docs[r].version)'
    <3>1. \A c : c \in ChunksOf({r})' <=> c \in ChunksOf({r})
      BY <1>4, <2>2 DEF ChunksOf
    <3>2. \A c \in ChunksOf({r}) : chunks'[c] = chunks[c]
      BY <1>4, <2>2 DEF ChunksOf
    <3>3. docs'[r].version = docs[r].version
      BY <1>3, <2>2
    <3>4. Whole(r, docs[r].version)
      BY <2>2 DEF RowsOK
    <3> QED
      BY <3>1, <3>2, <3>3, <3>4 DEF Whole
  <2> QED
    BY <1>3, <2>1, <2>2
<1>9. Spares({key})
  <2> SUFFICES ASSUME NEW c \in DOMAIN chunks', KeyOf(c)' # key
               PROVE  /\ c \in DOMAIN chunks
                      /\ chunks'[c] = chunks[c] /\ KeyOf(c)' = KeyOf(c)
    BY DEF Spares
  <2>1. chunks'[c].doc # d
    BY <1>3 DEF KeyOf
  <2>2. c \in DOMAIN chunks /\ chunks'[c] = chunks[c]
    BY <1>4, <2>1
  <2>3. chunks[c].doc \in DOMAIN docs /\ chunks[c].doc # d
    BY <2>1, <2>2 DEF RowsOK
  <2> QED
    BY <1>3, <2>2, <2>3 DEF KeyOf
<1>10. Follows({key}, v)
  BY <1>1, <1>3 DEF Follows
<1> QED
  BY <1>4, <1>5, <1>6, <1>7, <1>8, <1>9, <1>10 DEF RowsOK, IndexIsContent

\* And so does deleting documents.
LEMMA DeleteOK ==
  ASSUME RowsOK, IndexIsContent, NEW keys \in SUBSET Keys, Delete(keys)
  PROVE  RowsOK' /\ IndexIsContent' /\ Spares(keys) /\ Follows(keys, <<>>)
<1> DEFINE rows == UNION {RowsOf(key) : key \in keys}
           dead == ChunksOf(rows)
<1>1. \A r : r \in rows <=> r \in DOMAIN docs /\ docs[r].key \in keys
  BY DEF RowsOf
<1>2. /\ docs' = Restrict(docs, DOMAIN docs \ rows)
      /\ chunks' = Restrict(chunks, DOMAIN chunks \ dead)
      /\ index' = Indexed(chunks')
  BY DEF Delete
<1>3. \A c : c \in dead <=> c \in DOMAIN chunks /\ chunks[c].doc \in rows
  BY DEF ChunksOf
<1> HIDE DEF rows, dead
<1>4. /\ IdsOK(docs')
      /\ DOMAIN docs' = DOMAIN docs \ rows
      /\ \A r \in DOMAIN docs' : docs'[r] = docs[r]
  <2> DEFINE kept == Restrict(docs, DOMAIN docs \ rows)
  <2>1. /\ IdsOK(kept)
        /\ DOMAIN kept = DOMAIN docs \ rows
        /\ \A r \in DOMAIN kept : kept[r] = docs[r]
    BY RestrictedOK DEF RowsOK
  <2>2. docs' = kept
    BY <1>2
  <2> HIDE DEF kept
  <2> QED
    BY <2>1, <2>2
<1>5. /\ IdsOK(chunks')
      /\ DOMAIN chunks' = DOMAIN chunks \ dead
      /\ \A c \in DOMAIN chunks' : chunks'[c] = chunks[c]
  <2> DEFINE kept == Restrict(chunks, DOMAIN chunks \ dead)
  <2>1. /\ IdsOK(kept)
        /\ DOMAIN kept = DOMAIN chunks \ dead
        /\ \A c \in DOMAIN kept : kept[c] = chunks[c]
    BY RestrictedOK DEF RowsOK
  <2>2. chunks' = kept
    BY <1>2
  <2> HIDE DEF kept
  <2> QED
    BY <2>1, <2>2
<1>6. \A r \in DOMAIN docs' : docs'[r] \in [key : Keys, version : Versions]
  BY <1>4 DEF RowsOK
<1>7. \A c \in DOMAIN chunks' : chunks'[c] \in [doc : DOMAIN docs', index : Nat, text : Texts]
  <2> SUFFICES ASSUME NEW c \in DOMAIN chunks'
               PROVE  chunks'[c] \in [doc : DOMAIN docs', index : Nat, text : Texts]
    OBVIOUS
  <2>1. c \in DOMAIN chunks /\ chunks'[c] = chunks[c] /\ chunks[c].doc \notin rows
    BY <1>3, <1>5
  <2>2. chunks[c] \in [doc : DOMAIN docs, index : Nat, text : Texts]
    BY <2>1 DEF RowsOK
  <2>3. chunks[c].doc \in DOMAIN docs'
    BY <1>4, <2>1, <2>2
  <2> QED
    BY <2>1, <2>2, <2>3
<1>8. ASSUME NEW r \in DOMAIN docs'
      PROVE  Whole(r, docs[r].version)'
  <2>1. r \in DOMAIN docs /\ r \notin rows /\ docs'[r] = docs[r]
    BY <1>4
  <2>2. \A c : c \in ChunksOf({r})' <=> c \in ChunksOf({r})
    BY <1>3, <1>5, <2>1 DEF ChunksOf
  <2>3. \A c \in ChunksOf({r}) : chunks'[c] = chunks[c]
    BY <1>5, <2>2 DEF ChunksOf
  <2>4. Whole(r, docs[r].version)
    BY <2>1 DEF RowsOK
  <2>5. docs'[r].version = docs[r].version
    BY <2>1
  <2> QED
    BY <2>2, <2>3, <2>4, <2>5 DEF Whole
<1>9. Spares(keys)
  <2> SUFFICES ASSUME NEW c \in DOMAIN chunks'
               PROVE  c \in DOMAIN chunks /\ chunks'[c] = chunks[c] /\ KeyOf(c)' = KeyOf(c)
    BY DEF Spares
  <2>1. chunks'[c] = chunks[c] /\ c \in DOMAIN chunks
    BY <1>5
  <2>2. chunks'[c].doc \in DOMAIN docs'
    BY <1>7
  <2> QED
    BY <1>4, <2>1, <2>2 DEF KeyOf
<1>10. Follows(keys, <<>>)
  BY <1>1, <1>4 DEF Follows
<1> QED
  BY <1>2, <1>4, <1>5, <1>6, <1>7, <1>8, <1>9, <1>10 DEF RowsOK, IndexIsContent

\* After a change the readers under way know what they knew of what was not touched;
\* an answer is forgotten.
LEMMA DisturbOK ==
  ASSUME RowsOK, RowsOK', SearchOK, FetchOK, NEW keys, NEW v, Disturb(keys, v),
         Spares(keys), Follows(keys, v)
  PROVE  SearchOK' /\ FetchOK' /\ SearchIsTrue' /\ DocumentIsWhole'
<1>1. SearchOK' /\ SearchIsTrue'
  <2>1. CASE search' = NoSearch
    BY <2>1 DEF NoSearch, SearchOK, SearchIsTrue
  <2>2. CASE /\ search.stage \notin {"idle", "answered"}
             /\ search' = [search EXCEPT !.touched = @ \cup keys]
    <3>1. search' = [stage |-> search.stage, mode |-> search.mode, words |-> search.words,
                     near |-> search.near, lexical |-> search.lexical,
                     ranked |-> search.ranked, hits |-> search.hits,
                     touched |-> search.touched \cup keys]
      BY <2>2 DEF SearchOK
    <3>2. \A c \in DOMAIN chunks' : KeyOf(c)' \notin search.touched \cup keys =>
            /\ c \in DOMAIN chunks
            /\ chunks'[c] = chunks[c]
            /\ KeyOf(c) \notin search.touched
      BY DEF Spares
    <3>3. \A text : Sought(text)' = Sought(text)
      BY <3>1 DEF Sought
    <3> QED
      BY <2>2, <3>1, <3>2, <3>3 DEF SearchOK, SearchIsTrue
  <2> QED
    BY <2>1, <2>2 DEF Disturb
<1>2. FetchOK' /\ DocumentIsWhole'
  <2>1. CASE fetch' = NoFetch
    BY <2>1 DEF NoFetch, FetchOK, DocumentIsWhole
  <2>2. CASE fetch.stage \notin {"idle", "answered"} /\ fetch' = fetch /\ fetch.key \notin keys
    BY <2>2 DEF FetchOK, DocumentIsWhole, Follows
  <2>3. CASE /\ fetch.stage \notin {"idle", "answered"}
             /\ fetch' = [fetch EXCEPT !.gone = TRUE]
    <3>1. fetch' = [stage |-> fetch.stage, key |-> fetch.key, doc |-> fetch.doc,
                    texts |-> fetch.texts, versions |-> fetch.versions, gone |-> TRUE]
      BY <2>3 DEF FetchOK
    <3> QED
      BY <3>1 DEF FetchOK, DocumentIsWhole
  <2>4. CASE /\ fetch.stage \notin {"idle", "answered"} /\ v # <<>>
             /\ fetch' = [fetch EXCEPT !.versions = @ \cup {v}]
    <3>1. fetch' = [stage |-> fetch.stage, key |-> fetch.key, doc |-> fetch.doc,
                    texts |-> fetch.texts, versions |-> fetch.versions \cup {v},
                    gone |-> fetch.gone]
      BY <2>4 DEF FetchOK
    <3>2. fetch.stage # "answered"
      BY <2>4
    <3>3. ASSUME fetch.stage = "found", ~fetch.gone
          PROVE  /\ fetch.doc \in DOMAIN docs'
                 /\ docs'[fetch.doc].key = fetch.key
                 /\ docs'[fetch.doc].version \in fetch.versions \cup {v}
      <4>1. /\ fetch.doc \in DOMAIN docs /\ docs[fetch.doc].key = fetch.key
            /\ docs[fetch.doc].version \in fetch.versions
        BY <3>3 DEF FetchOK
      <4> QED
        BY <2>4, <4>1 DEF Follows
    <3> QED
      BY <3>1, <3>2, <3>3 DEF FetchOK, DocumentIsWhole
  <2> QED
    BY <2>1, <2>2, <2>3, <2>4 DEF Disturb
<1> QED
  BY <1>1, <1>2

-----------------------------------------------------------------------------
(* The steps of a search. *)

\* What the comparison remembers is what the chunks say now.
LEMMA CompareOK ==
  ASSUME RowsOK, SearchOK, CompareVectors
  PROVE  SearchOK' /\ SearchIsTrue'
<1>1. search' = [stage |-> "compared", mode |-> search.mode, words |-> search.words,
                 near |-> [c \in DOMAIN chunks |-> Near[chunks[c].text]],
                 lexical |-> search.lexical, ranked |-> search.ranked,
                 hits |-> search.hits, touched |-> search.touched]
  BY DEF CompareVectors, SearchOK
<1>2. docs' = docs /\ chunks' = chunks
  BY DEF CompareVectors, Reading
<1>3. IsFiniteSet(DOMAIN chunks)
  BY IdsAreFinite DEF RowsOK
<1> QED
  BY <1>1, <1>2, <1>3 DEF SearchOK, SearchIsTrue, KeyOf

\* The words find the chunks that have them, since the index is what the chunks say;
\* and no more is cut off than K leaves over.
LEMMA MatchOK ==
  ASSUME RowsOK, IndexIsContent, SearchOK, NEW accepted \in BOOLEAN, MatchWords(accepted)
  PROVE  SearchOK' /\ SearchIsTrue'
<1> DEFINE lexical == IF search.mode = "semantic" THEN {} ELSE Lexical(accepted)
           words == IF accepted THEN Matching ELSE Verbatim
<1>1. PICK top \in FirstOf(DOMAIN search.near \cup lexical, lexical) :
        search' = [search EXCEPT !.stage = "ranked", !.words = words,
                                 !.lexical = lexical, !.ranked = top]
  BY DEF MatchWords
<1>2. \A c \in DOMAIN chunks :
        (c \in lexical) = (search.mode # "semantic" /\ chunks[c].text \in words)
  <2> SUFFICES ASSUME NEW c \in DOMAIN chunks
               PROVE  c \in lexical <=> search.mode # "semantic" /\ chunks[c].text \in words
    OBVIOUS
  <2>1. CASE search.mode # "semantic" /\ accepted
    <3>1. c \in lexical <=> \E f \in index : f[1] \in Matching /\ f[2] = c
      BY <2>1 DEF Lexical
    <3>2. \A f \in index : f[2] = c => f[1] = chunks[c].text
      BY DEF Indexed, IndexIsContent
    <3>3. <<chunks[c].text, c>> \in index
      BY DEF Indexed, IndexIsContent
    <3> QED
      BY <2>1, <3>1, <3>2, <3>3
  <2>2. CASE search.mode # "semantic" /\ ~accepted
    BY <2>2 DEF Lexical
  <2> QED
    BY <2>1, <2>2
<1>3. lexical \subseteq DOMAIN chunks
  BY DEF Lexical
<1> HIDE DEF lexical, words
<1>4. search' = [stage |-> "ranked", mode |-> search.mode, words |-> words,
                 near |-> search.near, lexical |-> lexical, ranked |-> top,
                 hits |-> search.hits, touched |-> search.touched]
  BY <1>1 DEF SearchOK
<1>5. search.stage = "compared" /\ docs' = docs /\ chunks' = chunks
  BY DEF MatchWords, Reading
<1>6. DOMAIN search.near \cup lexical \subseteq top \/ Cardinality(top) = K
  <2> DEFINE found == DOMAIN search.near \cup lexical
  <2>1. IsFiniteSet(found)
    <3>1. IsFiniteSet(DOMAIN chunks)
      BY IdsAreFinite DEF RowsOK
    <3>2. IsFiniteSet(lexical)
      BY <1>3, <3>1, FS_Subset
    <3> QED
      BY <1>5, <3>2, FS_Union DEF SearchOK
  <2>2. /\ top \in SUBSET found
        /\ Cardinality(top) = IF Cardinality(found) < K THEN Cardinality(found) ELSE K
    BY DEF FirstOf
  <2> HIDE DEF found
  <2>3. CASE Cardinality(top) = Cardinality(found)
    BY <2>1, <2>2, <2>3, FS_Subset DEF found
  <2> QED
    BY <2>2, <2>3
<1>7. \A c \in DOMAIN chunks :
        (search.mode # "semantic" /\ chunks[c].text \in words) => c \in top \/ Cardinality(top) = K
  BY <1>2, <1>6
<1> QED
  BY <1>2, <1>4, <1>5, <1>7 DEF SearchOK, SearchIsTrue, KeyOf, Sought

\* A hit is hydrated with what its row says now: of what nobody touched, that is what
\* was compared and matched.
LEMMA HydrateOK ==
  ASSUME RowsOK, SearchOK, Hydrate
  PROVE  SearchOK' /\ SearchIsTrue'
<1> DEFINE hit(c) == [id |-> c, text |-> chunks[c].text, key |-> docs[chunks[c].doc].key,
                      near |-> IF c \in DOMAIN search.near THEN {search.near[c]} ELSE {},
                      matched |-> c \in search.lexical]
           hits == {hit(c) : c \in search.ranked \cap DOMAIN chunks}
<1>1. search' = [stage |-> "answered", mode |-> search.mode, words |-> search.words,
                 near |-> search.near, lexical |-> search.lexical, ranked |-> search.ranked,
                 hits |-> hits, touched |-> search.touched]
  BY DEF Hydrate, SearchOK
<1>2. search.stage = "ranked" /\ docs' = docs /\ chunks' = chunks
  BY DEF Hydrate, Reading
<1>3. SearchOK'
  BY <1>1 DEF SearchOK
<1>4. ASSUME NEW c \in DOMAIN chunks, KeyOf(c) \notin search.touched
      PROVE  /\ \A h \in hits : h.id = c =>
                  /\ h.text = chunks[c].text
                  /\ h.near \subseteq {Near[h.text]}
                  /\ h.matched = (search.mode # "semantic" /\ h.text \in search.words)
             /\ search.mode # "semantic" /\ chunks[c].text \in search.words =>
                  c \in {h.id : h \in hits} \/ Cardinality(search.ranked) = K
  <2>1. ASSUME NEW h \in hits, h.id = c
        PROVE  h = hit(c)
    BY <2>1
  <2>2. /\ hit(c).text = chunks[c].text
        /\ hit(c).near \subseteq {Near[chunks[c].text]}
        /\ hit(c).matched = (search.mode # "semantic" /\ chunks[c].text \in search.words)
    BY <1>2, <1>4 DEF SearchOK, Sought
  <2>3. search.mode # "semantic" /\ chunks[c].text \in search.words =>
          c \in search.ranked \/ Cardinality(search.ranked) = K
    BY <1>2, <1>4 DEF SearchOK, Sought
  <2>4. c \in search.ranked => hit(c) \in hits /\ hit(c).id = c
    OBVIOUS
  <2> HIDE DEF hit, hits
  <2> QED
    BY <2>1, <2>2, <2>3, <2>4
<1> HIDE DEF hits
<1>5. SearchIsTrue'
  BY <1>1, <1>2, <1>4 DEF SearchIsTrue, KeyOf
<1> QED
  BY <1>3, <1>5

-----------------------------------------------------------------------------

\* Nothing is read or written before the first step.
LEMMA InitOK == Init => IInv
<1> SUFFICES ASSUME Init PROVE IInv
  OBVIOUS
<1>1. DOMAIN docs = {} /\ DOMAIN chunks = {} /\ index = {}
  BY DEF Init, Empty
<1>2. RowsOK /\ IndexIsContent
  BY <1>1 DEF RowsOK, IdsOK, IndexIsContent, Indexed
<1>3. SearchOK /\ SearchIsTrue
  BY DEF Init, NoSearch, SearchOK, SearchIsTrue
<1>4. FetchOK /\ DocumentIsWhole
  BY DEF Init, NoFetch, FetchOK, DocumentIsWhole
<1> QED
  BY <1>2, <1>3, <1>4 DEF IInv

\* Every step keeps the invariant.
LEMMA StepOK == IInv /\ [Next]_vars => IInv'
<1> SUFFICES ASSUME IInv, [Next]_vars PROVE IInv'
  OBVIOUS
<1>1. RowsOK /\ IndexIsContent /\ SearchOK /\ FetchOK /\ SearchIsTrue /\ DocumentIsWhole
  BY DEF IInv
<1>2. ASSUME NEW key \in Keys, NEW v \in Versions, Replace(key, v)
      PROVE  IInv'
  <2>1. RowsOK' /\ IndexIsContent' /\ Spares({key}) /\ Follows({key}, v)
    BY <1>1, <1>2, ReplaceOK
  <2>2. Disturb({key}, v)
    BY <1>2 DEF Replace
  <2> QED
    BY <1>1, <2>1, <2>2, DisturbOK DEF IInv
<1>3. ASSUME NEW keys \in SUBSET Keys, Delete(keys)
      PROVE  IInv'
  <2>1. RowsOK' /\ IndexIsContent' /\ Spares(keys) /\ Follows(keys, <<>>)
    BY <1>1, <1>3, DeleteOK
  <2>2. Disturb(keys, <<>>)
    BY <1>3 DEF Delete
  <2> QED
    BY <1>1, <2>1, <2>2, DisturbOK DEF IInv
<1>4. ASSUME docs' = docs, chunks' = chunks, index' = index
      PROVE  RowsOK' /\ IndexIsContent'
  <2>1. \A d, v : Whole(d, v)' = Whole(d, v)
    BY <1>4 DEF Whole, ChunksOf
  <2> QED
    BY <1>1, <1>4, <2>1 DEF RowsOK, IdsOK, IndexIsContent, Indexed
<1>5. ASSUME docs' = docs, fetch' = fetch
      PROVE  FetchOK' /\ DocumentIsWhole'
  BY <1>1, <1>5 DEF FetchOK, DocumentIsWhole
<1>6. ASSUME docs' = docs, chunks' = chunks, search' = search
      PROVE  SearchOK' /\ SearchIsTrue'
  BY <1>1, <1>6 DEF SearchOK, SearchIsTrue, KeyOf, Sought
<1>7. ASSUME NEW mode \in Modes, Ask(mode)
      PROVE  IInv'
  <2>1. SearchOK' /\ SearchIsTrue'
    <3>1. search' = [NoSearch EXCEPT !.stage = IF mode = "keyword" THEN "compared" ELSE "asked",
                                     !.mode = mode]
      BY <1>7 DEF Ask
    <3>2. search'.near = Empty /\ IsFiniteSet(DOMAIN Empty) /\ DOMAIN Empty = {}
      BY <3>1, FS_EmptySet DEF NoSearch, Empty
    <3>3. search'.stage \in {"asked", "compared"}
      BY <3>1 DEF NoSearch
    <3>4. search' = [stage |-> search'.stage, mode |-> search'.mode, words |-> search'.words,
                     near |-> search'.near, lexical |-> search'.lexical,
                     ranked |-> search'.ranked, hits |-> search'.hits,
                     touched |-> search'.touched]
      BY <3>1 DEF NoSearch
    <3> QED
      BY <3>2, <3>3, <3>4 DEF SearchOK, SearchIsTrue
  <2>2. FetchOK' /\ DocumentIsWhole'
    BY <1>7 DEF Ask, NoFetch, FetchOK, DocumentIsWhole
  <2>3. RowsOK' /\ IndexIsContent'
    BY <1>4, <1>7 DEF Ask, Reading
  <2> QED
    BY <2>1, <2>2, <2>3 DEF IInv
<1>8. ASSUME CompareVectors
      PROVE  IInv'
  BY <1>1, <1>4, <1>5, <1>8, CompareOK DEF CompareVectors, Reading, IInv
<1>9. ASSUME NEW accepted \in BOOLEAN, MatchWords(accepted)
      PROVE  IInv'
  BY <1>1, <1>4, <1>5, <1>9, MatchOK DEF MatchWords, Reading, IInv
<1>10. ASSUME Hydrate
       PROVE  IInv'
  BY <1>1, <1>4, <1>5, <1>10, HydrateOK DEF Hydrate, Reading, IInv
<1>11. ASSUME NEW key \in Keys, FindRow(key)
       PROVE  IInv'
  <2>1. PICK d \in RowsOf(key) :
          fetch' = [NoFetch EXCEPT !.stage = "found", !.key = key, !.doc = d,
                                   !.versions = {docs[d].version}]
    BY <1>11 DEF FindRow
  <2>2. docs' = docs /\ chunks' = chunks /\ index' = index /\ search' = NoSearch
    BY <1>11 DEF FindRow, Reading
  <2>3. FetchOK' /\ DocumentIsWhole'
    BY <2>1, <2>2 DEF FetchOK, DocumentIsWhole, NoFetch, RowsOf
  <2>4. SearchOK' /\ SearchIsTrue'
    BY <2>2 DEF NoSearch, SearchOK, SearchIsTrue
  <2> QED
    BY <1>4, <2>2, <2>3, <2>4 DEF IInv
<1>12. ASSUME ReadChunks
       PROVE  IInv'
  <2>1. PICK o \in Ordered(ChunksOf({fetch.doc})) :
          fetch' = [fetch EXCEPT !.stage = "answered",
                                 !.texts = [i \in DOMAIN o |-> chunks[o[i]].text]]
    BY <1>12 DEF ReadChunks
  <2>2. /\ docs' = docs /\ chunks' = chunks /\ index' = index /\ search' = search
        /\ fetch.stage = "found"
    BY <1>12 DEF ReadChunks, Reading
  <2>3. fetch' = [stage |-> "answered", key |-> fetch.key, doc |-> fetch.doc,
                  texts |-> [i \in DOMAIN o |-> chunks[o[i]].text],
                  versions |-> fetch.versions, gone |-> fetch.gone]
    BY <1>1, <2>1 DEF FetchOK
  <2>4. ~fetch.gone => [i \in DOMAIN o |-> chunks[o[i]].text] \in fetch.versions
    <3> SUFFICES ASSUME ~fetch.gone
                 PROVE  [i \in DOMAIN o |-> chunks[o[i]].text] \in fetch.versions
      OBVIOUS
    <3>1. fetch.doc \in DOMAIN docs /\ docs[fetch.doc].version \in fetch.versions
      BY <1>1, <2>2 DEF FetchOK
    <3>2. docs[fetch.doc].version \in Versions /\ Whole(fetch.doc, docs[fetch.doc].version)
      BY <1>1, <3>1 DEF RowsOK
    <3>3. [i \in DOMAIN o |-> chunks[o[i]].text] = docs[fetch.doc].version
      BY <3>2, OrderedIsVersion
    <3> QED
      BY <3>1, <3>3
  <2>5. FetchOK' /\ DocumentIsWhole'
    BY <2>3, <2>4 DEF FetchOK, DocumentIsWhole
  <2> QED
    BY <1>4, <1>6, <2>2, <2>5 DEF IInv
<1>13. CASE UNCHANGED vars
  BY <1>4, <1>5, <1>6, <1>13 DEF vars, IInv
<1> QED
  BY <1>2, <1>3, <1>7, <1>8, <1>9, <1>10, <1>11, <1>12, <1>13 DEF Next, Write, Search

\* Whatever is replaced, cleared and read, in whichever order: the index is what the
\* chunks say.
THEOREM IndexIsContentTheorem == Spec => []IndexIsContent
<1>1. IInv => IndexIsContent
  BY DEF IInv
<1> QED
  BY <1>1, InitOK, StepOK, PTL DEF Spec

\* For every number of documents and changes, a search tells the truth of what nobody
\* touched while it ran, and a fetched document is one version of it.
THEOREM ReadersSeeWholesTheorem == Spec => []ReadersSeeWholes
<1>1. IInv => ReadersSeeWholes
  BY DEF IInv, ReadersSeeWholes
<1> QED
  BY <1>1, InitOK, StepOK, PTL DEF Spec

-----------------------------------------------------------------------------
(* Skills. *)

\* The store answers for body b at time t: its document is complete, and b does not outrank it.
As(b, t) == [hash |-> b, mtime |-> t, complete |-> TRUE]
HeldIn(D, b, t) == \E d \in D : d.complete /\ ~Outranks(As(b, t), d)
Held(b, t) == HeldIn(doc, b, t)

HeldOf(f) == \A b \in body[f] : Held(b, mtime[f])

\* A ledger, on disk or in hand, says of no file more than the store answers for.
Honest(l) == \A f \in DOMAIN l : l[f] <= rev[f] /\ (l[f] = rev[f] => HeldOf(f))

\* A file has no body before it has a time.
FilesOK == \A f \in Sources : mtime[f] <= clock /\ (body[f] # {} => rev[f] # 0 /\ mtime[f] # 0)

\* What is known of the authority of the stored document is that of a body in some file.
AuthorityOK ==
  \A d \in doc : d.mtime # Unknown => \E f \in Sources : d.hash \in body[f] /\ d.mtime <= mtime[f]

\* The file in hand: its bodies are the file's, and unless it has grown since it was
\* read, or an embedding failed, the store answers for those that are placed.
HandOK ==
  phase \in {"stat", "place"} =>
    \E f \in Sources :
      /\ hand.of = {f} /\ hand.digest <= rev[f] /\ hand.bodies \subseteq body[f]
      /\ phase = "stat" /\ hand.digest = rev[f] => hand.bodies = body[f]
      /\ phase = "place" =>
           /\ hand.time <= mtime[f] /\ (hand.bodies # {} => hand.time # 0)
           /\ hand.digest = rev[f] /\ ~hand.failed =>
                hand.time = mtime[f] /\ \A b \in body[f] \ hand.bodies : Held(b, mtime[f])

SkillInv ==
  /\ SkillTypeOK /\ FilesOK /\ AuthorityOK /\ HandOK
  /\ Honest(ledger) /\ (phase \in {"next", "stat", "place"} => Honest(led))
  /\ phase = "wipe" => ledger = NoLedger

LEMMA RanksAreOrdered ==
  ASSUME NEW x \in Doc, NEW y \in Doc, NEW z \in Doc
  PROVE  /\ ~Outranks(x, x)
         /\ Outranks(y, z) /\ ~Outranks(x, z) => ~Outranks(x, y)
<1>1. \A d \in Doc : d.mtime \in 0 .. MaxTime /\ d.hash \in Bodies
  BY DEF Doc
<1>2. \A d \in Doc : d.mtime \in Nat
  BY <1>1, AuthorityAssumption, SMT
<1>3. Bodies \subseteq Nat
  BY AuthorityAssumption
<1>4. \A d \in Doc : d.hash \in Nat
  BY <1>1, <1>3
<1> QED
  BY <1>2, <1>4 DEF Outranks

LEMMA AsIsDoc ==
  ASSUME NEW b \in Bodies, NEW t \in 0 .. MaxTime
  PROVE  As(b, t) \in Doc
  BY DEF As, Doc

\* A document that outranks the one there is answers for whatever that one answers for.
LEMMA HigherHolds ==
  ASSUME NEW d \in Doc, NEW e \in Doc, e.complete, Outranks(e, d) \/ ~d.complete
  PROVE  \A b \in Bodies : \A t \in 0 .. MaxTime : HeldIn({d}, b, t) => HeldIn({e}, b, t)
  BY RanksAreOrdered, AsIsDoc DEF HeldIn

\* What the store answers for it goes on answering for when a body is placed, and it
\* answers for that body as well.
LEMMA PlacingHolds ==
  ASSUME SkillTypeOK, NEW b \in Bodies, Dedupe(b) \/ ReplaceBody(b)
  PROVE  /\ \A c \in Bodies : \A t \in 0 .. MaxTime : HeldIn(doc, c, t) => HeldIn(doc', c, t)
         /\ HeldIn(doc', b, hand.time)
         /\ doc' \in {{}} \cup {{d} : d \in Doc}
         /\ \A d \in doc' : d \in doc \/ d = As(b, hand.time)
<1>1. As(b, hand.time) \in Doc /\ As(b, hand.time) = Candidate(b) /\ Candidate(b).complete
      /\ Candidate(b).hash = b
  <2>1. hand.time \in 0 .. MaxTime
    BY DEF SkillTypeOK
  <2> QED
    BY <2>1, AsIsDoc DEF Candidate, As
<1>2. \A d \in doc : d \in Doc /\ doc = {d}
  BY DEF SkillTypeOK
<1>3. HeldIn({Candidate(b)}, b, hand.time)
  BY <1>1, RanksAreOrdered DEF HeldIn
<1>4. CASE Dedupe(b)
  <2>1. PICK d \in doc : d.complete /\ (d.hash = b \/ ~Outranks(Candidate(b), d))
    BY <1>4 DEF Dedupe, Kept
  <2>2. doc' = {Raised(b, d)} /\ d \in Doc /\ doc = {d}
    BY <1>2, <1>4, <2>1 DEF Dedupe
  <2>3. CASE d.hash = b /\ Outranks(Candidate(b), d)
    <3>1. doc' = {Candidate(b)}
      BY <2>2, <2>3 DEF Raised
    <3> QED
      BY <1>1, <1>3, <2>2, <2>3, <3>1, HigherHolds
  <2>4. CASE ~(d.hash = b /\ Outranks(Candidate(b), d))
    <3>1. doc' = doc /\ ~Outranks(Candidate(b), d)
      BY <2>1, <2>2, <2>4 DEF Raised
    <3>2. HeldIn(doc, b, hand.time)
      BY <1>1, <2>1, <3>1 DEF HeldIn
    <3> QED
      BY <2>2, <3>1, <3>2
  <2> QED
    BY <2>3, <2>4
<1>5. CASE ReplaceBody(b)
  <2>1. doc' = {Candidate(b)}
    BY <1>5 DEF ReplaceBody
  <2>2. \A d \in doc : d.complete => Outranks(Candidate(b), d)
    BY <1>5 DEF ReplaceBody, Kept
  <2>3. \A c \in Bodies : \A t \in 0 .. MaxTime : HeldIn(doc, c, t) => HeldIn(doc', c, t)
    <3>1. CASE doc = {}
      BY <3>1 DEF HeldIn
    <3>2. CASE doc # {}
      BY <1>1, <1>2, <2>1, <2>2, <3>2, HigherHolds
    <3> QED
      BY <3>1, <3>2
  <2> QED
    BY <1>1, <1>3, <2>1, <2>3
<1> QED
  BY <1>4, <1>5

\* What is known about bodies lasts while files and document stay.
LEMMA FilesStay ==
  ASSUME UNCHANGED <<files, doc>>
  PROVE  /\ FilesOK => FilesOK'
         /\ AuthorityOK => AuthorityOK'
         /\ \A b, t : Held(b, t) => Held(b, t)'
         /\ \A l : Honest(l) => Honest(l)'
  BY DEF FilesOK, AuthorityOK, Held, HeldOf, Honest, files

\* While the build leaves the store alone, all there is to know about its file in hand.
LEMMA SkillTypes == ASSUME SkillTypeOK, [SkillNext]_skillVars PROVE SkillTypeOK'
<1> USE DEF SkillTypeOK
<1>1. ASSUME NEW f \in Sources, Grow(f) PROVE SkillTypeOK'
  <2>1. clock' \in 0 .. MaxTime
    BY <1>1, AuthorityAssumption DEF Grow
  <2>2. rev' \in [Sources -> 0 .. MaxAppends]
    BY <1>1, AuthorityAssumption DEF Grow
  <2>3. body' \in [Sources -> SUBSET Bodies] /\ mtime' \in [Sources -> 0 .. MaxTime]
    BY <1>1, <2>1 DEF Grow
  <2> QED
    BY <1>1, <2>1, <2>2, <2>3 DEF Grow
<1>2. CASE BeginBuild
  BY <1>2 DEF BeginBuild, files, Phases
<1>3. ASSUME NEW f \in Sources, Skip(f) PROVE SkillTypeOK'
  BY <1>3 DEF Skip, files, Phases
<1>4. ASSUME NEW f \in Sources, Read(f) PROVE SkillTypeOK'
  BY <1>4, AuthorityAssumption DEF Read, files, Phases
<1>5. ASSUME NEW f \in Sources, Stat(f) PROVE SkillTypeOK'
  BY <1>5 DEF Stat, files, Phases
<1>6. ASSUME NEW b \in Bodies, Dedupe(b) \/ ReplaceBody(b) PROVE SkillTypeOK'
  <2>1. doc' \in {{}} \cup {{d} : d \in Doc}
    BY <1>6, PlacingHolds
  <2>2. hand' = [hand EXCEPT !.bodies = @ \ {b}] /\ UNCHANGED <<files, ledger, phase, led, todo, harms>>
    BY <1>6 DEF Dedupe, ReplaceBody, Offer
  <2> QED
    BY <2>1, <2>2 DEF files
<1>7. ASSUME NEW b \in Bodies, EmbedFails(b) PROVE SkillTypeOK'
  BY <1>7 DEF EmbedFails, Offer, files
<1>8. ASSUME NEW f \in Sources, FinishFile(f) PROVE SkillTypeOK'
  BY <1>8, AuthorityAssumption DEF FinishFile, files, Phases, EmptyHand
<1>9. CASE SaveLedger
  BY <1>9 DEF SaveLedger, files, Phases, NoLedger
<1>10. CASE BeginWipe
  BY <1>10, AuthorityAssumption DEF BeginWipe, Fault, files, Phases, NoLedger
<1>11. CASE Wipe
  BY <1>11 DEF Wipe, files, Phases
<1>12. CASE Crash
  BY <1>12, AuthorityAssumption DEF Crash, Fault, files, Phases, NoLedger, EmptyHand
<1>13. CASE UNCHANGED skillVars
  BY <1>13 DEF skillVars
<1> QED
  BY <1>1, <1>2, <1>3, <1>4, <1>5, <1>6, <1>7, <1>8, <1>9, <1>10, <1>11, <1>12, <1>13
     DEF SkillNext, Step

\* A file in hand that grows is no longer what was read; a ledger that covered it no
\* longer does.
LEMMA GrowingKeepsInv ==
  ASSUME SkillInv, SkillTypeOK', NEW f \in Sources, Grow(f)
  PROVE  SkillInv'
<1> USE DEF SkillInv
<1>1. /\ doc' = doc /\ ledger' = ledger /\ led' = led /\ phase' = phase /\ hand' = hand
      /\ \A g \in Sources : g # f => body'[g] = body[g] /\ rev'[g] = rev[g] /\ mtime'[g] = mtime[g]
      /\ rev'[f] = rev[f] + 1 /\ mtime'[f] = clock' /\ body[f] \subseteq body'[f]
      /\ clock <= clock' /\ clock' # 0
  BY AuthorityAssumption DEF Grow, SkillTypeOK
<1>2. \A g \in Sources : rev[g] \in Nat /\ mtime[g] \in Nat /\ clock \in Nat /\ clock' \in Nat
                         /\ mtime[g] <= clock
  BY AuthorityAssumption DEF SkillTypeOK, FilesOK
<1>3. \A g \in Sources : mtime[g] <= mtime'[g] /\ body[g] \subseteq body'[g]
  BY <1>1, <1>2
<1>4. FilesOK'
  BY <1>1, <1>2 DEF FilesOK
<1>5. AuthorityOK'
  <2> SUFFICES ASSUME NEW d \in doc, d.mtime # Unknown
               PROVE  \E g \in Sources : d.hash \in body'[g] /\ d.mtime <= mtime'[g]
    BY <1>1 DEF AuthorityOK, Unknown
  <2>1. PICK g \in Sources : d.hash \in body[g] /\ d.mtime <= mtime[g]
    BY DEF AuthorityOK
  <2>2. d.mtime \in Nat
    BY AuthorityAssumption DEF SkillTypeOK, Doc
  <2>3. mtime'[g] \in Nat
    BY <1>1, <1>2
  <2> QED
    BY <1>2, <1>3, <2>1, <2>2, <2>3
<1>6. ASSUME NEW l, l \in {ledger, led}, Honest(l) PROVE Honest(l)'
  <2>1. \A g \in DOMAIN l : g \in Sources /\ l[g] \in Nat
    BY <1>6, AuthorityAssumption DEF SkillTypeOK
  <2>2. ~(f \in DOMAIN l /\ l[f] = rev'[f])
    BY <1>1, <1>2, <1>6, <2>1 DEF Honest
  <2> QED
    BY <1>1, <1>2, <1>6, <2>1, <2>2 DEF Honest, HeldOf, Held
<1>7. HandOK'
  <2> SUFFICES ASSUME phase \in {"stat", "place"} PROVE HandOK'
    BY <1>1 DEF HandOK
  <2>1. PICK g \in Sources :
          /\ hand.of = {g} /\ hand.digest <= rev[g] /\ hand.bodies \subseteq body[g]
          /\ phase = "stat" /\ hand.digest = rev[g] => hand.bodies = body[g]
          /\ phase = "place" =>
               /\ hand.time <= mtime[g] /\ (hand.bodies # {} => hand.time # 0)
               /\ hand.digest = rev[g] /\ ~hand.failed =>
                    hand.time = mtime[g] /\ \A b \in body[g] \ hand.bodies : Held(b, mtime[g])
    BY DEF HandOK
  <2>2. hand.digest \in Nat /\ hand.time \in Nat /\ mtime'[g] \in Nat /\ rev'[g] \in Nat
    BY <1>1, <1>2, AuthorityAssumption DEF SkillTypeOK
  <2>3. /\ hand.digest <= rev'[g] /\ hand.bodies \subseteq body'[g]
        /\ hand.time <= mtime[g] => hand.time <= mtime'[g]
    BY <1>1, <1>2, <1>3, <2>1, <2>2
  <2>4. g = f => hand.digest # rev'[g]
    BY <1>1, <1>2, <2>1, <2>2
  <2>5. phase = "stat" /\ hand.digest = rev'[g] => hand.bodies = body'[g]
    BY <1>1, <2>1, <2>4
  <2>6. phase = "place" /\ hand.digest = rev'[g] /\ ~hand.failed =>
          hand.time = mtime'[g] /\ \A b \in body'[g] \ hand.bodies : HeldIn(doc, b, mtime'[g])
    BY <1>1, <2>1, <2>4 DEF Held
  <2>7. hand' = hand /\ phase' = phase /\ doc' = doc
    BY <1>1
  <2> QED
    BY <2>1, <2>3, <2>5, <2>6, <2>7 DEF HandOK, Held
<1> QED
  BY <1>1, <1>4, <1>5, <1>6, <1>7

LEMMA PlacingKeepsInv ==
  ASSUME SkillInv, SkillTypeOK', NEW b \in Bodies, Dedupe(b) \/ ReplaceBody(b)
  PROVE  SkillInv'
<1> USE DEF SkillInv
<1>1. /\ UNCHANGED <<files, ledger, led>> /\ phase = "place" /\ phase' = "place" /\ b \in hand.bodies
      /\ hand' = [hand EXCEPT !.bodies = @ \ {b}]
  BY DEF Dedupe, ReplaceBody, Offer
<1>2. /\ body' = body /\ rev' = rev /\ mtime' = mtime /\ clock' = clock
      /\ hand'.of = hand.of /\ hand'.digest = hand.digest /\ hand'.time = hand.time
      /\ hand'.failed = hand.failed /\ hand'.bodies = hand.bodies \ {b}
  BY <1>1 DEF files, SkillTypeOK
<1>3. \A g \in Sources : \A c \in body[g] : Held(c, mtime[g]) => HeldIn(doc', c, mtime[g])
  BY PlacingHolds DEF SkillTypeOK, Held
<1>4. PICK g \in Sources :
          /\ hand.of = {g} /\ hand.digest <= rev[g] /\ hand.bodies \subseteq body[g]
          /\ hand.time <= mtime[g] /\ (hand.bodies # {} => hand.time # 0)
          /\ hand.digest = rev[g] /\ ~hand.failed =>
               hand.time = mtime[g] /\ \A c \in body[g] \ hand.bodies : Held(c, mtime[g])
  BY <1>1 DEF HandOK
<1>5. HeldIn(doc', b, hand.time) /\ \A d \in doc' : d \in doc \/ d = As(b, hand.time)
  BY PlacingHolds
<1>6. FilesOK'
  BY <1>2 DEF FilesOK
<1>7. AuthorityOK'
  BY <1>1, <1>2, <1>4, <1>5 DEF AuthorityOK, As
<1>8. ASSUME NEW l, l \in {ledger, led}, Honest(l) PROVE Honest(l)'
  BY <1>2, <1>3, <1>8 DEF Honest, HeldOf, Held, SkillTypeOK
<1>9. HandOK'
  BY <1>1, <1>2, <1>3, <1>4, <1>5 DEF HandOK, Held
<1> QED
  BY <1>1, <1>6, <1>7, <1>8, <1>9

LEMMA SkillInvariance == SkillSpec => []SkillInv
<1>1. SkillInit => SkillInv
  BY AuthorityAssumption
     DEF SkillInit, SkillInv, SkillTypeOK, FilesOK, AuthorityOK, HandOK, Honest, NoLedger, Unknown,
         EmptyHand, Phases, Doc
<1>2. SkillInv /\ [SkillNext]_skillVars => SkillInv'
  <2> SUFFICES ASSUME SkillInv, [SkillNext]_skillVars PROVE SkillInv'
    OBVIOUS
  <2> USE DEF SkillInv
  <2>0. SkillTypeOK'
    BY SkillTypes
  <2>1. ASSUME NEW f \in Sources, Grow(f) PROVE SkillInv'
    BY <2>0, <2>1, GrowingKeepsInv
  <2>2. ASSUME NEW b \in Bodies, Dedupe(b) \/ ReplaceBody(b) PROVE SkillInv'
    BY <2>0, <2>2, PlacingKeepsInv
  <2>3. CASE Wipe
    BY <2>0, <2>3 DEF Wipe, files, FilesOK, AuthorityOK, HandOK, Honest, NoLedger
  <2>4. ASSUME UNCHANGED <<files, doc>>
        PROVE  FilesOK' /\ AuthorityOK' /\ (\A l : Honest(l) => Honest(l)')
    BY <2>4, FilesStay
  <2>5. CASE BeginBuild
    BY <2>0, <2>4, <2>5 DEF BeginBuild, HandOK
  <2>6. ASSUME NEW f \in Sources, Skip(f) PROVE SkillInv'
    BY <2>0, <2>4, <2>6 DEF Skip, HandOK
  <2>7. ASSUME NEW f \in Sources, Read(f) PROVE SkillInv'
    <3>1. HandOK'
      BY <2>7 DEF Read, HandOK, files, SkillTypeOK
    <3> QED
      BY <2>0, <2>4, <2>7, <3>1 DEF Read
  <2>8. ASSUME NEW f \in Sources, Stat(f) PROVE SkillInv'
    <3>1. HandOK'
      BY <2>8 DEF Stat, HandOK, FilesOK, files, SkillTypeOK
    <3> QED
      BY <2>0, <2>4, <2>8, <3>1 DEF Stat
  <2>9. ASSUME NEW b \in Bodies, EmbedFails(b) PROVE SkillInv'
    <3>1. HandOK'
      BY <2>9 DEF EmbedFails, Offer, HandOK, files, SkillTypeOK
    <3> QED
      BY <2>0, <2>4, <2>9, <3>1 DEF EmbedFails, Offer
  <2>10. ASSUME NEW f \in Sources, FinishFile(f) PROVE SkillInv'
    <3>1. Honest(led')
      BY <2>10 DEF FinishFile, HandOK, Honest, HeldOf
    <3> QED
      BY <2>0, <2>4, <2>10, <3>1 DEF FinishFile, HandOK
  <2>11. CASE SaveLedger
    BY <2>0, <2>4, <2>11 DEF SaveLedger, HandOK
  <2>12. CASE BeginWipe
    BY <2>0, <2>4, <2>12 DEF BeginWipe, HandOK, Honest, NoLedger
  <2>13. CASE Crash
    BY <2>0, <2>4, <2>13 DEF Crash, HandOK
  <2>14. CASE UNCHANGED skillVars
    BY <2>0, <2>4, <2>14 DEF skillVars, files, HandOK, Held
  <2> QED
    BY <2>1, <2>2, <2>3, <2>5, <2>6, <2>7, <2>8, <2>9, <2>10, <2>11, <2>12, <2>13, <2>14
       DEF SkillNext, Step
<1> QED
  BY <1>1, <1>2, PTL DEF SkillSpec

\* ConvergesOnCanonical: once the ledger covers every file as it is, the stored body is the
\* highest-ranked of all the bodies the files carry (transcript_ingest.py:470).
THEOREM ConvergesOnCanonicalTheorem == SkillSpec => []ConvergesOnCanonical
<1>1. SkillInv => ConvergesOnCanonical
  <2> SUFFICES ASSUME SkillInv, Candidates # {},
                      \A f \in Sources : rev[f] # 0 => f \in DOMAIN ledger /\ ledger[f] = rev[f]
               PROVE  \E d \in doc : Canonical(d)
    BY DEF ConvergesOnCanonical
  <2> USE DEF SkillInv
  <2>1. \A f \in Sources : \A b \in body[f] :
          /\ b \in Bodies /\ mtime[f] \in 0 .. MaxTime /\ mtime[f] # 0
          /\ Held(b, mtime[f])
    BY DEF SkillTypeOK, FilesOK, Honest, HeldOf
  <2>2. PICK g \in Sources : \E b \in body[g] : TRUE
    BY DEF Candidates
  <2>3. PICK d \in doc : d.complete /\ \E b \in body[g] : ~Outranks(As(b, mtime[g]), d)
    BY <2>1, <2>2 DEF Held, HeldIn
  <2>4. d \in Doc /\ doc = {d}
    BY DEF SkillTypeOK
  <2>5. \A f \in Sources : \A b \in body[f] : ~Outranks(As(b, mtime[f]), d)
    BY <2>1, <2>4 DEF Held, HeldIn
  <2>6. \A c \in Candidates : \E f \in Sources : \E b \in body[f] : c = As(b, mtime[f])
    BY DEF Candidates, As
  <2>7. d.mtime # Unknown
    BY <2>1, <2>2, <2>4, <2>5, AuthorityAssumption DEF Outranks, As, Unknown, Doc
  <2>8. PICK f \in Sources : d.hash \in body[f] /\ d.mtime <= mtime[f]
    BY <2>7 DEF AuthorityOK
  <2>9. d.mtime = mtime[f]
    BY <2>1, <2>4, <2>5, <2>8, AuthorityAssumption DEF Outranks, As, Doc
  <2>10. d \in Candidates
    <3>1. d = As(d.hash, mtime[f])
      BY <2>3, <2>4, <2>9 DEF Doc, As
    <3> QED
      BY <2>8, <3>1 DEF Candidates, As
  <2> QED
    BY <2>5, <2>6, <2>10 DEF Canonical
<1> QED
  BY <1>1, SkillInvariance, PTL

-----------------------------------------------------------------------------
(* Legacy recovery. *)

RecoveryStages ==
  {"idle", "checking", "next", "preparing", "beginning", "saving", "copying", "verifying", "restoring"}

AtStore == job.at \in {"preparing", "beginning", "saving", "copying", "verifying", "restoring"}

Jobs ==
  [at : RecoveryStages, sel : SUBSET Projects, todo : SUBSET Projects, source : Contents \cup {0},
   ids : SUBSET Projects, now : Projects \cup {0}, existed : BOOLEAN]

JobOK ==
  /\ job \in Jobs
  /\ job.todo \subseteq job.sel
  /\ AtStore => job.now \in job.sel
  /\ job.at \in {"checking", "next"} => job.now = 0
  /\ source \in Contents /\ registered \subseteq Projects
  /\ job.at # "idle" => job.source \in Contents

\* Past its checks an apply does what the approved report says, of projects without conflicts.
AgreedOK ==
  AtStore \/ job.at = "next" =>
    /\ approved.source = job.source /\ approved.registered = job.ids
    /\ \A c \in approved.conflicts : c[1] \notin job.sel

StoresOK ==
  /\ file = [p \in Projects |-> file[p]] /\ backup = [p \in Projects |-> backup[p]]
  /\ \A p \in Projects : IsStore(file[p])

\* A store that this apply created holds nothing that came from the shared database.
CreatedOK ==
  AtStore /\ job.at # "preparing" =>
    /\ file[job.now].here
    /\ ~job.existed => UidsIn(file[job.now]) \cap LegacyUids = {}

BackupOK ==
  job.at \in {"copying", "verifying"} /\ job.existed => backup[job.now] = file[job.now]

\* What is verified and committed was made of the store as it still is.
DraftOK ==
  job.at = "verifying" => draft = Copied(file[job.now], job.source, job.now, job.ids)

RecoveryInv == JobOK /\ AgreedOK /\ StoresOK /\ CreatedOK /\ BackupOK /\ DraftOK

LEMMA LeastIsIn ==
  ASSUME NEW S \in SUBSET Nat, S # {}
  PROVE  Least(S) \in S
  BY Smallest DEF Least

\* What the copy makes of a store: all that was in it is in it as it was, and what is new
\* came from the selected rows.
LEMMA CopiedFacts ==
  ASSUME NEW f, IsStore(f), f.here, NEW v, NEW p, NEW ids
  PROVE  LET g == Copied(f, v, p, ids)
         IN  /\ IsStore(g) /\ g.here
             /\ \A n \in DOMAIN f.notes :
                  /\ n \in DOMAIN g.notes
                  /\ g.notes[n].uid = f.notes[n].uid /\ g.notes[n].status = f.notes[n].status
                  /\ g.notes[n].vec = f.notes[n].vec /\ g.notes[n].rev = f.notes[n].rev
             /\ \A k \in DOMAIN f.docs : k \in DOMAIN g.docs /\ g.docs[k] = f.docs[k]
             /\ \A n \in DOMAIN g.notes \ DOMAIN f.notes :
                  \E r \in NotesOf(v, p, ids) : g.notes[n].uid = Legacies[v].notes[r].uid
<1> DEFINE rows == Legacies[v].notes
           sel == NotesOf(v, p, ids)
           at == Images(f, rows, sel)
           images == {at[r] : r \in sel}
           from == [n \in images |-> rows[CHOOSE r \in sel : at[r] = n]]
           arrived(row) == [uid |-> row.uid, status |-> StatusOf(row), sb |-> Null,
                            vec |-> row.vec, rev |-> RevOf(row)]
           links == {<<at[l[1]], at[l[2]]>> : l \in LinksAmong(v, sel)}
           picked == [d \in DocsOf(v, p, ids) |-> Legacies[v].docs[d]]
           image(k) == CHOOSE d \in DOMAIN picked : picked[d].key = k
           notes2 == [n \in DOMAIN f.notes \cup DOMAIN from |->
                        IF n \notin DOMAIN from THEN f.notes[n]
                        ELSE [IF n \in DOMAIN f.notes THEN KeptRow(f.notes[n], from[n])
                              ELSE arrived(from[n]) EXCEPT !.sb = Pointer(at, n, from[n].sb)]]
           docs2 == [k \in DOMAIN f.docs \cup {picked[d].key : d \in DOMAIN picked} |->
                       IF k \in DOMAIN f.docs THEN f.docs[k]
                       ELSE [hash |-> picked[image(k)].hash, born |-> picked[image(k)].born]]
           g == Copied(f, v, p, ids)
<1>1. g = [f EXCEPT !.notes = notes2, !.links = @ \cup links, !.docs = docs2]
  BY DEF Copied
<1>2. \A n \in images : \E r \in sel : from[n] = rows[r]
  <2> SUFFICES ASSUME NEW n \in images PROVE \E r \in sel : from[n] = rows[r]
    OBVIOUS
  <2>1. \E r \in sel : at[r] = n
    OBVIOUS
  <2> QED
    BY <2>1
<1>3. DOMAIN from = images /\ DOMAIN notes2 = DOMAIN f.notes \cup images
  OBVIOUS
<1> HIDE DEF at, images, from, links, picked, docs2, sel
<1>4. \A n \in DOMAIN f.notes :
        /\ n \in DOMAIN notes2
        /\ notes2[n].uid = f.notes[n].uid /\ notes2[n].status = f.notes[n].status
        /\ notes2[n].vec = f.notes[n].vec /\ notes2[n].rev = f.notes[n].rev
  BY <1>3 DEF KeptRow, IsStore
<1>5. \A n \in DOMAIN notes2 \ DOMAIN f.notes :
        \E r \in sel : notes2[n].uid = rows[r].uid
  BY <1>2, <1>3
<1>6. \A n \in DOMAIN notes2 :
        notes2[n] = [uid |-> notes2[n].uid, status |-> notes2[n].status, sb |-> notes2[n].sb,
                     vec |-> notes2[n].vec, rev |-> notes2[n].rev]
  BY <1>3 DEF KeptRow, IsStore
<1>7. notes2 = [n \in DOMAIN notes2 |-> notes2[n]]
  OBVIOUS
<1>8. \A k \in DOMAIN f.docs : k \in DOMAIN docs2 /\ docs2[k] = f.docs[k]
  BY DEF docs2
<1> HIDE DEF notes2
<1>9. g = [here |-> f.here, notes |-> notes2, links |-> f.links \cup links, docs |-> docs2,
           merges |-> f.merges]
  BY <1>1 DEF IsStore
<1>10. g.notes = notes2 /\ g.docs = docs2 /\ g.here
  BY <1>9
<1>11. IsStore(g)
  BY <1>6, <1>7, <1>9 DEF IsStore
<1> HIDE DEF g
<1> QED
  BY <1>4, <1>5, <1>8, <1>10, <1>11 DEF g, sel

LEMMA TopIsOnTop ==
  ASSUME NEW S, S \subseteq Nat \ {0}, NEW b \in S \cup {0}, \A n \in S : n <= b
  PROVE  Top(S) \in Nat /\ \A n \in S : n <= Top(S)
<1>1. CASE S = {}
  BY <1>1 DEF Top
<1>2. CASE S # {}
  <2>1. b \in S
    <3>1. PICK n \in S : n <= b /\ n \in Nat \ {0}
      BY <1>2
    <3>2. b # 0
      BY <3>1
    <3> QED
      BY <3>2
  <2>2. Top(S) = CHOOSE x \in S : \A y \in S : y <= x
    BY <1>2 DEF Top
  <2>3. Top(S) \in S /\ \A n \in S : n <= Top(S)
    BY <2>1, <2>2
  <2> QED
    BY <2>3
<1> QED
  BY <1>1, <1>2

\* What the edits of a server make of a store: a store, with no uids but its own and
\* the servers', and coherent if it was.
IsRow(r) ==
  \E u, t, b, e, w : r = [uid |-> u, status |-> t, sb |-> b, vec |-> e, rev |-> w]

MadeOf(g, s) ==
  /\ IsStore(g) /\ g.here
  /\ UidsIn(g) \subseteq UidsIn(s) \cup Locals
  /\ \A v : Coherent(s, v) => Coherent(g, v)

LEMMA StoreOfRows ==
  ASSUME NEW ns, NEW ls, NEW ds, NEW ms, NEW g,
         g = [here |-> TRUE, notes |-> ns, links |-> ls, docs |-> ds, merges |-> ms],
         ns = [n \in DOMAIN ns |-> ns[n]],
         \A n \in DOMAIN ns : IsRow(ns[n])
  PROVE  IsStore(g) /\ g.here /\ g.notes = ns /\ g.links = ls
<1>1. \A n \in DOMAIN ns :
        ns[n] = [uid |-> ns[n].uid, status |-> ns[n].status, sb |-> ns[n].sb,
                 vec |-> ns[n].vec, rev |-> ns[n].rev]
  BY DEF IsRow
<1> QED
  BY <1>1 DEF IsStore

LEMMA RowsOfStore ==
  ASSUME NEW s, IsStore(s)
  PROVE  /\ \A n \in DOMAIN s.notes : IsRow(s.notes[n])
         /\ s.notes = [n \in DOMAIN s.notes |-> s.notes[n]]
         /\ s.here \/ (DOMAIN s.notes = {} /\ s.merges = {})
<1>1. DOMAIN Absent.notes = {} /\ Absent.merges = {}
  BY DEF Absent
<1> QED
  BY <1>1 DEF IsStore, IsRow

LEMMA TransitivelyMade ==
  ASSUME NEW f, NEW g, NEW h, MadeOf(g, f), MadeOf(h, g)
  PROVE  MadeOf(h, f)
  BY DEF MadeOf

\* Taking away rows with their links, or changing any column but the uid, leaves a store
\* coherent.
LEMMA ShrunkCoherent ==
  ASSUME NEW s, NEW v, Coherent(s, v), NEW g,
         \A n \in DOMAIN g.notes : n \in DOMAIN s.notes /\ g.notes[n].uid = s.notes[n].uid,
         \A l \in g.links : l \in s.links /\ l[1] \in DOMAIN g.notes /\ l[2] \in DOMAIN g.notes
  PROVE  Coherent(g, v)
<1>1. PICK b \in DOMAIN s.notes \cup {0} : \A n \in DOMAIN s.notes : n <= b
  BY DEF Coherent
<1>2. b \in Nat /\ DOMAIN g.notes \subseteq Nat \ {0} /\ \A n \in DOMAIN g.notes : n <= b
  BY <1>1 DEF Coherent
<1>3. \E c \in DOMAIN g.notes \cup {0} : \A n \in DOMAIN g.notes : n <= c
  BY <1>2, BoundedIdsOK DEF IdsOK
<1>4. \A l \in g.links : LinkUids(g.notes, l) = LinkUids(s.notes, l)
  BY DEF LinkUids
<1>5. \A n, m \in DOMAIN g.notes : g.notes[n].uid = g.notes[m].uid => n = m
  BY DEF Coherent
<1>6. \A l \in g.links :
        /\ l = <<l[1], l[2]>>
        /\ g.notes[l[1]].uid \in LegacyUids /\ g.notes[l[2]].uid \in LegacyUids =>
             \E w \in Contents : w <= v /\ LinkUids(g.notes, l) \in LegacyLinks(w)
  BY <1>4 DEF Coherent
<1> QED
  BY <1>2, <1>3, <1>5, <1>6 DEF Coherent

LEMMA Shrunk ==
  ASSUME NEW s, IsStore(s), NEW ns, NEW ls, NEW ds, NEW ms, NEW g,
         g = [here |-> TRUE, notes |-> ns, links |-> ls, docs |-> ds, merges |-> ms],
         ns = [n \in DOMAIN ns |-> ns[n]],
         \A n \in DOMAIN ns : n \in DOMAIN s.notes /\ IsRow(ns[n]) /\ ns[n].uid = s.notes[n].uid,
         \A l \in ls : l \in s.links /\ (l[1] \in DOMAIN s.notes => l[1] \in DOMAIN ns)
                                     /\ (l[2] \in DOMAIN s.notes => l[2] \in DOMAIN ns)
  PROVE  MadeOf(g, s)
<1>1. IsStore(g) /\ g.here /\ g.notes = ns /\ g.links = ls
  BY StoreOfRows
<1>2. UidsIn(g) \subseteq UidsIn(s) \cup Locals
  BY <1>1 DEF UidsIn
<1>3. ASSUME NEW v, Coherent(s, v) PROVE Coherent(g, v)
  <2>1. \A l \in ls : l \in s.links /\ l[1] \in DOMAIN ns /\ l[2] \in DOMAIN ns
    BY <1>3 DEF Coherent
  <2>2. /\ \A n \in DOMAIN g.notes : n \in DOMAIN s.notes /\ g.notes[n].uid = s.notes[n].uid
        /\ \A l \in g.links : l \in s.links /\ l[1] \in DOMAIN g.notes /\ l[2] \in DOMAIN g.notes
    BY <1>1, <2>1
  <2> HIDE DEF Coherent
  <2> QED
    BY <1>3, <2>2, ShrunkCoherent
<1> QED
  BY <1>1, <1>2, <1>3 DEF MadeOf

\* The same rows with other columns.
LEMMA RowsRewritten ==
  ASSUME NEW s, IsStore(s), NEW ns, NEW ds, NEW ms, NEW g,
         g = [here |-> TRUE, notes |-> ns, links |-> s.links, docs |-> ds, merges |-> ms],
         ns = [n \in DOMAIN s.notes |-> ns[n]],
         \A n \in DOMAIN s.notes : IsRow(ns[n]) /\ ns[n].uid = s.notes[n].uid
  PROVE  MadeOf(g, s)
<1>1. DOMAIN ns = DOMAIN s.notes
  OBVIOUS
<1> QED
  BY <1>1, Shrunk

\* An edit of a row is a row with the uid it had.
SameUid(g, row) == IsRow(g) /\ g.uid = row.uid

LEMMA EditedRow ==
  ASSUME NEW row, IsRow(row), NEW g, NEW t, NEW b, NEW e, NEW w,
         \/ g = [row EXCEPT !.status = t]
         \/ g = [row EXCEPT !.vec = e]
         \/ g = [row EXCEPT !.sb = b, !.status = t]
         \/ g = [row EXCEPT !.status = t, !.sb = b]
         \/ g = [row EXCEPT !.sb = b, !.status = t, !.rev = w]
  PROVE  SameUid(g, row)
<1>1. CASE g = [row EXCEPT !.status = t]
  BY <1>1 DEF SameUid, IsRow
<1>2. CASE g = [row EXCEPT !.vec = e]
  BY <1>2 DEF SameUid, IsRow
<1>3. CASE g = [row EXCEPT !.sb = b, !.status = t]
  BY <1>3 DEF SameUid, IsRow
<1>4. CASE g = [row EXCEPT !.status = t, !.sb = b]
  BY <1>4 DEF SameUid, IsRow
<1>5. CASE g = [row EXCEPT !.sb = b, !.status = t, !.rev = w]
  BY <1>5 DEF SameUid, IsRow
<1> QED
  BY <1>1, <1>2, <1>3, <1>4, <1>5

LEMMA EditsOfRows ==
  ASSUME NEW row, IsRow(row)
  PROVE  /\ SameUid(row, row) /\ SameUid(Dead(row), row) /\ SameUid(Revived(row), row)
         /\ SameUid(Embedded(row), row) /\ SameUid(Bare(row), row)
         /\ \A n : SameUid(Unpointed(row, n), row)
         /\ \A n, t : SameUid(Behind(row, n, t), row)
<1>1. SameUid(row, row)
  BY DEF SameUid
<1>2. SameUid(Dead(row), row)
  <2> DEFINE g == Dead(row)
  <2>1. g = [row EXCEPT !.status = "tombstoned"]
    BY DEF Dead
  <2> HIDE DEF g
  <2>2. SameUid(g, row)
    BY <2>1, EditedRow
  <2> QED
    BY <2>2 DEF g
<1>3. SameUid(Revived(row), row)
  <2> DEFINE g == Revived(row)
  <2>1. g = row \/ g = [row EXCEPT !.status = "active", !.sb = Null]
    BY DEF Revived
  <2> HIDE DEF g
  <2>2. SameUid(g, row)
    BY <1>1, <2>1, EditedRow
  <2> QED
    BY <2>2 DEF g
<1>4. SameUid(Embedded(row), row)
  <2> DEFINE g == Embedded(row)
  <2>1. g = row \/ g = [row EXCEPT !.vec = "own"]
    BY DEF Embedded
  <2> HIDE DEF g
  <2>2. SameUid(g, row)
    BY <1>1, <2>1, EditedRow
  <2> QED
    BY <2>2 DEF g
<1>5. SameUid(Bare(row), row)
  <2> DEFINE g == Bare(row)
  <2>1. g = [row EXCEPT !.vec = None]
    BY DEF Bare
  <2> HIDE DEF g
  <2>2. SameUid(g, row)
    BY <2>1, EditedRow
  <2> QED
    BY <2>2 DEF g
<1>6. ASSUME NEW n PROVE SameUid(Unpointed(row, n), row)
  <2> DEFINE g == Unpointed(row, n)
             x == IF row.status = "superseded" THEN "active" ELSE row.status
  <2>1. g = row \/ g = [row EXCEPT !.sb = Null, !.status = x]
    BY DEF Unpointed
  <2> HIDE DEF g, x
  <2>2. SameUid(g, row)
    BY <1>1, <2>1, EditedRow
  <2> QED
    BY <2>2 DEF g
<1>7. ASSUME NEW n, NEW t PROVE SameUid(Behind(row, n, t), row)
  <2> DEFINE g == Behind(row, n, t)
             w == row.rev + 1
  <2>1. g = [row EXCEPT !.sb = n, !.status = t, !.rev = w]
    BY DEF Behind
  <2> HIDE DEF g, w
  <2>2. SameUid(g, row)
    BY <2>1, EditedRow
  <2> QED
    BY <2>2 DEF g
<1> QED
  BY <1>1, <1>2, <1>3, <1>4, <1>5, <1>6, <1>7

LEMMA ForgottenOK ==
  ASSUME NEW s, IsStore(s), NEW n \in DOMAIN s.notes
  PROVE  MadeOf(Forgotten(s, n), s)
<1> DEFINE ns == [s.notes EXCEPT ![n] = Dead(@)]
           g == Forgotten(s, n)
<1>1. g = [s EXCEPT !.notes = ns]
  BY DEF Forgotten
<1>2. ns = [m \in DOMAIN s.notes |-> ns[m]]
  BY RowsOfStore
<1>3. \A m \in DOMAIN s.notes : ns[m] = s.notes[m] \/ ns[m] = Dead(s.notes[m])
  BY RowsOfStore
<1> HIDE DEF ns, g
<1>4. g = [here |-> TRUE, notes |-> ns, links |-> s.links, docs |-> s.docs, merges |-> s.merges]
  BY <1>1, RowsOfStore DEF IsStore
<1>5. \A m \in DOMAIN s.notes : IsRow(ns[m]) /\ ns[m].uid = s.notes[m].uid
  <2> SUFFICES ASSUME NEW m \in DOMAIN s.notes PROVE SameUid(ns[m], s.notes[m])
    BY DEF SameUid
  <2>1. IsRow(s.notes[m])
    BY RowsOfStore
  <2> QED
    BY <1>3, <2>1, EditsOfRows
<1>6. MadeOf(g, s)
  BY <1>2, <1>4, <1>5, RowsRewritten
<1> QED
  BY <1>6 DEF g

LEMMA UnmergedOK ==
  ASSUME NEW s, IsStore(s), NEW n, NEW m, <<n, m>> \in s.merges
  PROVE  MadeOf(Unmerged(s, n, m), s)
<1> DEFINE new(k) == IF k = n THEN Revived(s.notes[k]) ELSE IF k = m THEN Dead(s.notes[k]) ELSE s.notes[k]
           ns == [k \in DOMAIN s.notes |-> new(k)]
           ms == s.merges \ {<<n, m>>}
           g == Unmerged(s, n, m)
<1>1. g = [s EXCEPT !.notes = ns, !.merges = ms]
  BY DEF Unmerged
<1>2. ns = [k \in DOMAIN s.notes |-> ns[k]] /\ \A k \in DOMAIN s.notes : ns[k] = new(k)
  OBVIOUS
<1>3. s.here = TRUE
  BY RowsOfStore DEF IsStore
<1> HIDE DEF ns, ms, g
<1>4. g = [here |-> TRUE, notes |-> ns, links |-> s.links, docs |-> s.docs, merges |-> ms]
  BY <1>1, <1>3 DEF IsStore
<1>5. \A k \in DOMAIN s.notes : IsRow(ns[k]) /\ ns[k].uid = s.notes[k].uid
  <2> SUFFICES ASSUME NEW k \in DOMAIN s.notes PROVE SameUid(ns[k], s.notes[k])
    BY DEF SameUid
  <2>1. IsRow(s.notes[k])
    BY RowsOfStore
  <2> QED
    BY <1>2, <2>1, EditsOfRows
<1>6. MadeOf(g, s)
  BY <1>2, <1>4, <1>5, RowsRewritten
<1> QED
  BY <1>6 DEF g

LEMMA ReembeddedOK ==
  ASSUME NEW s, IsStore(s)
  PROVE  MadeOf(Reembedded(s), s) /\ MadeOf(Wiped(s), s)
<1> DEFINE ns == [k \in DOMAIN s.notes |-> Embedded(s.notes[k])]
           bare == [k \in DOMAIN s.notes |-> Bare(s.notes[k])]
           g == Reembedded(s)
           h == Wiped(s)
<1>1. g = [s EXCEPT !.here = TRUE, !.notes = ns] /\ h = [s EXCEPT !.here = TRUE, !.notes = bare, !.docs = Absent.docs]
  BY DEF Reembedded, Wiped
<1>2. /\ ns = [k \in DOMAIN s.notes |-> ns[k]] /\ bare = [k \in DOMAIN s.notes |-> bare[k]]
      /\ \A k \in DOMAIN s.notes : ns[k] = Embedded(s.notes[k]) /\ bare[k] = Bare(s.notes[k])
  OBVIOUS
<1> HIDE DEF ns, bare, g, h
<1>3. /\ g = [here |-> TRUE, notes |-> ns, links |-> s.links, docs |-> s.docs, merges |-> s.merges]
      /\ h = [here |-> TRUE, notes |-> bare, links |-> s.links, docs |-> Absent.docs, merges |-> s.merges]
  BY <1>1 DEF IsStore
<1>4. \A k \in DOMAIN s.notes : /\ IsRow(ns[k]) /\ ns[k].uid = s.notes[k].uid
                                /\ IsRow(bare[k]) /\ bare[k].uid = s.notes[k].uid
  <2> SUFFICES ASSUME NEW k \in DOMAIN s.notes
               PROVE  SameUid(ns[k], s.notes[k]) /\ SameUid(bare[k], s.notes[k])
    BY DEF SameUid
  <2>1. IsRow(s.notes[k])
    BY RowsOfStore
  <2> QED
    BY <1>2, <2>1, EditsOfRows
<1>5. MadeOf(g, s)
  BY <1>2, <1>3, <1>4, RowsRewritten
<1>6. MadeOf(h, s)
  BY <1>2, <1>3, <1>4, RowsRewritten
<1> QED
  BY <1>5, <1>6 DEF g, h

LEMMA PurgedOK ==
  ASSUME NEW s, IsStore(s), NEW n \in DOMAIN s.notes
  PROVE  MadeOf(Purged(s, n), s)
<1> DEFINE ns == [m \in DOMAIN s.notes \ {n} |-> Unpointed(s.notes[m], n)]
           ls == {l \in s.links : n \notin {l[1], l[2]}}
           g == Purged(s, n)
<1>1. g = [s EXCEPT !.notes = ns, !.links = ls]
  BY DEF Purged
<1>2. /\ ns = [m \in DOMAIN ns |-> ns[m]] /\ DOMAIN ns = DOMAIN s.notes \ {n}
      /\ \A m \in DOMAIN ns : ns[m] = Unpointed(s.notes[m], n)
  OBVIOUS
<1>3. \A l \in ls : l \in s.links /\ l[1] # n /\ l[2] # n
  OBVIOUS
<1> HIDE DEF ns, ls, g
<1>4. g = [here |-> TRUE, notes |-> ns, links |-> ls, docs |-> s.docs, merges |-> s.merges]
  BY <1>1, RowsOfStore DEF IsStore
<1>5. \A m \in DOMAIN ns : m \in DOMAIN s.notes /\ IsRow(ns[m]) /\ ns[m].uid = s.notes[m].uid
  <2> SUFFICES ASSUME NEW m \in DOMAIN ns PROVE m \in DOMAIN s.notes /\ SameUid(ns[m], s.notes[m])
    BY DEF SameUid
  <2>1. m \in DOMAIN s.notes /\ IsRow(s.notes[m])
    BY <1>2, RowsOfStore
  <2> QED
    BY <1>2, <2>1, EditsOfRows
<1>6. MadeOf(g, s)
  BY <1>2, <1>3, <1>4, <1>5, Shrunk
<1> QED
  BY <1>6 DEF g

LEMMA IngestedOK ==
  ASSUME NEW s, IsStore(s), NEW key, NEW hash
  PROVE  MadeOf(Ingested(s, key, hash), s)
<1> DEFINE ds == Put(s.docs, key, [hash |-> hash, born |-> "here"])
           g == Ingested(s, key, hash)
<1>1. g = [s EXCEPT !.here = TRUE, !.docs = ds]
  BY DEF Ingested
<1> HIDE DEF ds, g
<1>2. g = [here |-> TRUE, notes |-> s.notes, links |-> s.links, docs |-> ds, merges |-> s.merges]
  BY <1>1 DEF IsStore
<1>3. MadeOf(g, s)
  BY <1>2, RowsOfStore, RowsRewritten
<1> QED
  BY <1>3 DEF g

\* A note that a server writes has an id and a uid of its own, and its links are no links
\* between legacy notes.
LEMMA RememberedOK ==
  ASSUME NEW s, IsStore(s), NEW uid \in Locals, NEW vec, IdsOf(s, uid) = {}
  PROVE  MadeOf(Remembered(s, uid, vec), s)
<1> DEFINE id == Top(DOMAIN s.notes) + 1
           new == [uid |-> uid, status |-> "active", sb |-> Null, vec |-> vec, rev |-> 1]
           ns == Put(s.notes, id, new)
           near == {n \in DOMAIN s.notes : /\ s.notes[n].status # "tombstoned"
                                           /\ None \notin {vec, s.notes[n].vec}}
           ls == s.links \cup {<<n, id>> : n \in near} \cup {<<id, n>> : n \in near}
           g == Remembered(s, uid, vec)
<1>1. g = [s EXCEPT !.here = TRUE, !.notes = ns, !.links = ls]
  BY DEF Remembered
<1>2. IsRow(new) /\ new.uid = uid
  BY DEF IsRow
<1>3. \A l \in ls : l \in s.links \/ \E n \in DOMAIN s.notes : l = <<n, id>> \/ l = <<id, n>>
  OBVIOUS
<1> HIDE DEF id, new, ls, near
<1>4. /\ ns = [n \in DOMAIN ns |-> ns[n]] /\ DOMAIN ns = DOMAIN s.notes \cup {id}
      /\ ns[id] = new /\ \A n \in DOMAIN s.notes : n # id => ns[n] = s.notes[n]
  BY DEF Put
<1> HIDE DEF ns, g
<1>5. g = [here |-> TRUE, notes |-> ns, links |-> ls, docs |-> s.docs, merges |-> s.merges]
  BY <1>1 DEF IsStore
<1>6. \A n \in DOMAIN ns : IsRow(ns[n])
  BY <1>2, <1>4, RowsOfStore
<1>7. IsStore(g) /\ g.here /\ g.notes = ns /\ g.links = ls
  BY <1>4, <1>5, <1>6, StoreOfRows
<1>8. UidsIn(g) \subseteq UidsIn(s) \cup Locals
  BY <1>2, <1>4, <1>7 DEF UidsIn
<1>9. ASSUME NEW v, Coherent(s, v) PROVE Coherent(g, v)
  <2>1. /\ DOMAIN s.notes \subseteq Nat \ {0}
        /\ id \in Nat \ {0} /\ \A n \in DOMAIN s.notes : n <= id /\ n # id
    <3>1. Top(DOMAIN s.notes) \in Nat /\ DOMAIN s.notes \subseteq Nat \ {0}
          /\ \A n \in DOMAIN s.notes : n <= Top(DOMAIN s.notes)
      BY <1>9, TopIsOnTop DEF Coherent
    <3> QED
      BY <3>1 DEF id
  <2>2. \A n \in DOMAIN s.notes : ns[n] = s.notes[n]
    BY <1>4, <2>1
  <2>3. uid \notin LegacyUids
    BY LegacyAssumption DEF LegacyUids
  <2>4. \A n \in DOMAIN s.notes : ns[n].uid # uid
    BY <2>2 DEF IdsOf
  <2>5. \A l \in s.links : /\ l = <<l[1], l[2]>> /\ l[1] \in DOMAIN s.notes /\ l[2] \in DOMAIN s.notes
                           /\ LinkUids(ns, l) = LinkUids(s.notes, l)
    BY <1>9, <2>2 DEF LinkUids, Coherent
  <2>6. \A n, m \in DOMAIN ns : ns[n].uid = ns[m].uid => n = m
    BY <1>2, <1>4, <1>9, <2>2, <2>4 DEF Coherent
  <2>7. ASSUME NEW l \in ls
        PROVE  /\ l = <<l[1], l[2]>> /\ l[1] \in DOMAIN ns /\ l[2] \in DOMAIN ns
               /\ ns[l[1]].uid \in LegacyUids /\ ns[l[2]].uid \in LegacyUids =>
                    \E w \in Contents : w <= v /\ LinkUids(ns, l) \in LegacyLinks(w)
    <3>1. CASE l \in s.links
      BY <1>4, <1>9, <2>2, <2>5, <3>1 DEF Coherent
    <3>2. CASE \E n \in DOMAIN s.notes : l = <<n, id>> \/ l = <<id, n>>
      BY <1>2, <1>4, <2>3, <3>2
    <3> QED
      BY <1>3, <2>7, <3>1, <3>2
  <2>8. DOMAIN ns \subseteq Nat \ {0} /\ \E b \in DOMAIN ns \cup {0} : \A n \in DOMAIN ns : n <= b
    BY <1>4, <2>1
  <2> QED
    BY <1>7, <2>6, <2>7, <2>8 DEF Coherent
<1>10. MadeOf(g, s)
  BY <1>7, <1>8, <1>9 DEF MadeOf
<1> QED
  BY <1>10 DEF g

\* A replacement is a note more, in a store where the note that it replaces has other
\* columns.
LEMMA ReplacedOK ==
  ASSUME NEW s, IsStore(s), NEW n \in DOMAIN s.notes, NEW status, NEW uid \in Locals, NEW vec,
         IdsOf(s, uid) = {}
  PROVE  /\ MadeOf(Replaced(s, n, status, uid, vec), s)
         /\ \A ms : MadeOf([Replaced(s, n, status, uid, vec) EXCEPT !.merges = ms], s)
<1> DEFINE id == Top(DOMAIN s.notes) + 1
           ns == [s.notes EXCEPT ![n] = Behind(@, id, status)]
           t == [s EXCEPT !.notes = ns]
           g == Replaced(s, n, status, uid, vec)
<1>1. g = Remembered(t, uid, vec)
  BY DEF Replaced
<1>2. ns = [m \in DOMAIN s.notes |-> ns[m]]
  BY RowsOfStore
<1>3. \A m \in DOMAIN s.notes : ns[m] = s.notes[m] \/ ns[m] = Behind(s.notes[m], id, status)
  BY RowsOfStore
<1>0. t = [s EXCEPT !.notes = ns]
  OBVIOUS
<1> HIDE DEF ns, id, t, g
<1>4. t = [here |-> TRUE, notes |-> ns, links |-> s.links, docs |-> s.docs, merges |-> s.merges]
  BY <1>0, RowsOfStore DEF IsStore
<1>5. \A m \in DOMAIN s.notes : IsRow(ns[m]) /\ ns[m].uid = s.notes[m].uid
  <2> SUFFICES ASSUME NEW m \in DOMAIN s.notes PROVE SameUid(ns[m], s.notes[m])
    BY DEF SameUid
  <2>1. IsRow(s.notes[m])
    BY RowsOfStore
  <2> QED
    BY <1>3, <2>1, EditsOfRows
<1>6. MadeOf(t, s)
  BY <1>2, <1>4, <1>5, RowsRewritten
<1>7. IdsOf(t, uid) = {}
  BY <1>2, <1>4, <1>5 DEF IdsOf
<1>8. MadeOf(g, s)
  BY <1>1, <1>6, <1>7, RememberedOK, TransitivelyMade DEF MadeOf
<1>9. ASSUME NEW ms PROVE MadeOf([g EXCEPT !.merges = ms], s)
  <2> DEFINE h == [g EXCEPT !.merges = ms]
  <2>1. IsStore(g) /\ g.here = TRUE
    BY <1>8 DEF MadeOf, IsStore
  <2>0. h = [g EXCEPT !.merges = ms]
    OBVIOUS
  <2> HIDE DEF h
  <2>2. h = [here |-> TRUE, notes |-> g.notes, links |-> g.links, docs |-> g.docs, merges |-> ms]
    BY <2>0, <2>1 DEF IsStore
  <2>3. MadeOf(h, g)
    BY <2>1, <2>2, RowsOfStore, RowsRewritten
  <2>4. MadeOf(h, s)
    BY <1>8, <2>3, TransitivelyMade
  <2> QED
    BY <2>4 DEF h
<1> QED
  BY <1>8, <1>9 DEF g

LEMMA MergedOK ==
  ASSUME NEW s, IsStore(s), NEW n \in DOMAIN s.notes, NEW uid \in Locals, IdsOf(s, uid) = {}
  PROVE  MadeOf(Merged(s, n, uid), s)
<1> DEFINE r == Replaced(s, n, "tombstoned", uid, None)
           ms == r.merges \cup {<<n, Top(DOMAIN s.notes) + 1>>}
<1>1. Merged(s, n, uid) = [r EXCEPT !.merges = ms]
  BY DEF Merged
<1>2. \A x : MadeOf([r EXCEPT !.merges = x], s)
  BY ReplacedOK
<1> HIDE DEF r, ms
<1> QED
  BY <1>1, <1>2

LEMMA ServeFacts ==
  ASSUME NEW p \in Projects, IsStore(file[p]), Serve(p)
  PROVE  \E g : Edit(p, g) /\ MadeOf(g, file[p])
<1> DEFINE s == file[p]
<1>1. ASSUME NEW uid \in Locals, NEW vec, Remember(p, uid, vec) PROVE \E g : Edit(p, g) /\ MadeOf(g, s)
  <2>1. IdsOf(s, uid) = {} /\ Edit(p, Remembered(s, uid, vec))
    BY <1>1 DEF Remember
  <2> QED
    BY <2>1, RememberedOK
<1>2. ASSUME NEW uid \in Locals, NEW vec, NEW n \in DOMAIN s.notes, Supersede(p, n, uid, vec)
      PROVE  \E g : Edit(p, g) /\ MadeOf(g, s)
  <2>1. IdsOf(s, uid) = {} /\ Edit(p, Replaced(s, n, "superseded", uid, vec))
    BY <1>2 DEF Supersede
  <2> QED
    BY <2>1, ReplacedOK
<1>3. ASSUME NEW n \in DOMAIN s.notes, Forget(p, n) \/ HardForget(p, n)
      PROVE  \E g : Edit(p, g) /\ MadeOf(g, s)
  BY <1>3, ForgottenOK, PurgedOK DEF Forget, HardForget
<1>4. ASSUME NEW uid \in Locals, NEW n \in DOMAIN s.notes, Merge(p, n, uid)
      PROVE  \E g : Edit(p, g) /\ MadeOf(g, s)
  <2>1. IdsOf(s, uid) = {} /\ Edit(p, Merged(s, n, uid))
    BY <1>4 DEF Merge
  <2> QED
    BY <2>1, MergedOK
<1>5. ASSUME NEW n, NEW m, UndoMerge(p, n, m) PROVE \E g : Edit(p, g) /\ MadeOf(g, s)
  BY <1>5, UnmergedOK DEF UndoMerge
<1>6. ASSUME Reembed(p) \/ WipeSpace(p) PROVE \E g : Edit(p, g) /\ MadeOf(g, s)
  BY <1>6, ReembeddedOK DEF Reembed, WipeSpace
<1>7. ASSUME NEW key, NEW hash, Ingest(p, key, hash) PROVE \E g : Edit(p, g) /\ MadeOf(g, s)
  BY <1>7, IngestedOK DEF Ingest
<1> QED
  BY <1>1, <1>2, <1>3, <1>4, <1>5, <1>6, <1>7 DEF Serve

-----------------------------------------------------------------------------

LEMMA IdleFacts ==
  /\ Idle \in Jobs /\ Idle.at = "idle" /\ Idle.sel = {} /\ Idle.todo = {} /\ Idle.now = 0
  BY DEF Idle, Jobs, RecoveryStages

LEMMA AbsentIsStore == IsStore(Absent)
  BY DEF IsStore, Absent

LEMMA CreatedFacts ==
  ASSUME NEW s, IsStore(s)
  PROVE  /\ MadeOf(Created(s), s) /\ Created(s).notes = s.notes /\ Created(s).docs = s.docs
         /\ ~s.here => UidsIn(Created(s)) = {}
<1> DEFINE g == Created(s)
<1>1. g = [s EXCEPT !.here = TRUE]
  BY DEF Created
<1> HIDE DEF g
<1>2. g = [here |-> TRUE, notes |-> s.notes, links |-> s.links, docs |-> s.docs, merges |-> s.merges]
  BY <1>1 DEF IsStore
<1>3. MadeOf(g, s)
  BY <1>2, RowsOfStore, RowsRewritten
<1>4. ~s.here => UidsIn(g) = {}
  BY <1>2, RowsOfStore DEF UidsIn
<1>5. g.notes = s.notes /\ g.docs = s.docs
  BY <1>2
<1> QED
  BY <1>3, <1>4, <1>5 DEF g

LEMMA JobTypes == ASSUME RecoveryInv, [RecoveryNext]_recoveryVars PROVE JobOK'
<1> USE IdleFacts DEF JobOK, Jobs, AtStore, RecoveryStages
<1>1. CASE UNCHANGED <<job, source, registered>>
  BY <1>1 DEF RecoveryInv
<1>2. CASE Start
  BY <1>2 DEF RecoveryInv, Start, StartApply, world
<1>3. CASE Preflight
  <2>1. CASE job' = Idle
    BY <1>3, <2>1 DEF RecoveryInv, Preflight, world
  <2>2. CASE job' = [job EXCEPT !.at = "next", !.todo = job.sel, !.ids = registered]
    <3>1. job \in Jobs /\ job.now = 0 /\ job.source \in Contents /\ registered \subseteq Projects
      BY <1>3 DEF RecoveryInv, Preflight
    <3>2. job' = [at |-> "next", sel |-> job.sel, todo |-> job.sel, source |-> job.source,
                  ids |-> registered, now |-> 0, existed |-> job.existed]
      BY <2>2, <3>1
    <3>3. job' \in Jobs
      BY <3>1, <3>2
    <3>4. UNCHANGED <<source, registered>>
      BY <1>3 DEF Preflight, world
    <3> QED
      BY <3>1, <3>2, <3>3, <3>4 DEF RecoveryInv
  <2> QED
    BY <1>3, <2>1, <2>2 DEF Preflight
<1>4. CASE TakeLock
  <2>1. Least(job.todo) \in job.todo
    BY <1>4, LeastIsIn, LegacyAssumption DEF RecoveryInv, TakeLock
  <2> QED
    BY <1>4, <2>1 DEF RecoveryInv, TakeLock, world
<1>5. CASE FindBusy \/ Finish \/ Restore \/ Die
  BY <1>5 DEF RecoveryInv, FindBusy, Finish, Restore, Die, world
<1>6. CASE Prepare
  <2>1. file[job.now].here \in BOOLEAN
    BY <1>6 DEF RecoveryInv, StoresOK, IsStore, Prepare
  <2> QED
    BY <1>6, <2>1 DEF RecoveryInv, Prepare, world
<1>7. CASE Begin \/ Save \/ Copy \/ Reject
  BY <1>7 DEF RecoveryInv, Begin, Save, Copy, Reject, world
<1>8. CASE Commit
  BY <1>8 DEF RecoveryInv, Commit, world
<1>9. CASE Fail
  BY <1>9 DEF RecoveryInv, Fail, world
<1>10. CASE SourceChanges
  BY <1>10 DEF RecoveryInv, SourceChanges
<1>11. CASE \E p \in Projects : Register(p)
  BY <1>11 DEF RecoveryInv, Register
<1>12. CASE \E p \in Projects : Serve(p) \/ Maintain(p) \/ EndMaintenance(p)
  <2>1. UNCHANGED <<job, source, registered>>
    BY <1>12, ServeFacts DEF RecoveryInv, StoresOK, Edit, Maintain, EndMaintenance, world
  <2> QED
    BY <2>1, <1>1
<1>13. CASE Preview
  BY <1>1, <1>13 DEF Preview, world
<1>14. CASE UNCHANGED recoveryVars
  BY <1>1, <1>14 DEF recoveryVars
<1> QED
  BY <1>2, <1>3, <1>4, <1>5, <1>6, <1>7, <1>8, <1>9, <1>10, <1>11, <1>12, <1>13, <1>14
     DEF RecoveryNext, Recover, Apply

\* A server's edit touches no store that is being copied, and brings no legacy note.
LEMMA ServingKeepsInv ==
  ASSUME RecoveryInv, JobOK', NEW p \in Projects, Serve(p)
  PROVE  RecoveryInv'
<1> USE DEF RecoveryInv
<1>1. PICK g : Edit(p, g) /\ MadeOf(g, file[p])
  BY ServeFacts DEF StoresOK
<1>2. /\ file' = [file EXCEPT ![p] = g] /\ ~Writing(p)
      /\ UNCHANGED <<backup, approved, job, draft>>
  BY <1>1 DEF Edit
<1>3. /\ file' = [q \in Projects |-> file'[q]] /\ file'[p] = g
      /\ \A q \in Projects : q # p => file'[q] = file[q]
  BY <1>2 DEF StoresOK
<1>4. AgreedOK'
  BY <1>2 DEF AgreedOK, AtStore
<1>5. StoresOK'
  BY <1>1, <1>2, <1>3 DEF StoresOK, MadeOf
<1>6. AtStore => job.now \in Projects
  BY DEF JobOK, Jobs
<1>7. CreatedOK'
  <2>1. Locals \cap LegacyUids = {}
    BY LegacyAssumption DEF LegacyUids
  <2>2. g.here /\ (UidsIn(file[p]) \cap LegacyUids = {} => UidsIn(g) \cap LegacyUids = {})
    BY <1>1, <2>1 DEF MadeOf
  <2>3. CASE job.now = p
    BY <1>2, <1>3, <2>2, <2>3 DEF CreatedOK, AtStore
  <2>4. CASE job.now # p
    BY <1>2, <1>3, <1>6, <2>4 DEF CreatedOK, AtStore
  <2> QED
    BY <2>3, <2>4
<1>8. job.at \in {"copying", "verifying"} => file'[job.now] = file[job.now]
  BY <1>2, <1>3, <1>6 DEF Writing, AtStore
<1>9. BackupOK' /\ DraftOK'
  BY <1>2, <1>8 DEF BackupOK, DraftOK
<1> QED
  BY <1>4, <1>5, <1>7, <1>9

\* The report that an apply agrees with names no conflict of a project that has none.
LEMMA AgreedFacts ==
  ASSUME NEW v, NEW S, \A p \in S : Conflicts(v, p, registered) = {}
  PROVE  /\ Report(v).source = v /\ Report(v).registered = registered
         /\ \A c \in Report(v).conflicts : c[1] \notin S
<1>1. \A p : \A c \in Conflicts(v, p, registered) : c[1] = p
  BY DEF Conflicts
<1>2. Report(v).conflicts = UNION {Conflicts(v, p, registered) : p \in Attributable(v, registered)}
  BY DEF Report
<1> QED
  BY <1>1, <1>2 DEF Report

\* The steps of apply.
LEMMA ApplyKeepsInv ==
  ASSUME RecoveryInv, JobOK', Apply
  PROVE  RecoveryInv'
<1> USE IdleFacts DEF RecoveryInv, AtStore, world
<1>0. job \in Jobs /\ job' \in Jobs
  BY DEF JobOK
<1>1. CASE Preflight
  <2>1. UNCHANGED <<file, backup, approved, draft>> /\ job.at = "checking"
    BY <1>1 DEF Preflight
  <2>2. CASE job' = Idle
    BY <2>1, <2>2 DEF AgreedOK, StoresOK, CreatedOK, BackupOK, DraftOK
  <2>3. CASE job' # Idle
    <3>1. /\ approved = Report(job.source) /\ \A p \in job.sel : Conflicts(job.source, p, registered) = {}
          /\ job' = [job EXCEPT !.at = "next", !.todo = job.sel, !.ids = registered]
      BY <1>1, <2>3 DEF Preflight, Approves
    <3>2. job'.at = "next" /\ job'.source = job.source /\ job'.ids = registered /\ job'.sel = job.sel
      BY <1>0, <3>1 DEF Jobs
    <3>3. AgreedOK'
      BY <2>1, <3>1, <3>2, AgreedFacts DEF AgreedOK
    <3> QED
      BY <2>1, <3>2, <3>3 DEF StoresOK, CreatedOK, BackupOK, DraftOK
  <2> QED
    BY <2>2, <2>3
<1>2. CASE TakeLock
  <2>1. /\ UNCHANGED <<file, backup, approved, draft>> /\ job.at = "next"
        /\ job' = [job EXCEPT !.at = "preparing", !.now = Least(job.todo)]
    BY <1>2 DEF TakeLock
  <2>2. job'.at = "preparing" /\ job'.source = job.source /\ job'.ids = job.ids /\ job'.sel = job.sel
    BY <1>0, <2>1 DEF Jobs
  <2> QED
    BY <2>1, <2>2 DEF AgreedOK, StoresOK, CreatedOK, BackupOK, DraftOK
<1>3. CASE FindBusy \/ Finish
  <2>1. UNCHANGED <<file, backup, approved, draft>> /\ job' = Idle
    BY <1>3 DEF FindBusy, Finish
  <2> QED
    BY <2>1 DEF AgreedOK, StoresOK, CreatedOK, BackupOK, DraftOK
<1>4. CASE Prepare
  <2>1. /\ UNCHANGED <<backup, approved, draft>> /\ job.at = "preparing" /\ job.now \in Projects
        /\ job' = [job EXCEPT !.at = "beginning", !.existed = file[job.now].here]
        /\ file' = [file EXCEPT ![job.now] = Created(file[job.now])]
    BY <1>4 DEF Prepare, JobOK, Jobs
  <2>2. /\ job'.at = "beginning" /\ job'.source = job.source /\ job'.ids = job.ids /\ job'.sel = job.sel
        /\ job'.now = job.now /\ job'.existed = file[job.now].here
    BY <1>0, <2>1 DEF Jobs
  <2>3. /\ MadeOf(Created(file[job.now]), file[job.now])
        /\ ~file[job.now].here => UidsIn(Created(file[job.now])) = {}
    BY <2>1, CreatedFacts DEF StoresOK
  <2>4. /\ file' = [q \in Projects |-> file'[q]] /\ file'[job.now] = Created(file[job.now])
        /\ \A q \in Projects : q # job.now => file'[q] = file[q]
    BY <2>1 DEF StoresOK
  <2>5. StoresOK'
    BY <2>1, <2>3, <2>4 DEF StoresOK, MadeOf
  <2>6. CreatedOK'
    BY <2>2, <2>3, <2>4 DEF CreatedOK, MadeOf
  <2> QED
    BY <2>1, <2>2, <2>5, <2>6 DEF AgreedOK, BackupOK, DraftOK
<1>5. CASE Begin
  <2>1. /\ UNCHANGED <<file, backup, approved, draft>> /\ job.at = "beginning"
        /\ job' = [job EXCEPT !.at = "saving"]
    BY <1>5 DEF Begin
  <2>2. /\ job'.at = "saving" /\ job'.source = job.source /\ job'.ids = job.ids /\ job'.sel = job.sel
        /\ job'.now = job.now /\ job'.existed = job.existed
    BY <1>0, <2>1 DEF Jobs
  <2> QED
    BY <2>1, <2>2 DEF AgreedOK, StoresOK, CreatedOK, BackupOK, DraftOK
<1>6. CASE Save
  <2>1. /\ UNCHANGED <<file, approved, draft>> /\ job.at = "saving" /\ job.now \in Projects
        /\ job' = [job EXCEPT !.at = "copying"]
        /\ backup' = IF job.existed THEN [backup EXCEPT ![job.now] = file[job.now]] ELSE backup
    BY <1>6 DEF Save, JobOK, Jobs
  <2>2. /\ job'.at = "copying" /\ job'.source = job.source /\ job'.ids = job.ids /\ job'.sel = job.sel
        /\ job'.now = job.now /\ job'.existed = job.existed
    BY <1>0, <2>1 DEF Jobs
  <2>3. /\ backup' = [q \in Projects |-> backup'[q]]
        /\ job.existed => backup'[job.now] = file[job.now]
    BY <2>1 DEF StoresOK
  <2> QED
    BY <2>1, <2>2, <2>3 DEF AgreedOK, StoresOK, CreatedOK, BackupOK, DraftOK
<1>7. CASE Copy
  <2>1. UNCHANGED <<file, backup, approved>> /\ job.at = "copying"
    BY <1>7 DEF Copy
  <2>2. \/ /\ draft' = Copied(file[job.now], job.source, job.now, job.ids)
           /\ job' = [job EXCEPT !.at = "verifying"]
        \/ job' = [job EXCEPT !.at = "restoring"]
    BY <1>7 DEF Copy
  <2>3. /\ job'.at \in {"verifying", "restoring"} /\ job'.source = job.source /\ job'.ids = job.ids
        /\ job'.sel = job.sel /\ job'.now = job.now /\ job'.existed = job.existed
        /\ job'.at = "verifying" => draft' = Copied(file[job.now], job.source, job.now, job.ids)
    BY <1>0, <2>2 DEF Jobs
  <2> QED
    BY <2>1, <2>3 DEF AgreedOK, StoresOK, CreatedOK, BackupOK, DraftOK
<1>8. CASE Commit
  <2>1. /\ UNCHANGED <<backup, approved>> /\ job.at = "verifying" /\ job.now \in Projects
        /\ file' = [file EXCEPT ![job.now] = draft]
        /\ job' = [job EXCEPT !.at = "next", !.todo = job.todo \ {job.now}, !.now = 0]
    BY <1>8 DEF Commit, JobOK, Jobs
  <2>2. job'.at = "next" /\ job'.source = job.source /\ job'.ids = job.ids /\ job'.sel = job.sel
    BY <1>0, <2>1 DEF Jobs
  <2>3. IsStore(draft)
    BY <2>1, CopiedFacts DEF DraftOK, StoresOK, CreatedOK
  <2>4. StoresOK'
    BY <2>1, <2>3 DEF StoresOK
  <2> QED
    BY <2>1, <2>2, <2>4 DEF AgreedOK, CreatedOK, BackupOK, DraftOK
<1>9. CASE Reject
  <2>1. /\ UNCHANGED <<file, backup, approved>> /\ job.at = "verifying"
        /\ job' = [job EXCEPT !.at = "restoring"]
    BY <1>9 DEF Reject
  <2>2. /\ job'.at = "restoring" /\ job'.source = job.source /\ job'.ids = job.ids /\ job'.sel = job.sel
        /\ job'.now = job.now /\ job'.existed = job.existed
    BY <1>0, <2>1 DEF Jobs
  <2> QED
    BY <2>1, <2>2 DEF AgreedOK, StoresOK, CreatedOK, BackupOK, DraftOK
<1>10. CASE Restore
  <2>1. /\ UNCHANGED <<backup, approved>> /\ job' = Idle /\ job.now \in Projects
        /\ file' = file \/ file' = [file EXCEPT ![job.now] = Absent]
    BY <1>10 DEF Restore, JobOK, Jobs
  <2>2. StoresOK'
    BY <2>1, AbsentIsStore DEF StoresOK
  <2> QED
    BY <2>1, <2>2 DEF AgreedOK, CreatedOK, BackupOK, DraftOK
<1> QED
  BY <1>1, <1>2, <1>3, <1>4, <1>5, <1>6, <1>7, <1>8, <1>9, <1>10 DEF Apply

LEMMA RecoveryInvariance == RecoverySpec => []RecoveryInv
<1>1. RecoveryInit => RecoveryInv
  <2> SUFFICES ASSUME RecoveryInit PROVE RecoveryInv
    OBVIOUS
  <2> USE IdleFacts DEF RecoveryInit
  <2>1. JobOK
    BY LegacyAssumption DEF JobOK, AtStore
  <2>2. StoresOK
    BY LegacyAssumption DEF StoresOK
  <2>3. AgreedOK /\ CreatedOK /\ BackupOK /\ DraftOK
    BY DEF AgreedOK, CreatedOK, BackupOK, DraftOK, AtStore
  <2> QED
    BY <2>1, <2>2, <2>3 DEF RecoveryInv
<1>2. RecoveryInv /\ [RecoveryNext]_recoveryVars => RecoveryInv'
  <2> SUFFICES ASSUME RecoveryInv, [RecoveryNext]_recoveryVars PROVE RecoveryInv'
    OBVIOUS
  <2>0. JobOK'
    BY JobTypes
  <2>1. ASSUME UNCHANGED <<file, backup>>,
               UNCHANGED <<job, approved, draft>> \/ job'.at \in {"idle", "checking"}
        PROVE  RecoveryInv'
    BY <2>0, <2>1 DEF RecoveryInv, AgreedOK, StoresOK, CreatedOK, BackupOK, DraftOK, AtStore
  <2>2. CASE Apply
    BY <2>0, <2>2, ApplyKeepsInv
  <2>3. ASSUME NEW p \in Projects, Serve(p) PROVE RecoveryInv'
    BY <2>0, <2>3, ServingKeepsInv
  <2>4. CASE Preview
    <3>1. job.at = "idle" /\ UNCHANGED <<file, backup, job>>
      BY <2>4 DEF Preview
    <3> QED
      BY <2>1, <3>1
  <2>5. CASE Start
    <3>1. PICK sel \in SUBSET Projects : job' = [Idle EXCEPT !.at = "checking", !.sel = sel, !.source = source]
      BY <2>5 DEF Start, StartApply
    <3>2. job'.at = "checking" /\ UNCHANGED <<file, backup>>
      BY <2>5, <3>1, IdleFacts DEF Start, StartApply, Jobs
    <3> QED
      BY <2>1, <3>2
  <2>6. CASE Die
    BY <2>1, <2>6, IdleFacts DEF Die
  <2>7. CASE Fail
    <3>1. UNCHANGED <<file, backup, approved>>
      BY <2>7 DEF Fail
    <3>2. CASE job' = Idle
      BY <2>1, <3>1, <3>2, IdleFacts
    <3>3. CASE job' # Idle
      <4>1. /\ job' = [job EXCEPT !.at = "restoring"]
            /\ job.at \in {"beginning", "saving", "copying", "verifying"}
        BY <2>7, <3>3 DEF Fail
      <4>2. /\ job'.at = "restoring" /\ job'.source = job.source /\ job'.ids = job.ids /\ job'.sel = job.sel
            /\ job'.now = job.now /\ job'.existed = job.existed
        BY <4>1 DEF RecoveryInv, JobOK, Jobs
      <4> QED
        BY <2>0, <3>1, <4>1, <4>2
           DEF RecoveryInv, AgreedOK, StoresOK, CreatedOK, BackupOK, DraftOK, AtStore
    <3> QED
      BY <3>2, <3>3
  <2>8. ASSUME NEW p \in Projects, Register(p) \/ Maintain(p) \/ EndMaintenance(p) PROVE RecoveryInv'
    BY <2>1, <2>8 DEF Register, Maintain, EndMaintenance
  <2>9. CASE SourceChanges
    BY <2>1, <2>9 DEF SourceChanges
  <2>10. CASE UNCHANGED recoveryVars
    BY <2>1, <2>10 DEF recoveryVars
  <2> QED
    BY <2>2, <2>3, <2>4, <2>5, <2>6, <2>7, <2>8, <2>9, <2>10 DEF RecoveryNext, Recover
<1> QED
  BY <1>1, <1>2, PTL DEF RecoverySpec

-----------------------------------------------------------------------------

\* The rows that the report says go back to p are attributed to p and to nobody else.
LEMMA SelectedFacts ==
  ASSUME NEW v, NEW p \in Projects, NEW ids, NEW r \in NotesOf(v, p, ids)
  PROVE  /\ r \in DOMAIN Legacies[v].notes /\ p \in ids
         /\ Legacies[v].notes[r].owner = p /\ Legacies[v].notes[r].pooled \in {Null, p}
<1>1. p # Null
  BY LegacyAssumption
<1> QED
  BY <1>1 DEF NotesOf, Selected, Route

\* What a step of recovery does to a store: nothing, or it creates it, or it unlinks a
\* store that it created, or it adds the rows of the approved report.
LEMMA RecoverySteps ==
  ASSUME RecoveryInv, Recover, NEW p \in Projects
  PROVE  \/ file'[p] = file[p]
         \/ file'[p] = Created(file[p]) /\ job.at = "preparing"
         \/ file'[p] = Absent /\ UidsIn(file[p]) \cap LegacyUids = {} /\ job.at = "restoring"
         \/ /\ Commit /\ job.now = p
            /\ file'[p] = Copied(file[p], job.source, p, job.ids) /\ file[p].here
<1> USE DEF RecoveryInv
<1>1. CASE UNCHANGED file
  BY <1>1
<1>2. CASE Prepare
  BY <1>2 DEF Prepare, StoresOK
<1>3. CASE Commit
  <2>1. CASE job.now = p
    BY <1>3, <2>1 DEF Commit, StoresOK, DraftOK, CreatedOK, AtStore
  <2>2. CASE job.now # p
    BY <1>3, <2>2 DEF Commit, StoresOK
  <2> QED
    BY <2>1, <2>2
<1>4. CASE Restore
  BY <1>4 DEF Restore, StoresOK, CreatedOK, AtStore
<1> QED
  BY <1>1, <1>2, <1>3, <1>4
     DEF Recover, Apply, Preview, Start, StartApply, Preflight, TakeLock, FindBusy, Begin, Save, Copy, Reject,
         Finish, Fail, Die, world

\* OnlyApprovedRowsArrive: what a commit adds to a project is in the report the user
\* approved (legacy_recovery.py:439).
THEOREM OnlyApprovedRowsArriveTheorem == RecoverySpec => OnlyApprovedRowsArrive
<1> DEFINE Row(p) ==
      {Legacies[approved.source].notes[r].uid :
         r \in {q \in DOMAIN Legacies[approved.source].notes :
                  LET row == Legacies[approved.source].notes[q]
                  IN  /\ row.owner = p /\ p \in approved.registered
                      /\ row.pooled \in {Null, p}}}
<1>1. ASSUME RecoveryInv, RecoveryInv', [RecoveryNext]_recoveryVars, NEW p \in Projects,
             job.at = "verifying", job'.at = "next", job.now = p
      PROVE  /\ UidsIn(file'[p]) \ UidsIn(file[p]) \subseteq Row(p)
             /\ ~\E c \in approved.conflicts : c[1] = p
  <2>1. approved.source = job.source /\ approved.registered = job.ids /\ p \in job.sel
        /\ \A c \in approved.conflicts : c[1] \notin job.sel
    BY <1>1 DEF RecoveryInv, AgreedOK, AtStore, JobOK
  <2>2. ASSUME Recover PROVE UidsIn(file'[p]) \ UidsIn(file[p]) \subseteq Row(p)
    <3>1. CASE file'[p] = Copied(file[p], job.source, p, job.ids) /\ file[p].here
      <4> DEFINE g == Copied(file[p], job.source, p, job.ids)
      <4>1. /\ \A n \in DOMAIN file[p].notes : n \in DOMAIN g.notes /\ g.notes[n].uid = file[p].notes[n].uid
            /\ \A n \in DOMAIN g.notes \ DOMAIN file[p].notes :
                 \E r \in NotesOf(job.source, p, job.ids) : g.notes[n].uid = Legacies[job.source].notes[r].uid
        BY <1>1, <3>1, CopiedFacts DEF RecoveryInv, StoresOK
      <4>2. \A r \in NotesOf(job.source, p, job.ids) : Legacies[job.source].notes[r].uid \in Row(p)
        BY <2>1, SelectedFacts
      <4> HIDE DEF g, Row
      <4>3. file'[p] = g
        BY <3>1 DEF g
      <4> QED
        BY <4>1, <4>2, <4>3 DEF UidsIn
    <3>2. CASE file'[p] = file[p] \/ file'[p] = Absent
      <4>1. UidsIn(Absent) = {}
        BY DEF UidsIn, Absent
      <4> QED
        BY <3>2, <4>1
    <3> QED
      BY <1>1, <2>2, <3>1, <3>2, RecoverySteps
  <2>3. UNCHANGED job \/ Recover
    BY <1>1, ServeFacts DEF RecoveryNext, RecoveryInv, StoresOK, Edit, SourceChanges, Register, Maintain,
                            EndMaintenance, recoveryVars
  <2> QED
    BY <1>1, <2>1, <2>2, <2>3
<1>2. RecoveryInv /\ RecoveryInv' /\ [RecoveryNext]_recoveryVars =>
        \/ \A p \in Projects : job.at = "verifying" /\ job'.at = "next" /\ job.now = p =>
             /\ UidsIn(file'[p]) \ UidsIn(file[p]) \subseteq Row(p)
             /\ ~\E c \in approved.conflicts : c[1] = p
  BY <1>1
<1> QED
  BY <1>2, RecoveryInvariance, PTL DEF RecoverySpec, OnlyApprovedRowsArrive

LEMMA EditsAreCounted == RecoverySpec => [](edits \in Nat)
<1>1. RecoveryInit => edits \in Nat
  BY DEF RecoveryInit
<1>2. RecoveryInv /\ edits \in Nat /\ [RecoveryNext]_recoveryVars => (edits \in Nat)'
  <2> SUFFICES ASSUME RecoveryInv, edits \in Nat, [RecoveryNext]_recoveryVars PROVE edits' \in Nat
    OBVIOUS
  <2>1. edits' = edits \/ edits' = edits + 1
    BY ServeFacts
       DEF RecoveryInv, StoresOK, RecoveryNext, Recover, Preview, Start, StartApply, Apply, Preflight,
           TakeLock, FindBusy, Prepare, Begin, Save, Copy, Commit, Reject, Restore, Finish, Fail, Die, Edit,
           SourceChanges, Register, Maintain, EndMaintenance, recoveryVars, world
  <2> QED
    BY <2>1
<1> QED
  BY <1>1, <1>2, RecoveryInvariance, PTL DEF RecoverySpec

\* A step that is no server's edit is recovery's, if it touches a store.
LEMMA UneditedSteps ==
  ASSUME RecoveryInv, edits \in Nat, [RecoveryNext]_recoveryVars, edits' = edits
  PROVE  Recover \/ UNCHANGED file
<1>1. ASSUME NEW p \in Projects, Serve(p) PROVE FALSE
  <2>1. edits' = edits + 1
    BY <1>1, ServeFacts DEF RecoveryInv, StoresOK, Edit
  <2> QED
    BY <2>1
<1> QED
  BY <1>1 DEF RecoveryNext, SourceChanges, Register, Maintain, EndMaintenance, recoveryVars

\* RetrySparesEdits: no step of recovery makes a tombstone a note again, takes back an
\* embedding, a revision or what was ingested, or removes a note from a store that stays
\* (legacy_recovery.py:36).
THEOREM RetrySparesEditsTheorem == RecoverySpec => RetrySparesEdits
<1> DEFINE Spared(p) ==
      /\ \A n \in DOMAIN file[p].notes :
           /\ n \in DOMAIN file'[p].notes
           /\ file'[p].notes[n].uid = file[p].notes[n].uid
           /\ file'[p].notes[n].status = file[p].notes[n].status
           /\ file'[p].notes[n].vec = file[p].notes[n].vec
           /\ file'[p].notes[n].rev = file[p].notes[n].rev
      /\ \A k \in DOMAIN file[p].docs :
           k \in DOMAIN file'[p].docs /\ file'[p].docs[k] = file[p].docs[k]
<1>1. ASSUME RecoveryInv, Recover, NEW p \in Projects, file'[p].here
      PROVE  Spared(p)
  <2>1. IsStore(file[p])
    BY <1>1 DEF RecoveryInv, StoresOK
  <2>2. CASE file'[p] = file[p]
    BY <2>2
  <2>3. CASE file'[p] = Created(file[p])
    <3>1. file'[p].notes = file[p].notes /\ file'[p].docs = file[p].docs
      BY <2>1, <2>3, CreatedFacts
    <3> QED
      BY <3>1
  <2>4. CASE file'[p] = Copied(file[p], job.source, p, job.ids) /\ file[p].here
    BY <2>1, <2>4, CopiedFacts
  <2>5. CASE file'[p] = Absent
    BY <1>1, <2>5 DEF Absent
  <2> QED
    BY <1>1, <2>2, <2>3, <2>4, <2>5, RecoverySteps
<1>2. ASSUME UNCHANGED file, NEW p \in Projects PROVE Spared(p)
  BY <1>2
<1> HIDE DEF Spared
<1>3. RecoveryInv /\ edits \in Nat /\ [RecoveryNext]_recoveryVars =>
        (edits' = edits => \A p \in Projects : file'[p].here => Spared(p))
  BY <1>1, <1>2, UneditedSteps
<1>4. RecoveryInv /\ edits \in Nat /\ [RecoveryNext]_recoveryVars =>
        (edits' = edits => \A p \in Projects : file'[p].here =>
           /\ \A n \in DOMAIN file[p].notes :
                /\ n \in DOMAIN file'[p].notes
                /\ file'[p].notes[n].uid = file[p].notes[n].uid
                /\ file'[p].notes[n].status = file[p].notes[n].status
                /\ file'[p].notes[n].vec = file[p].notes[n].vec
                /\ file'[p].notes[n].rev = file[p].notes[n].rev
           /\ \A k \in DOMAIN file[p].docs :
                k \in DOMAIN file'[p].docs /\ file'[p].docs[k] = file[p].docs[k])
  BY <1>3 DEF Spared
<1> QED
  BY <1>4, RecoveryInvariance, EditsAreCounted, PTL DEF RecoverySpec, RetrySparesEdits

\* RecoveredIsSafe: no step of recovery takes a note that came from the shared database
\* from any store, and the copy beside a store that a commit changes is what it was.
THEOREM RecoveredIsSafeTheorem == RecoverySpec => RecoveredIsSafe
<1>1. ASSUME RecoveryInv, Recover, NEW p \in Projects
      PROVE  UidsIn(file[p]) \cap LegacyUids \subseteq UidsIn(file'[p])
  <2>1. IsStore(file[p])
    BY <1>1 DEF RecoveryInv, StoresOK
  <2>2. CASE file'[p] = Created(file[p])
    <3>1. file'[p].notes = file[p].notes
      BY <2>1, <2>2, CreatedFacts
    <3> QED
      BY <3>1 DEF UidsIn
  <2>3. CASE file'[p] = Copied(file[p], job.source, p, job.ids) /\ file[p].here
    <3>1. \A n \in DOMAIN file[p].notes :
            n \in DOMAIN file'[p].notes /\ file'[p].notes[n].uid = file[p].notes[n].uid
      BY <2>1, <2>3, CopiedFacts
    <3> QED
      BY <3>1 DEF UidsIn
  <2> QED
    BY <1>1, <2>2, <2>3, RecoverySteps
<1>2. ASSUME RecoveryInv, [RecoveryNext]_recoveryVars, NEW p \in Projects,
             job.now = p, job.existed, file'[p] # file[p], job'.at = "next"
      PROVE  backup[p] = file[p]
  <2>1. job.at \notin {"checking", "next"} /\ job \in Jobs
    BY <1>2, LegacyAssumption DEF RecoveryInv, JobOK, Null
  <2>2. Recover
    <3>1. UNCHANGED job \/ Recover
      BY <1>2, ServeFacts DEF RecoveryNext, RecoveryInv, StoresOK, Edit, SourceChanges, Register, Maintain,
                              EndMaintenance, recoveryVars
    <3> QED
      BY <1>2, <2>1, <3>1
  <2>3. CASE Commit
    <3>1. job.at = "verifying"
      BY <2>3 DEF Commit
    <3> QED
      BY <1>2, <3>1 DEF RecoveryInv, BackupOK
  <2>4. ASSUME job.at \in {"preparing", "restoring"} PROVE FALSE
    <3>1. Prepare \/ Restore \/ Fail \/ Die
      BY <1>2, <2>2, <2>4
         DEF Recover, Apply, Preview, Start, StartApply, Preflight, TakeLock, FindBusy, Begin, Save, Copy,
             Commit, Reject, Finish
    <3>2. CASE Prepare
      BY <1>2, <2>1, <3>2 DEF Prepare, Jobs
    <3>3. CASE Restore
      BY <1>2, <3>3, IdleFacts DEF Restore
    <3>4. CASE Fail \/ Die
      BY <1>2, <3>4 DEF Fail, Die
    <3> QED
      BY <3>1, <3>2, <3>3, <3>4
  <2> QED
    BY <1>2, <2>2, <2>3, <2>4, RecoverySteps
<1>3. RecoveryInv /\ edits \in Nat /\ [RecoveryNext]_recoveryVars =>
        (edits' = edits =>
           \A p \in Projects : UidsIn(file[p]) \cap LegacyUids \subseteq UidsIn(file'[p]))
  <2>1. ASSUME UNCHANGED file, NEW p \in Projects PROVE UidsIn(file'[p]) = UidsIn(file[p])
    BY <2>1
  <2> QED
    BY <1>1, <2>1, UneditedSteps
<1>4. RecoveryInv /\ [RecoveryNext]_recoveryVars =>
        (\A p \in Projects : job.now = p /\ job.existed /\ file'[p] # file[p] /\ job'.at = "next" =>
           backup[p] = file[p])
  BY <1>2
<1>5. RecoverySpec => CompletedRemain
  BY <1>3, RecoveryInvariance, EditsAreCounted, PTL DEF RecoverySpec, CompletedRemain
<1>6. RecoverySpec => BackupIsTheBefore
  BY <1>4, RecoveryInvariance, PTL DEF RecoverySpec, BackupIsTheBefore
<1> QED
  BY <1>5, <1>6 DEF RecoveredIsSafe

-----------------------------------------------------------------------------
(* The copy and its verification.  In a store that is Coherent with the     *)
(* shared database a uid has one row and the links between legacy notes are *)
(* the shared database's; no edit and no commit changes that (LinksOK).  So *)
(* a copy fails its verification for what the store says of a row, only.    *)

\* In a store that is coherent a uid has one row at most.
LEMMA OnlyRow ==
  ASSUME NEW f, NEW v, Coherent(f, v), NEW n \in DOMAIN f.notes
  PROVE  IdsOf(f, f.notes[n].uid) = {n} /\ Least({n}) = n
<1>1. \A m \in DOMAIN f.notes : f.notes[m].uid = f.notes[n].uid => m = n
  BY DEF Coherent
<1>2. IdsOf(f, f.notes[n].uid) = {n}
  BY <1>1 DEF IdsOf
<1>3. n \in Nat
  BY DEF Coherent
<1> QED
  BY <1>2, <1>3 DEF Least

\* The numbers below which the members of a finite set are counted tell them apart.
LEMMA RankTellsApart ==
  ASSUME NEW S, IsFiniteSet(S), S \subseteq Nat, NEW r \in S, NEW q \in S
  PROVE  LET rank(x) == Cardinality({y \in S : y <= x})
         IN  /\ rank(r) \in 1 .. Cardinality(S) /\ Cardinality(S) \in Nat
             /\ rank(r) = rank(q) => r = q
<1> DEFINE low(x) == {y \in S : y <= x}
<1>1. \A x : low(x) \in SUBSET S
  OBVIOUS
<1>2. \A x : IsFiniteSet(low(x)) /\ Cardinality(low(x)) <= Cardinality(S)
  BY <1>1, FS_Subset
<1>3. Cardinality(S) \in Nat /\ \A x : Cardinality(low(x)) \in Nat
  BY <1>2, FS_CardinalityType
<1>4. r \in low(r)
  OBVIOUS
<1>5. Cardinality(low(r)) # 0
  BY <1>2, <1>4, FS_EmptySet
<1>6. ASSUME NEW x \in S, NEW y \in S, x < y PROVE Cardinality(low(x)) # Cardinality(low(y))
  <2>1. x \in Nat /\ y \in Nat /\ ~(y <= x) /\ \A z \in S : z <= x => z <= y
    BY <1>6
  <2>2. y \in low(y) /\ y \notin low(x)
    BY <2>1
  <2>3. \A z \in low(x) : z \in low(y)
    BY <2>1
  <2>4. low(x) \in SUBSET low(y) /\ IsFiniteSet(low(y))
    BY <1>2, <2>3, Zenon
  <2> HIDE DEF low
  <2>5. Cardinality(low(y)) = Cardinality(low(x)) => low(y) = low(x)
    BY <2>4, FS_Subset
  <2>6. low(y) # low(x)
    BY <2>2, Zenon
  <2> QED
    BY <2>5, <2>6, Zenon
<1>7. r < q \/ q < r \/ r = q
  OBVIOUS
<1>8. Cardinality(low(r)) = Cardinality(low(q)) => r = q
  BY <1>6, <1>7
<1>9. Cardinality(low(r)) \in 1 .. Cardinality(S)
  <2> HIDE DEF low
  <2> QED
    BY <1>2, <1>3, <1>5
<1> QED
  BY <1>3, <1>8, <1>9

\* A row that is there is its own image; the others get ids above all there are, and no
\* two rows the same.
LEMMA ImagesFacts ==
  ASSUME NEW f, NEW v, WholeDatabase(v), Coherent(f, v),
         NEW sel \in SUBSET DOMAIN Legacies[v].notes
  PROVE  LET rows == Legacies[v].notes
             at == Images(f, rows, sel)
             top == Top(DOMAIN f.notes)
         IN  /\ at = [r \in sel |-> at[r]]
             /\ top \in Nat /\ Cardinality(sel) \in Nat
             /\ \A r \in sel :
                  \/ at[r] \in DOMAIN f.notes /\ f.notes[at[r]].uid = rows[r].uid
                  \/ /\ IdsOf(f, rows[r].uid) = {} /\ at[r] \notin DOMAIN f.notes
                     /\ at[r] \in Nat \ {0} /\ at[r] <= top + Cardinality(sel)
             /\ \A r, q \in sel : at[r] = at[q] => r = q
<1> DEFINE rows == Legacies[v].notes
           at == Images(f, rows, sel)
           top == Top(DOMAIN f.notes)
           missing == {r \in sel : IdsOf(f, rows[r].uid) = {}}
           rank(r) == Cardinality({q \in missing : q <= r})
<1>1. at = [r \in sel |-> IF r \notin missing THEN Least(IdsOf(f, rows[r].uid)) ELSE top + rank(r)]
  BY DEF Images
<1>2. /\ IsFiniteSet(sel) /\ sel \subseteq Nat
      /\ \A r, q \in sel : rows[r].uid = rows[q].uid => r = q
  <2>1. IsFiniteSet(DOMAIN rows) /\ DOMAIN rows \subseteq Nat
        /\ \A r, q \in DOMAIN rows : rows[r].uid = rows[q].uid => r = q
    BY DEF WholeDatabase
  <2>2. IsFiniteSet(sel)
    BY <2>1, FS_Subset
  <2> QED
    BY <2>1, <2>2
<1>3. /\ IsFiniteSet(missing) /\ missing \subseteq Nat
      /\ Cardinality(missing) <= Cardinality(sel) /\ Cardinality(sel) \in Nat
  <2>1. missing \in SUBSET sel
    OBVIOUS
  <2> HIDE DEF missing
  <2> QED
    BY <1>2, <2>1, FS_Subset, FS_CardinalityType
<1>4. top \in Nat /\ \A n \in DOMAIN f.notes : n <= top /\ n \in Nat
  BY TopIsOnTop DEF Coherent
<1>5. \A r, q \in missing : /\ rank(r) \in 1 .. Cardinality(missing) /\ Cardinality(missing) \in Nat
                            /\ rank(r) = rank(q) => r = q
  <2> HIDE DEF missing
  <2> QED
    BY <1>3, RankTellsApart
<1>6. ASSUME NEW r \in sel, r \notin missing
      PROVE  at[r] \in DOMAIN f.notes /\ f.notes[at[r]].uid = rows[r].uid
  <2>1. PICK n \in DOMAIN f.notes : f.notes[n].uid = rows[r].uid
    BY <1>6 DEF IdsOf
  <2>2. Least(IdsOf(f, rows[r].uid)) = n
    BY <2>1, OnlyRow
  <2>3. at[r] = n
    BY <1>1, <1>6, <2>2
  <2> QED
    BY <2>1, <2>3
<1>7. ASSUME NEW r \in missing
      PROVE  /\ at[r] = top + rank(r) /\ IdsOf(f, rows[r].uid) = {} /\ at[r] \notin DOMAIN f.notes
             /\ at[r] \in Nat \ {0} /\ at[r] <= top + Cardinality(sel)
  <2>1. at[r] = top + rank(r) /\ IdsOf(f, rows[r].uid) = {}
    BY <1>1, <1>7
  <2>2. rank(r) \in 1 .. Cardinality(missing) /\ Cardinality(missing) \in Nat
    BY <1>5, <1>7
  <2> HIDE DEF rank, at, top, missing
  <2> QED
    BY <1>3, <1>4, <2>1, <2>2
<1>8. \A r, q \in sel : at[r] = at[q] => r = q
  <2> SUFFICES ASSUME NEW r \in sel, NEW q \in sel, at[r] = at[q] PROVE r = q
    OBVIOUS
  <2> HIDE DEF at
  <2>1. CASE r \notin missing /\ q \notin missing
    BY <1>2, <1>6, <2>1
  <2>2. CASE r \in missing /\ q \in missing
    <3> HIDE DEF rank, top, missing
    <3>1. at[r] = top + rank(r) /\ at[q] = top + rank(q)
      BY <1>7, <2>2
    <3>2. rank(r) \in Nat /\ rank(q) \in Nat /\ (rank(r) = rank(q) => r = q)
      BY <1>5, <2>2
    <3>3. \A a, b, c \in Nat : a + b = a + c => b = c
      OBVIOUS
    <3>4. top + rank(r) = top + rank(q)
      BY <3>1
    <3> QED
      BY <1>4, <3>2, <3>3, <3>4
  <2> HIDE DEF missing
  <2>3. CASE r \in missing /\ q \notin missing
    BY <1>6, <1>7, <2>3
  <2>4. CASE r \notin missing /\ q \in missing
    BY <1>6, <1>7, <2>4
  <2> QED
    BY <2>1, <2>2, <2>3, <2>4
<1>9. at = [r \in sel |-> at[r]]
  BY <1>1
<1> HIDE DEF at, top
<1>10. \A r \in sel :
         \/ at[r] \in DOMAIN f.notes /\ f.notes[at[r]].uid = rows[r].uid
         \/ /\ IdsOf(f, rows[r].uid) = {} /\ at[r] \notin DOMAIN f.notes
            /\ at[r] \in Nat \ {0} /\ at[r] <= top + Cardinality(sel)
  BY <1>6, <1>7
<1> QED
  BY <1>3, <1>4, <1>8, <1>9, <1>10 DEF at, top

LEMMA PointedRow ==
  ASSUME NEW r, IsRow(r), NEW b
  PROVE  [r EXCEPT !.sb = b] = [uid |-> r.uid, status |-> r.status, sb |-> b, vec |-> r.vec, rev |-> r.rev]
  BY DEF IsRow

\* What the copy makes of each selected row: its image has its uid and pointer, and its
\* status if it was not there.
LEMMA CopiedRows ==
  ASSUME NEW f, IsStore(f), NEW v, WholeDatabase(v), Coherent(f, v), NEW p \in Projects, NEW ids
  PROVE  LET rows == Legacies[v].notes
             sel == NotesOf(v, p, ids)
             at == Images(f, rows, sel)
             g == Copied(f, v, p, ids)
         IN  /\ DOMAIN g.notes = DOMAIN f.notes \cup {at[r] : r \in sel}
             /\ \A r \in sel :
                  /\ g.notes[at[r]].uid = rows[r].uid
                  /\ g.notes[at[r]].sb = IF rows[r].sb \in sel THEN at[rows[r].sb] ELSE Null
                  /\ at[r] \notin DOMAIN f.notes => SameNote(g.notes[at[r]], rows[r])
             /\ g.links = f.links \cup {<<at[l[1]], at[l[2]]>> : l \in LinksAmong(v, sel)}
             /\ \A d \in DocsOf(v, p, ids) :
                  LET row == Legacies[v].docs[d]
                  IN  /\ row.key \in DOMAIN g.docs
                      /\ \/ row.key \in DOMAIN f.docs
                         \/ g.docs[row.key] = [hash |-> row.hash, born |-> row.born]
<1> DEFINE rows == Legacies[v].notes
           sel == NotesOf(v, p, ids)
           at == Images(f, rows, sel)
           images == {at[r] : r \in sel}
           from == [n \in images |-> rows[CHOOSE r \in sel : at[r] = n]]
           arrived(row) == [uid |-> row.uid, status |-> StatusOf(row), sb |-> Null,
                            vec |-> row.vec, rev |-> RevOf(row)]
           links == {<<at[l[1]], at[l[2]]>> : l \in LinksAmong(v, sel)}
           picked == [d \in DocsOf(v, p, ids) |-> Legacies[v].docs[d]]
           image(k) == CHOOSE d \in DOMAIN picked : picked[d].key = k
           base(n) == IF n \in DOMAIN f.notes THEN KeptRow(f.notes[n], from[n]) ELSE arrived(from[n])
           notes2 == [n \in DOMAIN f.notes \cup DOMAIN from |->
                        IF n \notin DOMAIN from THEN f.notes[n]
                        ELSE [base(n) EXCEPT !.sb = Pointer(at, n, from[n].sb)]]
           docs2 == [k \in DOMAIN f.docs \cup {picked[d].key : d \in DOMAIN picked} |->
                       IF k \in DOMAIN f.docs THEN f.docs[k]
                       ELSE [hash |-> picked[image(k)].hash, born |-> picked[image(k)].born]]
           g == Copied(f, v, p, ids)
<1>1. g = [f EXCEPT !.notes = notes2, !.links = f.links \cup links, !.docs = docs2]
  BY DEF Copied
<1>2. /\ sel \in SUBSET DOMAIN rows
      /\ \A d \in DocsOf(v, p, ids) : d \in DOMAIN Legacies[v].docs /\ Legacies[v].docs[d].owner = p
  <2>1. p # Null
    BY LegacyAssumption
  <2> QED
    BY <2>1 DEF NotesOf, DocsOf, Selected, Route
<1>3. /\ at = [r \in sel |-> at[r]]
      /\ \A r \in sel : at[r] \in DOMAIN f.notes => f.notes[at[r]].uid = rows[r].uid
      /\ \A r, q \in sel : at[r] = at[q] => r = q
  BY <1>2, ImagesFacts
<1> HIDE DEF at, sel
<1>4. ASSUME NEW r \in sel
      PROVE  at[r] \in images /\ from[at[r]] = rows[r]
  <2>1. (CHOOSE q \in sel : at[q] = at[r]) = r
    BY <1>3
  <2> QED
    BY <2>1
<1>5. DOMAIN from = images /\ DOMAIN notes2 = DOMAIN f.notes \cup images
  OBVIOUS
<1> HIDE DEF from, images
<1>6. ASSUME NEW r \in sel
      PROVE  /\ notes2[at[r]].uid = rows[r].uid
             /\ notes2[at[r]].sb = Pointer(at, at[r], rows[r].sb)
             /\ at[r] \notin DOMAIN f.notes => SameNote(notes2[at[r]], rows[r])
  <2>1. notes2[at[r]] = [base(at[r]) EXCEPT !.sb = Pointer(at, at[r], rows[r].sb)]
    BY <1>4, <1>5
  <2>2. /\ IsRow(base(at[r])) /\ base(at[r]).uid = rows[r].uid
        /\ at[r] \notin DOMAIN f.notes => SameNote(base(at[r]), rows[r])
    <3>1. CASE at[r] \in DOMAIN f.notes
      <4>1. base(at[r]) = f.notes[at[r]]
        BY <3>1 DEF KeptRow
      <4>2. IsRow(f.notes[at[r]]) /\ f.notes[at[r]].uid = rows[r].uid
        BY <1>3, <3>1, RowsOfStore
      <4> HIDE DEF base
      <4> QED
        BY <3>1, <4>1, <4>2
    <3>2. CASE at[r] \notin DOMAIN f.notes
      <4>1. base(at[r]) = arrived(rows[r])
        BY <1>4, <3>2
      <4>2. IsRow(arrived(rows[r])) /\ arrived(rows[r]).uid = rows[r].uid
            /\ SameNote(arrived(rows[r]), rows[r])
        BY DEF IsRow, SameNote
      <4> QED
        BY <3>2, <4>1, <4>2
    <3> QED
      BY <3>1, <3>2
  <2> HIDE DEF base, notes2
  <2>3. notes2[at[r]] = [uid |-> base(at[r]).uid, status |-> base(at[r]).status,
                         sb |-> Pointer(at, at[r], rows[r].sb),
                         vec |-> base(at[r]).vec, rev |-> base(at[r]).rev]
    BY <2>1, <2>2, PointedRow
  <2> QED
    BY <2>2, <2>3 DEF SameNote
<1>7. ASSUME NEW d \in DocsOf(v, p, ids)
      PROVE  LET row == Legacies[v].docs[d]
             IN  /\ row.key \in DOMAIN docs2
                 /\ \/ row.key \in DOMAIN f.docs
                    \/ docs2[row.key] = [hash |-> row.hash, born |-> row.born]
  <2> DEFINE key == Legacies[v].docs[d].key
  <2>1. d \in DOMAIN picked /\ picked[d] = Legacies[v].docs[d]
    OBVIOUS
  <2>2. \A e \in DOMAIN picked : picked[e].key = key => e = d
    BY <1>2 DEF WholeDatabase
  <2>3. image(key) = d
    BY <2>1, <2>2
  <2>4. key \in DOMAIN docs2
    BY <2>1
  <2> HIDE DEF picked, image, key
  <2>5. key \notin DOMAIN f.docs => docs2[key] = [hash |-> picked[d].hash, born |-> picked[d].born]
    BY <2>3, <2>4
  <2> QED
    BY <2>1, <2>4, <2>5 DEF key
<1> HIDE DEF notes2, docs2, links
<1>8. g = [here |-> f.here, notes |-> notes2, links |-> f.links \cup links, docs |-> docs2,
           merges |-> f.merges]
  BY <1>1 DEF IsStore
<1>9. g.notes = notes2 /\ g.docs = docs2 /\ g.links = f.links \cup links
  BY <1>8
<1>10. \A r \in sel : Pointer(at, at[r], rows[r].sb) = IF rows[r].sb \in sel THEN at[rows[r].sb] ELSE Null
  <2>1. DOMAIN at = sel
    BY <1>3
  <2> QED
    BY <2>1 DEF Pointer
<1> HIDE DEF g
<1>11. /\ DOMAIN g.notes = DOMAIN f.notes \cup {at[r] : r \in sel}
       /\ \A r \in sel :
            /\ g.notes[at[r]].uid = rows[r].uid
            /\ g.notes[at[r]].sb = IF rows[r].sb \in sel THEN at[rows[r].sb] ELSE Null
            /\ at[r] \notin DOMAIN f.notes => SameNote(g.notes[at[r]], rows[r])
  BY <1>5, <1>6, <1>9, <1>10 DEF images
<1>12. g.links = f.links \cup {<<at[l[1]], at[l[2]]>> : l \in LinksAmong(v, sel)}
  BY <1>9 DEF links
<1>13. \A d \in DocsOf(v, p, ids) :
         LET row == Legacies[v].docs[d]
         IN  /\ row.key \in DOMAIN g.docs
             /\ \/ row.key \in DOMAIN f.docs
                \/ g.docs[row.key] = [hash |-> row.hash, born |-> row.born]
  BY <1>7, <1>9
<1> QED
  BY <1>11, <1>12, <1>13, Zenon DEF g, at, sel

\* The copy gives a store no second row of a uid, and no link that the shared database
\* does not have.
LEMMA CopiedCoherent ==
  ASSUME LegacyIsWhole, NEW f, IsStore(f), f.here, NEW v \in Contents, Coherent(f, v),
         NEW p \in Projects, NEW ids
  PROVE  Coherent(Copied(f, v, p, ids), v)
<1> DEFINE rows == Legacies[v].notes
           sel == NotesOf(v, p, ids)
           at == Images(f, rows, sel)
           top == Top(DOMAIN f.notes)
           g == Copied(f, v, p, ids)
<1>1. WholeDatabase(v)
  BY DEF LegacyIsWhole
<1>2. sel \in SUBSET DOMAIN rows
  BY DEF NotesOf, Selected
<1>3. /\ top \in Nat /\ Cardinality(sel) \in Nat
      /\ \A r \in sel :
           \/ at[r] \in DOMAIN f.notes
           \/ /\ IdsOf(f, rows[r].uid) = {} /\ at[r] \notin DOMAIN f.notes
              /\ at[r] \in Nat \ {0} /\ at[r] <= top + Cardinality(sel)
  BY <1>1, <1>2, ImagesFacts
<1>4. /\ DOMAIN g.notes = DOMAIN f.notes \cup {at[r] : r \in sel}
      /\ \A r \in sel : g.notes[at[r]].uid = rows[r].uid
      /\ g.links = f.links \cup {<<at[l[1]], at[l[2]]>> : l \in LinksAmong(v, sel)}
  BY <1>1, CopiedRows
<1>5. \A n \in DOMAIN f.notes : g.notes[n].uid = f.notes[n].uid
  BY CopiedFacts
<1>6. /\ DOMAIN f.notes \subseteq Nat \ {0} /\ \A n \in DOMAIN f.notes : n <= top
      /\ \A n, m \in DOMAIN f.notes : f.notes[n].uid = f.notes[m].uid => n = m
      /\ \A l \in f.links : l = <<l[1], l[2]>> /\ l[1] \in DOMAIN f.notes /\ l[2] \in DOMAIN f.notes
  BY TopIsOnTop DEF Coherent
<1>7. \A r, q \in sel : rows[r].uid = rows[q].uid => r = q
  BY <1>1, <1>2 DEF WholeDatabase
<1> HIDE DEF at, g, sel, top, rows
<1>8. /\ DOMAIN g.notes \subseteq Nat \ {0}
      /\ \E b \in DOMAIN g.notes \cup {0} : \A n \in DOMAIN g.notes : n <= b
  <2> DEFINE b == top + Cardinality(sel)
  <2>1. b \in Nat /\ DOMAIN g.notes \subseteq Nat \ {0} /\ \A n \in DOMAIN g.notes : n <= b
    BY <1>3, <1>4, <1>6
  <2> HIDE DEF b
  <2>2. IdsOK(g.notes)
    BY <2>1, BoundedIdsOK
  <2> QED
    BY <2>2 DEF IdsOK
<1>9. ASSUME NEW n \in DOMAIN g.notes, NEW m \in DOMAIN g.notes, g.notes[n].uid = g.notes[m].uid
      PROVE  n = m
  <2>1. ASSUME NEW x \in DOMAIN g.notes \ DOMAIN f.notes, NEW y \in DOMAIN g.notes,
               g.notes[x].uid = g.notes[y].uid
        PROVE  x = y
    <3>1. PICK r \in sel : x = at[r]
      BY <1>4, <2>1
    <3>2. IdsOf(f, g.notes[x].uid) = {} /\ g.notes[x].uid = rows[r].uid
      BY <1>3, <1>4, <2>1, <3>1
    <3>3. y \notin DOMAIN f.notes
      BY <1>5, <2>1, <3>2 DEF IdsOf
    <3>4. PICK q \in sel : y = at[q]
      BY <1>4, <3>3
    <3> QED
      BY <1>4, <1>7, <2>1, <3>1, <3>2, <3>4
  <2>2. CASE n \in DOMAIN f.notes /\ m \in DOMAIN f.notes
    BY <1>5, <1>6, <1>9, <2>2
  <2>3. CASE n \notin DOMAIN f.notes
    BY <1>9, <2>1, <2>3
  <2>4. CASE m \notin DOMAIN f.notes
    BY <1>9, <2>1, <2>4
  <2> QED
    BY <2>2, <2>3, <2>4
<1>10. \A l \in LinksAmong(v, sel) : l[1] \in sel /\ l[2] \in sel /\ l \in Legacies[v].links
  BY DEF LinksAmong
<1>11. \A l \in g.links : l = <<l[1], l[2]>> /\ l[1] \in DOMAIN g.notes /\ l[2] \in DOMAIN g.notes
  BY <1>4, <1>6, <1>10
<1>12. ASSUME NEW l \in g.links, g.notes[l[1]].uid \in LegacyUids, g.notes[l[2]].uid \in LegacyUids
       PROVE  \E w \in Contents : w <= v /\ LinkUids(g.notes, l) \in LegacyLinks(w)
  <2>1. CASE l \in f.links
    <3>1. l[1] \in DOMAIN f.notes /\ l[2] \in DOMAIN f.notes
      BY <1>6, <2>1
    <3>2. LinkUids(g.notes, l) = LinkUids(f.notes, l)
      BY <1>5, <3>1 DEF LinkUids
    <3> QED
      BY <1>5, <1>12, <2>1, <3>1, <3>2 DEF Coherent
  <2>2. CASE l \notin f.links
    <3>1. PICK k \in LinksAmong(v, sel) : l = <<at[k[1]], at[k[2]]>>
      BY <1>4, <2>2
    <3>2. l[1] = at[k[1]] /\ l[2] = at[k[2]]
      BY <3>1
    <3>3. LinkUids(g.notes, l) = LinkUids(rows, k)
      BY <1>4, <1>10, <3>2 DEF LinkUids
    <3>4. LinkUids(rows, k) \in LegacyLinks(v)
      BY <1>10 DEF LegacyLinks, rows
    <3> QED
      BY <3>3, <3>4, v <= v DEF LegacyIsWhole
  <2> QED
    BY <2>1, <2>2
<1>13. Coherent(g, v)
  BY <1>8, <1>9, <1>11, <1>12 DEF Coherent
<1> QED
  BY <1>13 DEF g


\* Once its rows are there, the images of a selection are the rows with their uids.
LEMMA ImagesOfThere ==
  ASSUME NEW g, NEW v, WholeDatabase(v), Coherent(g, v),
         NEW sel \in SUBSET DOMAIN Legacies[v].notes
  PROVE  \A m : /\ m = [r \in sel |-> m[r]]
                /\ \A r \in sel : m[r] \in DOMAIN g.notes /\ g.notes[m[r]].uid = Legacies[v].notes[r].uid
                => Images(g, Legacies[v].notes, sel) = m
<1> DEFINE rows == Legacies[v].notes
           there == Images(g, rows, sel)
           top == Top(DOMAIN g.notes)
<1>0. /\ there = [r \in sel |-> there[r]]
      /\ top \in Nat /\ Cardinality(sel) \in Nat
      /\ \A r \in sel :
           \/ there[r] \in DOMAIN g.notes /\ g.notes[there[r]].uid = rows[r].uid
           \/ /\ IdsOf(g, rows[r].uid) = {} /\ there[r] \notin DOMAIN g.notes
              /\ there[r] \in Nat \ {0} /\ there[r] <= top + Cardinality(sel)
      /\ \A r, q \in sel : there[r] = there[q] => r = q
  BY ImagesFacts, Z3
<1> HIDE DEF there, top
<1>1. /\ there = [r \in sel |-> there[r]]
      /\ \A r \in sel : \/ there[r] \in DOMAIN g.notes /\ g.notes[there[r]].uid = rows[r].uid
                        \/ IdsOf(g, rows[r].uid) = {}
  BY <1>0
<1> SUFFICES ASSUME NEW m, m = [r \in sel |-> m[r]],
                    \A r \in sel : m[r] \in DOMAIN g.notes /\ g.notes[m[r]].uid = rows[r].uid
             PROVE  there = m
  BY DEF there
<1>2. ASSUME NEW r \in sel PROVE there[r] = m[r]
  <2>1. m[r] \in IdsOf(g, rows[r].uid)
    BY DEF IdsOf
  <2>2. there[r] \in DOMAIN g.notes /\ g.notes[there[r]].uid = g.notes[m[r]].uid
    BY <1>1, <2>1
  <2> QED
    BY <2>2 DEF Coherent
<1> QED
  BY <1>1, <1>2

\* A copy into a store that says nothing else of the rows passes its verification.
LEMMA CopyIsVerified ==
  ASSUME LegacyIsWhole, NEW p \in Projects, IsStore(file[p]), file[p].here,
         NEW v \in Contents, Coherent(file[p], v), NEW ids, ~Diverged(p, v, ids)
  PROVE  Verified(Copied(file[p], v, p, ids), v, p, ids)
<1> DEFINE f == file[p]
           rows == Legacies[v].notes
           sel == NotesOf(v, p, ids)
           at == Images(f, rows, sel)
           images == {at[r] : r \in sel}
           links == {<<at[l[1]], at[l[2]]>> : l \in LinksAmong(v, sel)}
           g == Copied(f, v, p, ids)
<1>1. WholeDatabase(v) /\ sel \in SUBSET DOMAIN rows
  BY DEF LegacyIsWhole, NotesOf, Selected
<1>2. /\ DOMAIN g.notes = DOMAIN f.notes \cup images
      /\ \A r \in sel :
           /\ g.notes[at[r]].uid = rows[r].uid
           /\ g.notes[at[r]].sb = IF rows[r].sb \in sel THEN at[rows[r].sb] ELSE Null
           /\ at[r] \notin DOMAIN f.notes => SameNote(g.notes[at[r]], rows[r])
      /\ g.links = f.links \cup links
      /\ \A d \in DocsOf(v, p, ids) :
           LET row == Legacies[v].docs[d]
           IN  /\ row.key \in DOMAIN g.docs
               /\ \/ row.key \in DOMAIN f.docs
                  \/ g.docs[row.key] = [hash |-> row.hash, born |-> row.born]
  BY <1>1, CopiedRows
<1>3. /\ \A n \in DOMAIN f.notes :
           /\ g.notes[n].uid = f.notes[n].uid /\ g.notes[n].status = f.notes[n].status
           /\ g.notes[n].vec = f.notes[n].vec /\ g.notes[n].rev = f.notes[n].rev
      /\ \A k \in DOMAIN f.docs : g.docs[k] = f.docs[k]
  BY CopiedFacts
<1>4. Coherent(g, v)
  BY CopiedCoherent
<1>5. at = [r \in sel |-> at[r]]
  BY <1>1, ImagesFacts
<1>6. Images(g, rows, sel) = at
  <2> DEFINE There(h, m) == /\ m = [r \in sel |-> m[r]]
                            /\ \A r \in sel : m[r] \in DOMAIN h.notes /\ h.notes[m[r]].uid = rows[r].uid
  <2>1. \A r \in sel : at[r] \in DOMAIN g.notes /\ g.notes[at[r]].uid = rows[r].uid
    BY <1>2
  <2>2. There(g, at)
    BY <1>5, <2>1, Zenon
  <2> HIDE DEF g, at
  <2>3. \A h, m : Coherent(h, v) /\ There(h, m) => Images(h, rows, sel) = m
    BY <1>1, ImagesOfThere
  <2> HIDE DEF There
  <2> QED
    BY <1>4, <2>2, <2>3, Zenon
<1> HIDE DEF g, at
<1>7. \A d \in DocsOf(v, p, ids) :
        LET row == Legacies[v].docs[d]
        IN  row.key \in DOMAIN g.docs /\ g.docs[row.key] = [hash |-> row.hash, born |-> row.born]
  BY <1>2, <1>3 DEF Diverged
<1>8. \A r \in sel : /\ g.notes[at[r]].status = rows[r].status
                     /\ g.notes[at[r]].vec = rows[r].vec /\ g.notes[at[r]].rev = rows[r].rev
  <2> SUFFICES ASSUME NEW r \in sel
               PROVE  /\ g.notes[at[r]].status = rows[r].status
                      /\ g.notes[at[r]].vec = rows[r].vec /\ g.notes[at[r]].rev = rows[r].rev
    OBVIOUS
  <2>1. StatusOf(rows[r]) = rows[r].status /\ RevOf(rows[r]) = rows[r].rev
    BY <1>1 DEF WholeDatabase, StatusOf, RevOf
  <2>2. SameNote(g.notes[at[r]], rows[r])
    <3>1. CASE at[r] \in DOMAIN f.notes
      <4>1. at[r] \in IdsOf(f, rows[r].uid)
        BY <1>2, <1>3, <3>1 DEF IdsOf
      <4>2. SameNote(f.notes[at[r]], rows[r])
        BY <4>1 DEF Diverged
      <4> QED
        BY <1>3, <3>1, <4>2 DEF SameNote
    <3>2. CASE at[r] \notin DOMAIN f.notes
      BY <1>2, <3>2
    <3> QED
      BY <3>1, <3>2
  <2> QED
    BY <2>1, <2>2 DEF SameNote
<1>9. {l \in g.links : l[1] \in images /\ l[2] \in images} = links
  <2>1. ASSUME NEW l \in links PROVE l \in g.links /\ l[1] \in images /\ l[2] \in images
    <3>1. PICK k \in LinksAmong(v, sel) : l = <<at[k[1]], at[k[2]]>>
      OBVIOUS
    <3>2. k[1] \in sel /\ k[2] \in sel
      BY DEF LinksAmong
    <3> QED
      BY <1>2, <3>1, <3>2
  <2>2. ASSUME NEW l \in f.links, l[1] \in images, l[2] \in images PROVE l \in links
    <3>1. PICK a \in sel, b \in sel : l[1] = at[a] /\ l[2] = at[b]
      BY <2>2
    <3>2. l = <<l[1], l[2]>> /\ l[1] \in DOMAIN f.notes /\ l[2] \in DOMAIN f.notes
      BY DEF Coherent
    <3>3. l = <<at[a], at[b]>> /\ at[a] \in DOMAIN f.notes /\ at[b] \in DOMAIN f.notes
      BY <3>1, <3>2
    <3>4. f.notes[at[a]].uid = rows[a].uid /\ f.notes[at[b]].uid = rows[b].uid
      BY <1>2, <1>3, <3>3
    <3>5. a \in DOMAIN rows /\ b \in DOMAIN rows
      BY <1>1
    <3>6. rows[a].uid \in LegacyUids /\ rows[b].uid \in LegacyUids
      BY <3>5 DEF LegacyUids
    <3>7. LinkUids(f.notes, l) = LinkUids(rows, <<a, b>>)
      BY <3>1, <3>4 DEF LinkUids
    <3>8. PICK w \in Contents : w <= v /\ LinkUids(f.notes, l) \in LegacyLinks(w)
      BY <3>1, <3>4, <3>6 DEF Coherent
    <3>9. <<a, b>> \in Legacies[v].links
      BY <3>5, <3>7, <3>8 DEF LegacyIsWhole
    <3>10. <<a, b>> \in LinksAmong(v, sel)
      BY <3>9 DEF LinksAmong
    <3> QED
      BY <3>3, <3>10
  <2> HIDE DEF links, images
  <2> QED
    BY <1>2, <2>1, <2>2
<1>10. Verified(g, v, p, ids)
  BY <1>2, <1>6, <1>7, <1>8, <1>9 DEF Verified
<1> QED
  BY <1>10 DEF g


\* What is coherent with some contents of the shared database is with the later ones.
LEMMA CoherentLater ==
  ASSUME LegacyIsWhole, NEW f, NEW v \in Contents, NEW w \in Contents, v <= w, Coherent(f, v)
  PROVE  Coherent(f, w)
<1>1. \A u \in Contents : u <= v => u <= w
  <2>1. Contents \subseteq Nat
    BY DEF LegacyIsWhole
  <2> HIDE DEF Contents
  <2> QED
    BY <2>1
<1> QED
  BY <1>1 DEF Coherent

LEMMA AbsentCoherent == \A v : Coherent(Absent, v)
<1>1. DOMAIN Absent.notes = {} /\ Absent.links = {}
  BY DEF Absent
<1> QED
  BY <1>1 DEF Coherent

\* The contents that the stores may have links of: those of the copy, once there is one.
Latest == IF job.at = "idle" THEN source ELSE job.source

LinksOK ==
  /\ faults \in Nat
  /\ job.at # "idle" => job.source <= source
  /\ \A p \in Projects : Coherent(file[p], Latest)

\* An apply works on one copy of the shared database, made when it starts.
LEMMA LatestGrows ==
  ASSUME LegacyIsWhole, RecoveryInv, RecoveryInv', LinksOK, [RecoveryNext]_recoveryVars
  PROVE  /\ faults' \in Nat /\ (job'.at # "idle" => job'.source <= source')
         /\ Latest \in Contents /\ Latest' \in Contents /\ Latest <= Latest'
<1> USE DEF RecoveryInv
<1>1. /\ source \in Contents /\ source' \in Contents /\ job \in Jobs /\ Contents \subseteq Nat
      /\ job.at # "idle" => job.source \in Contents
      /\ job'.at # "idle" => job'.source \in Contents
  BY DEF JobOK, LegacyIsWhole
<1>2. faults' \in Nat
  <2>1. faults \in Nat /\ (faults' = faults \/ faults' = faults + 1)
    BY ServeFacts
       DEF LinksOK, StoresOK, RecoveryNext, Recover, Preview, Start, StartApply, Apply, Preflight, TakeLock,
           FindBusy, Prepare, Begin, Save, Copy, Commit, Reject, Restore, Finish, Fail, Die, Edit,
           SourceChanges, Register, Maintain, EndMaintenance, recoveryVars
  <2> QED
    BY <2>1
<1>3. \/ UNCHANGED <<job, source>>
      \/ job.at # "idle" /\ UNCHANGED source /\ (job'.at = "idle" \/ job'.source = job.source)
      \/ job.at = "idle" /\ UNCHANGED source /\ job'.at = "checking" /\ job'.source = source
      \/ UNCHANGED job /\ source' = source + 1
  <2>1. CASE Start
    BY <2>1 DEF Start, StartApply, Idle, world
  <2>2. CASE Apply
    <3>1. job.at # "idle" /\ UNCHANGED source
      BY <2>2 DEF Apply, Preflight, TakeLock, FindBusy, Prepare, Begin, Save, Copy, Commit, Reject, Restore,
                  Finish, world
    <3>2. job'.at = "idle" \/ job'.source = job.source
      BY <1>1, <2>2, IdleFacts
         DEF Apply, Preflight, TakeLock, FindBusy, Prepare, Begin, Save, Copy, Commit, Reject, Restore,
             Finish, Jobs
    <3> QED
      BY <3>1, <3>2
  <2>3. CASE Fail \/ Die
    BY <1>1, <2>3, IdleFacts DEF Fail, Die, Jobs, world
  <2>4. CASE SourceChanges
    BY <2>4 DEF SourceChanges
  <2>5. CASE \E p \in Projects : Serve(p) \/ Register(p) \/ Maintain(p) \/ EndMaintenance(p)
    BY <2>5, ServeFacts DEF StoresOK, Edit, Register, Maintain, EndMaintenance, world
  <2>6. CASE Preview \/ UNCHANGED recoveryVars
    BY <2>6 DEF Preview, recoveryVars, world
  <2> QED
    BY <2>1, <2>2, <2>3, <2>4, <2>5, <2>6 DEF RecoveryNext, Recover
<1>4. \A a, b \in Nat : a <= a /\ (a <= b => a <= b + 1)
  OBVIOUS
<1>5. job.at # "idle" => job.source <= source
  BY DEF LinksOK
<1>6. Latest = (IF job.at = "idle" THEN source ELSE job.source)
      /\ Latest' = (IF job'.at = "idle" THEN source' ELSE job'.source)
  BY DEF Latest
<1> QED
  BY <1>1, <1>2, <1>3, <1>4, <1>5, <1>6

LEMMA LinksInvariance == ASSUME LegacyIsWhole PROVE RecoverySpec => []LinksOK
<1>1. RecoveryInit => LinksOK
  BY IdleFacts DEF RecoveryInit, LinksOK, Latest, LegacyIsWhole
<1>2. RecoveryInv /\ RecoveryInv' /\ LinksOK /\ [RecoveryNext]_recoveryVars => LinksOK'
  <2> SUFFICES ASSUME RecoveryInv, RecoveryInv', LinksOK, [RecoveryNext]_recoveryVars PROVE LinksOK'
    OBVIOUS
  <2>1. /\ faults' \in Nat /\ (job'.at # "idle" => job'.source <= source')
        /\ Latest \in Contents /\ Latest' \in Contents /\ Latest <= Latest'
    BY LatestGrows
  <2>2. ASSUME NEW p \in Projects PROVE Coherent(file'[p], Latest)
    <3>1. Coherent(file[p], Latest) /\ IsStore(file[p])
      BY DEF LinksOK, RecoveryInv, StoresOK
    <3>2. CASE Recover
      <4>1. CASE Commit /\ file'[p] = Copied(file[p], job.source, p, job.ids) /\ file[p].here
        <5>1. Latest = job.source
          BY <4>1 DEF Commit, Latest
        <5> QED
          BY <2>1, <3>1, <4>1, <5>1, CopiedCoherent
      <4> QED
        BY <3>1, <3>2, <4>1, RecoverySteps, CreatedFacts, AbsentCoherent DEF MadeOf
    <3>3. ASSUME NEW q \in Projects, Serve(q) PROVE Coherent(file'[p], Latest)
      <4>1. IsStore(file[q]) /\ Coherent(file[q], Latest) /\ file = [x \in Projects |-> file[x]]
        BY DEF LinksOK, RecoveryInv, StoresOK
      <4>2. PICK g : Edit(q, g) /\ Coherent(g, Latest)
        BY <3>3, <4>1, ServeFacts DEF MadeOf
      <4>3. file'[p] = g \/ file'[p] = file[p]
        BY <4>1, <4>2 DEF Edit
      <4> QED
        BY <3>1, <4>2, <4>3
    <3>4. CASE UNCHANGED file
      BY <3>1, <3>4
    <3> QED
      BY <3>2, <3>3, <3>4 DEF RecoveryNext, SourceChanges, Register, Maintain, EndMaintenance, recoveryVars
  <2>3. \A p \in Projects : Coherent(file'[p], Latest')
    BY <2>1, <2>2, CoherentLater
  <2> QED
    BY <2>1, <2>3 DEF LinksOK, Latest
<1> QED
  BY <1>1, <1>2, RecoveryInvariance, PTL DEF RecoverySpec

\* OnlyDivergenceRejects: a copy that fails its verification went into a store that says
\* otherwise of a row (legacy_recovery.py:5).  The hypothesis is about the shared database
\* and the stores as they are at the beginning.
THEOREM OnlyDivergenceRejectsTheorem ==
  ASSUME LegacyIsWhole
  PROVE  RecoverySpec => OnlyDivergenceRejects
<1>1. ASSUME RecoveryInv, LinksOK, [RecoveryNext]_recoveryVars,
             job.at = "verifying", job'.at = "restoring", faults' = faults
      PROVE  Diverged(job.now, job.source, job.ids)
  <2>1. Reject
    <3>1. ~UNCHANGED job
      BY <1>1
    <3>2. Recover
      BY <1>1, <3>1, ServeFacts
         DEF RecoveryNext, RecoveryInv, StoresOK, Edit, SourceChanges, Register, Maintain, EndMaintenance,
             recoveryVars, world
    <3>3. ~Fail /\ ~Die
      BY <1>1 DEF LinksOK, Fail, Die
    <3>4. ~Commit
      BY <1>1 DEF Commit, RecoveryInv, JobOK, Jobs
    <3> QED
      BY <1>1, <3>2, <3>3, <3>4
         DEF Recover, Apply, Preview, Start, StartApply, Preflight, TakeLock, FindBusy, Prepare, Begin, Save,
             Copy, Restore, Finish
  <2>2. /\ job.now \in Projects /\ job.source \in Contents
        /\ IsStore(file[job.now]) /\ file[job.now].here
        /\ draft = Copied(file[job.now], job.source, job.now, job.ids)
    <3>1. job.now \in job.sel /\ job.sel \in SUBSET Projects /\ job.source \in Contents
      BY <1>1 DEF RecoveryInv, JobOK, Jobs, AtStore
    <3> QED
      BY <1>1, <3>1 DEF RecoveryInv, StoresOK, CreatedOK, DraftOK, AtStore
  <2>3. Coherent(file[job.now], job.source)
    BY <1>1, <2>2 DEF LinksOK, Latest
  <2>4. ~Verified(draft, job.source, job.now, job.ids)
    BY <2>1 DEF Reject
  <2> QED
    BY <2>2, <2>3, <2>4, CopyIsVerified
<1>2. RecoveryInv /\ LinksOK /\ [RecoveryNext]_recoveryVars =>
        (job.at = "verifying" /\ job'.at = "restoring" /\ faults' = faults =>
           Diverged(job.now, job.source, job.ids))
  BY <1>1
<1> QED
  BY <1>2, RecoveryInvariance, LinksInvariance, PTL DEF RecoverySpec, OnlyDivergenceRejects
=============================================================================
