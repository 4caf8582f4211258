------------------------------ MODULE PoolRecall ------------------------------
(***************************************************************************)
(* federated_recall over one named Pool, composed with Recall: the members *)
(* are probed one after the other, then recalled from concurrently, and    *)
(* their ranked lists fused by reciprocal ranks.                           *)
(*                                                                         *)
(* The connected project's own recall is that of Recall, step by step.     *)
(* What a probe finds and what another member answers is left open: its    *)
(* file may be built, migrated, damaged or removed by others at any time,  *)
(* so that a recall which was planned may return any of Lists, or fail.    *)
(***************************************************************************)
EXTENDS Recall, SequencesExt

CONSTANTS
  Siblings,      \* the other members of the Pool
  Lists,         \* the ranked texts a sibling may answer with
  PoolQueries,   \* the queries asked of the Pool
  RankConstant,  \* BRAINCELL_RRF_K
  Weight,        \* BRAINCELL_RRF_WEIGHT_ACTIVE
  Slots,         \* _MAX_CONCURRENCY
  Strict,        \* BRAINCELL_FEDERATE_STRICT
  MaxPoolWrites  \* bound on the notes minted while a Pool is asked

Seed == "seed"
Members == {Seed} \cup Siblings

ASSUME PoolAssumption ==
  /\ Seed \notin Siblings /\ IsFiniteSet(Siblings) /\ Lists \subseteq Seq(Nat)
  /\ RankConstant \in Nat /\ Weight \in Nat \ {0} /\ Slots \in Nat \ {0}
  /\ PoolQueries \subseteq [how : Hows, all : BOOLEAN, close : SUBSET Uids, says : SUBSET Uids]
  /\ Strict \in BOOLEAN /\ MaxPoolWrites \in Nat

\* What a probe finds: a database that can be queried, one of another embedding model
\* or release, one that cannot be read, none.
Conditions == {"fine", "foreign", "incompatible", "corrupt", "missing"}

VARIABLES
  asked,  \* the query asked of the Pool, {} when there is none
  status, \* status[m]: its member_status, "" before it is probed
  vector, \* vector[m]: fingerprint_ok, the query's vector is used on it
  stage,  \* stage[m]: planned, querying, answered, failed
  lists,  \* lists[m]: the ranked texts it has answered with
  fused   \* the answer of the Pool, {} before there is one

members == <<status, vector, stage, lists>>
pvars == <<rvars, asked, members, fused>>

Each(x) == [m \in Members |-> x]
Planned == \A m \in Members : status[m] # ""
Ready == {m \in Members : status[m] = "ready"}

-----------------------------------------------------------------------------
(* Fusion by reciprocal ranks. *)

\* Where a text stands in the lists.
Places(t) == UNION {{<<m, i>> : i \in {j \in DOMAIN lists[m] : lists[m][j] = t}} : m \in Members}
Heard == UNION {ToSet(lists[m]) : m \in Members}

\* A common multiple of all k + rank, to add the fractions up as integers.
Unit == ProductSet({RankConstant + i : i \in UNION {DOMAIN lists[m] : m \in Members}})

Share(p) == (IF p[1] = Seed THEN Weight ELSE 1) * (Unit \div (RankConstant + p[2]))

BestRank(t) == Min({p[2] : p \in Places(t)})

\* Score mutated: the copies of a text do not add up.
ScoreOfFirst(t) == Max({Share(p) : p \in Places(t)})

Score(t) == MapThenSumSet(Share, Places(t))

\* _rrf_merge_notes, ties in any order, cut at k.
Fusions ==
  LET scores == [t \in Heard |-> <<Score(t), BestRank(t)>>]
      Behind(t, u) == \/ scores[t][1] < scores[u][1]
                      \/ scores[t][1] = scores[u][1] /\ scores[t][2] > scores[u][2]
  IN  {SubSeq(s, 1, Min({K, Len(s)})) :
         s \in {r \in SetToSeqs(Heard) :
                  \A i, j \in DOMAIN r : i < j => ~Behind(r[i], r[j])}}

-----------------------------------------------------------------------------

AskPool(q) ==
  /\ at = "idle" /\ nextUid <= MaxPoolWrites + 1
  /\ asked' = {q}
  /\ at' = "waiting"
  /\ status' = Each("") /\ vector' = Each(FALSE)
  /\ stage' = Each("planned") /\ lists' = Each(<<>>)
  /\ UNCHANGED <<vars, query, limit, vecs, hits, stale, answer, witnesses, fused>>

\* resolve_pool_targets: a member is probed, the connected project first.
Probe(m, found) ==
  /\ asked # {} /\ status[m] = ""
  /\ m # Seed => status[Seed] # ""
  /\ status' = [status EXCEPT ![m] =
       CASE found = "fine" \/ (found = "foreign" /\ ~Strict) -> "ready"
         [] found = "foreign" /\ Strict -> "incompatible"
         [] OTHER -> found]
  /\ vector' = [vector EXCEPT ![m] = (found = "fine")]
  /\ UNCHANGED <<rvars, asked, stage, lists, fused>>

\* Without the vector a member is asked for its text alone.
ForMember(q, m) ==
  IF vector[m] THEN q
  ELSE [q EXCEPT !.how = CASE @ = "hybrid" -> "text" [] @ = "vector" -> "unparsed" [] OTHER -> @]

\* A member's recall gets one of the slots.
Query(m) ==
  /\ Planned /\ m \in Ready /\ stage[m] = "planned"
  /\ Cardinality({n \in Members : stage[n] = "querying"}) < Slots
  /\ stage' = [stage EXCEPT ![m] = "querying"]
  /\ IF m = Seed
     THEN \E q \in asked :
            /\ query' = {ForMember(q, m)} /\ at' = Begins(ForMember(q, m))
            /\ limit' = MaxWrites
            /\ alone' = TRUE /\ freed' = FALSE /\ steady' = Active
            /\ UNCHANGED <<vars, vecs, hits, stale, answer, ancestry>>
     ELSE UNCHANGED rvars
  /\ UNCHANGED <<asked, status, vector, lists, fused>>

\* The reader of the seed has been read out, or has raised.
SeedReturns ==
  /\ at' = "waiting" /\ query' = {}
  /\ vecs' = Blank /\ hits' = {} /\ stale' = {}
  /\ rows' = {} /\ history' = {} /\ want' = {} /\ also' = {}
  /\ alone' = FALSE /\ freed' = FALSE /\ steady' = {} /\ ancestry' = {}
  /\ UNCHANGED <<vars, limit>>

\* The notes a member's recall returns, those the graph adds left out.
Answer(m) ==
  /\ stage[m] = "querying"
  /\ IF m = Seed
     THEN /\ at = "answered"
          /\ \E s \in SetToSeqs(Texts) : lists' = [lists EXCEPT ![m] = s]
          /\ SeedReturns
     ELSE /\ \E s \in Lists : lists' = [lists EXCEPT ![m] = s]
          /\ UNCHANGED rvars
  /\ stage' = [stage EXCEPT ![m] = "answered"]
  /\ UNCHANGED <<asked, status, vector, fused>>

\* A recall that raises costs the Pool that member, and its status says so.
Fail(m) ==
  /\ stage[m] = "querying"
  /\ IF m = Seed THEN SeedReturns ELSE UNCHANGED rvars
  /\ stage' = [stage EXCEPT ![m] = "failed"]
  /\ status' = [status EXCEPT ![m] = "query-failed"]
  /\ UNCHANGED <<asked, vector, lists, fused>>

Fuse ==
  /\ asked # {} /\ Planned /\ fused = {}
  /\ \A m \in Ready : stage[m] # "planned" /\ stage[m] # "querying"
  /\ fused' \in {{s} : s \in Fusions}
  /\ UNCHANGED <<rvars, asked, members>>

ReturnPool ==
  /\ fused # {}
  /\ asked' = {} /\ fused' = {}
  /\ status' = Each("") /\ vector' = Each(FALSE)
  /\ stage' = Each("planned") /\ lists' = Each(<<>>)
  /\ at' = "idle" /\ limit' = K
  /\ UNCHANGED <<vars, query, vecs, hits, stale, answer, witnesses>>

-----------------------------------------------------------------------------

PInit ==
  /\ RInit
  /\ asked = {} /\ fused = {}
  /\ status = Each("") /\ vector = Each(FALSE)
  /\ stage = Each("planned") /\ lists = Each(<<>>)

\* Steps of Recall: of one project's call, of the seed's part of a Pool's, of writers.
Within ==
  /\ IF asked = {} THEN Reading \/ Filling \/ Writing
     ELSE (at # "answered" /\ Reading) \/ (Writing /\ nextUid' <= MaxPoolWrites + 1)
  /\ UNCHANGED <<asked, members, fused>>

PoolStep(m) == (\E c \in Conditions : Probe(m, c)) \/ Query(m) \/ Answer(m) \/ Fail(m)

PNext ==
  \/ Within
  \/ \E q \in PoolQueries : AskPool(q)
  \/ \E m \in Members : PoolStep(m)
  \/ Fuse
  \/ ReturnPool

PSpec == PInit /\ [][PNext]_pvars

-----------------------------------------------------------------------------

\* "one bad member never fails the query" (federate.py:36): whatever becomes of the
\* members before and during the call, the answer fuses all that the members
\* called ready have said, and a member that was planned but not heard is not called
\* ready.
PoolAnswerIsWhole ==
  \A s \in fused :
    /\ \A m \in Members : status[m] = "ready" <=> stage[m] = "answered"
    /\ ToSet(s) \subseteq Heard /\ Len(s) = Cardinality(ToSet(s))
    /\ Len(s) = Min({K, Cardinality(Heard)})

\* "the SAME lesson independently recorded in N family members ... ranks ABOVE an
\* equal-rank note that only one project holds" (federate.py:26).
CorroboratedComesFirst ==
  \A s \in fused : \A t, u \in Heard :
    LET at1 == {p[1] : p \in Places(t)}
    IN  /\ Cardinality(at1) > 1 /\ Cardinality(Places(u)) = 1
        /\ \A p \in Places(u) : \E r \in Places(t) : r[2] <= p[2] /\ r[1] \in {Seed, p[1]}
        => \A i \in DOMAIN s : s[i] = u => \E j \in 1 .. i - 1 : s[j] = t

\* What a Pool's call returns is the fusion of its ready members' answers.
PoolAnswerIsFused == PoolAnswerIsWhole /\ CorroboratedComesFirst
=============================================================================
