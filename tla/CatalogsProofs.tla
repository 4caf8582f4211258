---------------------------- MODULE CatalogsProofs ----------------------------
(***************************************************************************)
(* For any number of processes, paths, ids and Pools: no write of a        *)
(* catalog is lost to another process or to damage, none that has returned *)
(* is undone by a power failure, and the registry is the atomic map of     *)
(* ProjectIdentity.                                                        *)
(*                                                                         *)
(* All three rest on one thing: a process that is past the lock is the     *)
(* only one that is, for its catalog (ProcOK), so what it has prepared is  *)
(* still its call's change to what the file says (Prepared), and no        *)
(* content a power failure may leave is newer than the file or older than  *)
(* the newest write that has returned (CatalogOK).                         *)
(***************************************************************************)
EXTENDS Catalogs, TLAPS

Content(c) == [says : {{}} \cup {{v} : v \in Values(c)}, ver : 0 .. MaxWrites]

\* b is what call k makes of content f, with an id that has been given out.
Prepared(k, f, b, given) ==
  /\ f.ver < MaxWrites
  /\ \E v \in f.says, id \in given :
       /\ Writes(k, v)
       /\ b = Written(k, v, id)
       /\ k.op # "resolve" => id = k.id

Shape ==
  /\ file = [c \in Catalog |-> file[c]]
  /\ floating = [c \in Catalog |-> floating[c]]
  /\ holder \in [Catalog -> Procs \cup {NULL}]
  /\ call \in [Procs -> SUBSET Calls]
  /\ buffer = [p \in Procs |-> buffer[p]]
  /\ pc \in [Procs -> {"idle", "locked", "writing", "replaced", "synced"}]
  /\ minted \subseteq Ids
  /\ acked \in [Catalog -> 0 .. MaxWrites]
  /\ harm \in 0 .. MaxHarm

ProcOK(p) ==
  /\ call[p] = {} => pc[p] = "idle"
  /\ pc[p] \in {"idle", "locked"} => buffer[p] = Empty
  /\ \A k \in call[p] :
       /\ call[p] = {k}
       /\ buffer[p] \in Values(CatalogOf(k))
       /\ k.op # "resolve" => k.id \in minted
       /\ pc[p] # "idle" => holder[CatalogOf(k)] = p
       /\ pc[p] = "writing" => Prepared(k, file[CatalogOf(k)], buffer[p], minted)
       /\ pc[p] = "synced" => floating[CatalogOf(k)] = {file[CatalogOf(k)]}

CatalogOK(c) ==
  /\ file[c] \in floating[c]
  /\ \A f \in floating[c] : f \in Content(c) /\ acked[c] <= f.ver /\ f.ver <= file[c].ver

IInv == Shape /\ (\A p \in Procs : ProcOK(p)) /\ (\A c \in Catalog : CatalogOK(c))

-----------------------------------------------------------------------------
(* Values and calls. *)

\* A function from some of the paths to ids is a registry, and one from some of
\* the names to sets of ids a catalog of Pools.
LEMMA RegistryValue ==
  ASSUME NEW v
  PROVE  v \in Registries <=> DOMAIN v \subseteq Paths /\ v \in [DOMAIN v -> Ids]
<1>1. ASSUME v \in Registries PROVE DOMAIN v \subseteq Paths /\ v \in [DOMAIN v -> Ids]
  <2>1. PICK S \in SUBSET Paths : v \in [S -> Ids]
    BY <1>1 DEF Registries
  <2> QED
    BY <2>1
<1>2. ASSUME DOMAIN v \subseteq Paths, v \in [DOMAIN v -> Ids] PROVE v \in Registries
  BY <1>2 DEF Registries
<1> QED
  BY <1>1, <1>2

LEMMA PoolsValue ==
  ASSUME NEW v
  PROVE  v \in Memberships <=> DOMAIN v \subseteq Names /\ v \in [DOMAIN v -> SUBSET Ids]
<1>1. ASSUME v \in Memberships PROVE DOMAIN v \subseteq Names /\ v \in [DOMAIN v -> SUBSET Ids]
  <2>1. PICK S \in SUBSET Names : v \in [S -> SUBSET Ids]
    BY <1>1 DEF Memberships
  <2> QED
    BY <2>1
<1>2. ASSUME DOMAIN v \subseteq Names, v \in [DOMAIN v -> SUBSET Ids] PROVE v \in Memberships
  BY <1>2 DEF Memberships
<1> QED
  BY <1>1, <1>2

LEMMA EmptyIsValue == \A c \in Catalog : Empty \in Values(c)
<1>1. DOMAIN Empty = {} /\ Empty \in [{} -> Ids] /\ Empty \in [{} -> SUBSET Ids]
  BY DEF Empty
<1> QED
  BY <1>1, RegistryValue, PoolsValue DEF Values

\* What each call names.
LEMMA CallFacts ==
  ASSUME NEW k \in Calls
  PROVE  /\ CatalogOf(k) \in Catalog
         /\ k.op \in {"resolve", "register", "reassociate"} =>
              k.path \in Paths /\ Values(CatalogOf(k)) = Registries
         /\ k.op \in {"create", "add", "decouple", "delete"} =>
              k.name \in Names /\ Values(CatalogOf(k)) = Memberships
         /\ k.op # "resolve" => k.id \in Ids
         /\ k.op \in {"resolve", "register", "reassociate"} \cup {"create", "add", "decouple", "delete"}
BY DEF Calls, CatalogOf, Catalog, Values

\* A call makes a value of its catalog out of a value of it.
LEMMA WrittenIsValue ==
  ASSUME NEW k \in Calls, NEW v \in Values(CatalogOf(k)), NEW id \in Ids, Writes(k, v)
  PROVE  Written(k, v, id) \in Values(CatalogOf(k))
<1> DEFINE w == Written(k, v, id)
<1>1. CASE k.op \in {"resolve", "register", "reassociate"}
  <2>1. k.path \in Paths /\ DOMAIN v \subseteq Paths /\ v \in [DOMAIN v -> Ids]
    BY <1>1, CallFacts, RegistryValue
  <2>2. CASE k.op \in {"resolve", "register"}
    <3>1. w = With(v, k.path, id)
      BY <2>2 DEF Written
    <3> QED
      BY <1>1, <2>1, <3>1, CallFacts, RegistryValue DEF With
  <2>3. CASE k.op = "reassociate"
    <3>1. w = With(Only(v, {p \in DOMAIN v : v[p] # id}), k.path, id)
      BY <2>3 DEF Written
    <3>2. DOMAIN w \subseteq Paths /\ w \in [DOMAIN w -> Ids]
      BY <2>1, <3>1 DEF With, Only
    <3> QED
      BY <1>1, <3>2, CallFacts, RegistryValue
  <2> QED
    BY <1>1, <2>2, <2>3
<1>2. CASE k.op \in {"create", "add", "decouple", "delete"}
  <2>1. k.name \in Names /\ DOMAIN v \subseteq Names /\ v \in [DOMAIN v -> SUBSET Ids]
    BY <1>2, CallFacts, PoolsValue
  <2>2. DOMAIN w \subseteq Names /\ w \in [DOMAIN w -> SUBSET Ids]
    <3>1. CASE k.op = "create"
      BY <2>1, <3>1 DEF Written, With
    <3>2. CASE k.op = "add"
      BY <2>1, <3>2 DEF Written, Writes, With
    <3>3. CASE k.op = "decouple"
      BY <2>1, <3>3 DEF Written, Writes, With
    <3>4. CASE k.op = "delete"
      BY <2>1, <3>4 DEF Written, Only
    <3> QED
      BY <1>2, <3>1, <3>2, <3>3, <3>4
  <2> QED
    BY <1>2, <2>2, CallFacts, PoolsValue
<1> QED
  BY <1>1, <1>2, CallFacts

-----------------------------------------------------------------------------
(* What a step leaves alone. *)

\* A process that takes no part in a step stays as it was: past the lock, its
\* catalog is its own.
LEMMA BystanderOK ==
  ASSUME NEW r \in Procs, ProcOK(r), call[r] \subseteq Calls, minted \subseteq minted',
         call'[r] = call[r], pc'[r] = pc[r], buffer'[r] = buffer[r],
         \A k \in call[r] : pc[r] # "idle" =>
           /\ holder'[CatalogOf(k)] = holder[CatalogOf(k)]
           /\ file'[CatalogOf(k)] = file[CatalogOf(k)]
           /\ floating'[CatalogOf(k)] = floating[CatalogOf(k)]
  PROVE  ProcOK(r)'
<1>1. ASSUME NEW k \in call[r], pc[r] = "writing"
      PROVE  Prepared(k, file'[CatalogOf(k)], buffer[r], minted')
  BY <1>1 DEF ProcOK, Prepared
<1> QED
  BY <1>1 DEF ProcOK

\* A process that is in no call, or not yet past the lock.
LEMMA OutsideOK ==
  ASSUME NEW p \in Procs, pc'[p] = "idle", buffer'[p] = Empty,
         call'[p] = {} \/ \E k \in Calls : call'[p] = {k} /\ (k.op # "resolve" => k.id \in minted')
  PROVE  ProcOK(p)'
BY EmptyIsValue, CallFacts DEF ProcOK

\* Two processes are not past the same lock.
LEMMA Exclusive ==
  ASSUME IInv, NEW p \in Procs, NEW k \in call[p], pc[p] # "idle",
         NEW r \in Procs, r # p, NEW l \in call[r], pc[r] # "idle"
  PROVE  CatalogOf(l) # CatalogOf(k)
BY DEF IInv, ProcOK

LEMMA CatalogStays ==
  ASSUME NEW c \in Catalog, CatalogOK(c), file'[c] = file[c], floating'[c] = floating[c],
         acked'[c] = acked[c]
  PROVE  CatalogOK(c)'
BY DEF CatalogOK

-----------------------------------------------------------------------------
(* The steps, one lemma for each. *)

LEMMA BeginOK ==
  ASSUME IInv, NEW p \in Procs, NEW k \in Calls, Begin(p, k)
  PROVE  IInv'
<1>1. Shape'
  BY DEF Begin, IInv, Shape
<1>2. ProcOK(p)'
  <2>1. pc[p] = "idle" /\ buffer[p] = Empty
    BY DEF Begin, IInv, ProcOK
  <2> QED
    BY <2>1, OutsideOK DEF Begin, IInv, Shape
<1>3. ASSUME NEW r \in Procs, r # p PROVE ProcOK(r)'
  BY <1>3, BystanderOK DEF Begin, IInv, Shape
<1>4. ASSUME NEW c \in Catalog PROVE CatalogOK(c)'
  BY CatalogStays DEF Begin, IInv
<1> QED
  BY <1>1, <1>2, <1>3, <1>4 DEF IInv

LEMMA LockOK ==
  ASSUME IInv, NEW p \in Procs, NEW k \in Calls, Lock(p, k)
  PROVE  IInv'
<1>1. /\ k \in call[p] /\ pc[p] = "idle" /\ CatalogOf(k) \in Catalog /\ call[p] = {k}
      /\ holder' = [holder EXCEPT ![CatalogOf(k)] = p] /\ holder[CatalogOf(k)] = NULL
      /\ pc' = [pc EXCEPT ![p] = "locked"]
  BY CallFacts DEF Lock, IInv, ProcOK
<1>2. Shape'
  BY <1>1 DEF Lock, IInv, Shape
<1>3. ProcOK(p)'
  <2>1. holder'[CatalogOf(k)] = p /\ pc'[p] = "locked"
    BY <1>1 DEF IInv, Shape
  <2> QED
    BY <1>1, <2>1 DEF Lock, IInv, ProcOK
<1>4. ASSUME NEW r \in Procs, r # p PROVE ProcOK(r)'
  <2>1. \A l \in call[r] : pc[r] # "idle" => CatalogOf(l) # CatalogOf(k)
    BY <1>1, CatalogAssumption DEF IInv, ProcOK
  <2> QED
    BY <1>1, <1>4, <2>1, BystanderOK, CallFacts DEF Lock, IInv, Shape
<1>5. ASSUME NEW c \in Catalog PROVE CatalogOK(c)'
  BY CatalogStays DEF Lock, IInv
<1> QED
  BY <1>2, <1>3, <1>4, <1>5 DEF IInv

LEMMA DecideOK ==
  ASSUME IInv, NEW p \in Procs, NEW k \in Calls, Decide(p, k)
  PROVE  IInv'
<1> DEFINE f == file[CatalogOf(k)]
<1>1. PICK v \in f.says, id \in IdOf(k) :
        /\ k \in call[p] /\ pc[p] = "locked"
        /\ Writes(k, v)
        /\ f.ver < MaxWrites
        /\ buffer' = [buffer EXCEPT ![p] = Written(k, v, id)]
        /\ minted' = minted \cup {id}
        /\ pc' = [pc EXCEPT ![p] = "writing"]
        /\ UNCHANGED <<file, floating, holder, call, acked, harm>>
  BY DEF Decide
<1>2. /\ call[p] = {k} /\ CatalogOf(k) \in Catalog /\ id \in Ids
      /\ k.op # "resolve" => id = k.id
      /\ v \in Values(CatalogOf(k))
  <2>1. f \in Content(CatalogOf(k)) /\ CatalogOf(k) \in Catalog
    BY CallFacts DEF IInv, CatalogOK
  <2>2. v \in Values(CatalogOf(k))
    BY <2>1 DEF Content
  <2> QED
    BY <1>1, <2>1, <2>2, CallFacts DEF IInv, ProcOK, IdOf
<1>3. Written(k, v, id) \in Values(CatalogOf(k))
  BY <1>1, <1>2, WrittenIsValue
<1>4. Shape'
  BY <1>1, <1>2 DEF IInv, Shape
<1>5. ProcOK(p)'
  <2>1. pc'[p] = "writing" /\ buffer'[p] = Written(k, v, id) /\ call'[p] = {k}
    BY <1>1, <1>2 DEF IInv, Shape
  <2>2. Prepared(k, f, Written(k, v, id), minted')
    BY <1>1, <1>2 DEF Prepared
  <2> QED
    BY <1>1, <1>2, <1>3, <2>1, <2>2 DEF IInv, ProcOK
<1>6. ASSUME NEW r \in Procs, r # p PROVE ProcOK(r)'
  BY <1>1, <1>6, BystanderOK DEF IInv, Shape
<1>7. ASSUME NEW c \in Catalog PROVE CatalogOK(c)'
  BY <1>1, CatalogStays DEF IInv
<1> QED
  BY <1>4, <1>5, <1>6, <1>7 DEF IInv

\* The lock is let go by the process that has it.
LEMMA ReturnOK ==
  ASSUME IInv, NEW p \in Procs, NEW k \in Calls, k \in call[p], pc[p] # "idle", Return(p, k),
         acked' \in [Catalog -> 0 .. MaxWrites], \A c \in Catalog : CatalogOK(c)'
  PROVE  IInv'
<1>1. /\ CatalogOf(k) \in Catalog /\ holder' = [holder EXCEPT ![CatalogOf(k)] = NULL]
      /\ UNCHANGED <<file, floating, minted, harm>>
      /\ call' = [call EXCEPT ![p] = {}]
      /\ buffer' = [buffer EXCEPT ![p] = Empty]
      /\ pc' = [pc EXCEPT ![p] = "idle"]
  BY CallFacts DEF Return
<1>2. Shape'
  BY <1>1 DEF IInv, Shape
<1>3. ProcOK(p)'
  BY <1>1, OutsideOK DEF IInv, Shape
<1>4. ASSUME NEW r \in Procs, r # p PROVE ProcOK(r)'
  <2>1. \A l \in call[r] : pc[r] # "idle" => CatalogOf(l) # CatalogOf(k)
    BY <1>4, Exclusive
  <2> QED
    BY <1>1, <1>4, <2>1, BystanderOK, CallFacts DEF IInv, Shape
<1> QED
  BY <1>2, <1>3, <1>4 DEF IInv

LEMMA DeclineOK ==
  ASSUME IInv, NEW p \in Procs, NEW k \in Calls, Decline(p, k)
  PROVE  IInv'
<1>1. \A c \in Catalog : CatalogOK(c)'
  BY CatalogStays DEF Decline, Return, IInv
<1> QED
  BY <1>1, ReturnOK DEF Decline, IInv, Shape

LEMMA FinishOK ==
  ASSUME IInv, NEW p \in Procs, NEW k \in Calls, Finish(p, k)
  PROVE  IInv'
<1> DEFINE d == CatalogOf(k)
<1>1. /\ k \in call[p] /\ pc[p] = "synced" /\ d \in Catalog
      /\ acked' = [acked EXCEPT ![d] = file[d].ver]
      /\ file' = file /\ floating' = floating
  BY CallFacts DEF Finish, Return
<1>2. floating[d] = {file[d]} /\ file[d] \in Content(d)
  BY <1>1 DEF IInv, ProcOK, CatalogOK
<1>3. file[d].ver \in 0 .. MaxWrites
  BY <1>2 DEF Content
<1>4. acked' \in [Catalog -> 0 .. MaxWrites]
  BY <1>1, <1>3 DEF IInv, Shape
<1>5. ASSUME NEW c \in Catalog PROVE CatalogOK(c)'
  <2>1. CASE c = d
    BY <1>1, <1>2, <1>3, <2>1 DEF IInv, Shape, CatalogOK
  <2>2. CASE c # d
    BY <1>1, <2>2, CatalogStays DEF IInv, Shape
  <2> QED
    BY <2>1, <2>2
<1> QED
  BY <1>1, <1>4, <1>5, ReturnOK DEF Finish

LEMMA ReplaceOK ==
  ASSUME IInv, NEW p \in Procs, NEW k \in Calls, Replace(p, k)
  PROVE  IInv'
<1> DEFINE d == CatalogOf(k)
           g == [says |-> {buffer[p]}, ver |-> file[d].ver + 1]
<1>1. /\ k \in call[p] /\ pc[p] = "writing" /\ d \in Catalog /\ call[p] = {k}
      /\ pc' = [pc EXCEPT ![p] = "replaced"]
      /\ UNCHANGED <<holder, call, buffer, minted, acked, harm>>
  BY CallFacts DEF Replace, IInv, ProcOK
<1>2. /\ file' = [file EXCEPT ![d] = g]
      /\ floating' = [floating EXCEPT ![d] = floating[d] \cup {file'[d]}]
  BY DEF Replace
<1>3. /\ file'[d] = g /\ floating'[d] = floating[d] \cup {g}
      /\ \A c \in Catalog \ {d} : file'[c] = file[c] /\ floating'[c] = floating[c]
  BY <1>1, <1>2 DEF IInv, Shape
<1>4. g \in Content(d) /\ file[d].ver \in 0 .. MaxWrites
  <2>1. buffer[p] \in Values(d) /\ file[d].ver < MaxWrites
    BY <1>1 DEF IInv, ProcOK, Prepared
  <2>2. file[d].ver \in 0 .. MaxWrites
    BY <1>1 DEF IInv, CatalogOK, Content
  <2>3. file[d].ver + 1 \in 0 .. MaxWrites
    BY <2>1, <2>2, CatalogAssumption
  <2> QED
    BY <2>1, <2>2, <2>3 DEF Content
<1>5. Shape'
  BY <1>1, <1>2 DEF IInv, Shape
<1>6. ProcOK(p)'
  <2>1. pc'[p] = "replaced"
    BY <1>1 DEF IInv, Shape
  <2> QED
    BY <1>1, <2>1 DEF IInv, ProcOK
<1>7. ASSUME NEW r \in Procs, r # p PROVE ProcOK(r)'
  <2>1. \A l \in call[r] : pc[r] # "idle" => CatalogOf(l) \in Catalog \ {d}
    BY <1>1, <1>7, Exclusive, CallFacts DEF IInv, Shape
  <2> QED
    BY <1>1, <1>3, <1>7, <2>1, BystanderOK DEF IInv, Shape
<1>8. ASSUME NEW c \in Catalog PROVE CatalogOK(c)'
  <2>1. CASE c = d
    <3>1. /\ CatalogOK(d) /\ acked[d] \in Nat /\ g.ver = file[d].ver + 1
          /\ \A f \in floating[d] : f.ver \in Nat
      BY <1>1 DEF IInv, Shape, CatalogOK, Content
    <3>2. g \in Content(d) /\ acked[d] <= g.ver /\ g.ver <= g.ver
      BY <1>4, <3>1 DEF CatalogOK
    <3>3. \A f \in floating[d] : f \in Content(d) /\ acked[d] <= f.ver /\ f.ver <= g.ver
      BY <1>4, <3>1 DEF CatalogOK
    <3> HIDE DEF g
    <3> QED
      BY <1>1, <1>3, <2>1, <3>2, <3>3 DEF CatalogOK
  <2>2. CASE c # d
    BY <1>1, <1>3, <2>2, CatalogStays DEF IInv
  <2> QED
    BY <2>1, <2>2
<1> QED
  BY <1>5, <1>6, <1>7, <1>8 DEF IInv

LEMMA SyncDirectoryOK ==
  ASSUME IInv, NEW p \in Procs, NEW k \in Calls, SyncDirectory(p, k)
  PROVE  IInv'
<1> DEFINE d == CatalogOf(k)
<1>1. /\ k \in call[p] /\ pc[p] = "replaced" /\ d \in Catalog /\ call[p] = {k}
      /\ floating' = [floating EXCEPT ![d] = {file[d]}]
      /\ pc' = [pc EXCEPT ![p] = "synced"]
      /\ UNCHANGED <<file, holder, call, buffer, minted, acked, harm>>
  BY CallFacts DEF SyncDirectory, IInv, ProcOK
<1>2. Shape'
  BY <1>1 DEF IInv, Shape
<1>3. floating'[d] = {file[d]} /\ \A c \in Catalog \ {d} : floating'[c] = floating[c]
  BY <1>1 DEF IInv, Shape
<1>4. ProcOK(p)'
  <2>1. pc'[p] = "synced"
    BY <1>1 DEF IInv, Shape
  <2> QED
    BY <1>1, <1>3, <2>1 DEF IInv, ProcOK
<1>5. ASSUME NEW r \in Procs, r # p PROVE ProcOK(r)'
  <2>1. \A l \in call[r] : pc[r] # "idle" => CatalogOf(l) \in Catalog \ {d}
    BY <1>1, <1>5, Exclusive, CallFacts DEF IInv, Shape
  <2> QED
    BY <1>1, <1>3, <1>5, <2>1, BystanderOK DEF IInv, Shape
<1>6. ASSUME NEW c \in Catalog PROVE CatalogOK(c)'
  BY <1>1, <1>3 DEF IInv, CatalogOK
<1> QED
  BY <1>2, <1>4, <1>5, <1>6 DEF IInv

LEMMA DieOK ==
  ASSUME IInv, NEW p \in Procs, Die(p)
  PROVE  IInv'
<1>1. Shape'
  <2>1. harm' \in 0 .. MaxHarm
    BY CatalogAssumption DEF Die, Harm, IInv, Shape
  <2> QED
    BY <2>1 DEF Die, IInv, Shape
<1>2. ProcOK(p)'
  BY OutsideOK DEF Die, IInv, Shape
<1>3. ASSUME NEW r \in Procs, r # p PROVE ProcOK(r)'
  <2>1. \A l \in call[r] : pc[r] # "idle" => holder[CatalogOf(l)] # p /\ CatalogOf(l) \in Catalog
    BY <1>3, CallFacts DEF IInv, ProcOK, Shape
  <2> QED
    BY <1>3, <2>1, BystanderOK DEF Die, IInv, Shape
<1>4. ASSUME NEW c \in Catalog PROVE CatalogOK(c)'
  BY CatalogStays DEF Die, IInv
<1> QED
  BY <1>1, <1>2, <1>3, <1>4 DEF IInv

\* A power failure leaves one of the contents it may leave, and no process.
LEMMA PowerFailsOK ==
  ASSUME IInv, PowerFails
  PROVE  IInv'
<1>1. /\ harm' \in 0 .. MaxHarm
      /\ UNCHANGED <<minted, acked>>
  BY CatalogAssumption DEF PowerFails, Harm, IInv, Shape
<1>2. PICK r \in floating["registry"], q \in floating["pools"] :
        file' = [c \in Catalog |-> IF c = "registry" THEN r ELSE q]
  BY DEF PowerFails
<1>3. \A c \in Catalog : file'[c] \in floating[c] /\ floating'[c] = {file'[c]}
  BY <1>2 DEF PowerFails, Catalog
<1>4. Shape'
  BY <1>1, <1>2 DEF PowerFails, IInv, Shape
<1>5. ASSUME NEW p \in Procs PROVE ProcOK(p)'
  BY OutsideOK DEF PowerFails
<1>6. ASSUME NEW c \in Catalog PROVE CatalogOK(c)'
  <2>1. file'[c] \in Content(c) /\ acked[c] <= file'[c].ver
    BY <1>3 DEF IInv, CatalogOK
  <2>2. file'[c].ver \in Nat
    BY <2>1 DEF Content
  <2> QED
    BY <1>1, <1>3, <2>1, <2>2 DEF CatalogOK
<1> QED
  BY <1>4, <1>5, <1>6 DEF IInv

\* Damage comes between two calls, and makes nothing newer or older.
LEMMA DamageOK ==
  ASSUME IInv, NEW d \in Catalog, Damage(d)
  PROVE  IInv'
<1>1. /\ holder[d] = NULL /\ file' = [file EXCEPT ![d].says = {}]
      /\ floating' = [floating EXCEPT ![d] = {file'[d]}]
      /\ UNCHANGED <<holder, call, buffer, pc, minted, acked>>
      /\ harm' \in 0 .. MaxHarm
  BY CatalogAssumption DEF Damage, Harm, IInv, Shape
<1>2. Shape'
  BY <1>1 DEF IInv, Shape
<1>3. ASSUME NEW p \in Procs PROVE ProcOK(p)'
  <2>1. \A k \in call[p] : pc[p] # "idle" => CatalogOf(k) \in Catalog \ {d}
    BY <1>1, CallFacts, CatalogAssumption DEF IInv, ProcOK, Shape
  <2> QED
    BY <1>1, <2>1, BystanderOK DEF IInv, Shape
<1>4. ASSUME NEW c \in Catalog PROVE CatalogOK(c)'
  <2>1. CASE c = d
    <3>1. file[d] \in Content(d) /\ acked[d] <= file[d].ver
      BY DEF IInv, CatalogOK
    <3>2. file'[d] = [file[d] EXCEPT !.says = {}] /\ floating'[d] = {file'[d]}
      BY <1>1 DEF IInv, Shape
    <3>3. file'[d] \in Content(d) /\ file'[d].ver = file[d].ver /\ file[d].ver \in Nat
      BY <3>1, <3>2 DEF Content
    <3>4. acked'[d] <= file'[d].ver /\ file'[d].ver <= file'[d].ver /\ floating'[d] = {file'[d]}
      BY <1>1, <3>1, <3>2, <3>3
    <3> QED
      BY <2>1, <3>3, <3>4 DEF CatalogOK
  <2>2. CASE c # d
    BY <1>1, <2>2, CatalogStays DEF IInv, Shape
  <2> QED
    BY <2>1, <2>2
<1> QED
  BY <1>2, <1>3, <1>4 DEF IInv

-----------------------------------------------------------------------------
(* The invariant, and what it gives. *)

LEMMA InitOK == Init => IInv
<1> SUFFICES ASSUME Init PROVE IInv
  OBVIOUS
<1> DEFINE g == [says |-> {Empty}, ver |-> 0]
<1>1. Shape
  BY CatalogAssumption DEF Init, Shape
<1>2. \A p \in Procs : ProcOK(p)
  BY DEF Init, ProcOK
<1>3. ASSUME NEW c \in Catalog PROVE CatalogOK(c)
  <2>1. g \in Content(c)
    BY EmptyIsValue, CatalogAssumption DEF Content
  <2>2. file[c] = g /\ floating[c] = {g} /\ acked[c] = 0 /\ g.ver = 0
    BY DEF Init
  <2> HIDE DEF g
  <2> QED
    BY <2>1, <2>2 DEF CatalogOK
<1> QED
  BY <1>1, <1>2, <1>3 DEF IInv

LEMMA StepOK == IInv /\ [Next]_vars => IInv'
<1> SUFFICES ASSUME IInv, [Next]_vars PROVE IInv'
  OBVIOUS
<1>1. ASSUME NEW p \in Procs, NEW k \in Calls,
             Begin(p, k) \/ Lock(p, k) \/ Decide(p, k) \/ Decline(p, k)
      PROVE  IInv'
  BY <1>1, BeginOK, LockOK, DecideOK, DeclineOK
<1>2. ASSUME NEW p \in Procs, NEW k \in Calls,
             Replace(p, k) \/ SyncDirectory(p, k) \/ Finish(p, k)
      PROVE  IInv'
  BY <1>2, ReplaceOK, SyncDirectoryOK, FinishOK
<1>3. CASE (\E p \in Procs : Die(p)) \/ PowerFails \/ (\E c \in Catalog : Damage(c))
  BY <1>3, DieOK, PowerFailsOK, DamageOK
<1>4. CASE UNCHANGED vars
  BY <1>4 DEF vars, IInv, Shape, ProcOK, CatalogOK
<1> QED
  BY <1>1, <1>2, <1>3, <1>4 DEF Next

LEMMA SpecIInv == Spec => []IInv
BY InitOK, StepOK, PTL DEF Spec

\* Catalogs, locks, calls and buffers have their types at every moment.
THEOREM TypeOKTheorem == Spec => []TypeOK
<1>1. IInv => TypeOK
  <2> SUFFICES ASSUME IInv PROVE TypeOK
    OBVIOUS
  <2>1. ASSUME NEW c \in Catalog
        PROVE  /\ file[c].ver \in 0 .. MaxWrites
               /\ file[c].says \in {{}} \cup {{v} : v \in Values(c)}
               /\ file[c] \in floating[c]
    BY DEF IInv, CatalogOK, Content
  <2>2. ASSUME NEW p \in Procs
        PROVE  /\ call[p] \in {{}} \cup {{k} : k \in Calls}
               /\ \A k \in call[p] : buffer[p] \in Values(CatalogOf(k)) \cup {Empty}
    <3>1. \A k \in call[p] : k \in Calls /\ call[p] = {k} /\ buffer[p] \in Values(CatalogOf(k))
      BY DEF IInv, Shape, ProcOK
    <3>2. call[p] = {} \/ \E k \in Calls : call[p] = {k}
      BY <3>1
    <3> QED
      BY <3>1, <3>2
  <2> QED
    BY <2>1, <2>2 DEF IInv, Shape, TypeOK
<1> QED
  BY <1>1, SpecIInv, PTL

\* The directory fsync keeps what atomic_write_json promises: a call that has
\* returned is not undone, by whatever power failure.
THEOREM ReturnedIsDurableTheorem == Spec => []ReturnedIsDurable
<1>1. IInv => ReturnedIsDurable
  <2> SUFFICES ASSUME IInv, NEW c \in Catalog, NEW f \in floating[c]
               PROVE  f.ver >= acked[c]
    BY DEF ReturnedIsDurable
  <2>1. acked[c] <= f.ver /\ f.ver \in Nat /\ acked[c] \in Nat
    BY DEF IInv, CatalogOK, Content, Shape
  <2> QED
    BY <2>1
<1> QED
  BY <1>1, SpecIInv, PTL

\* A write of a process that holds the lock is its change to what the file says now.
LEMMA ReplaceIsPrepared ==
  ASSUME IInv, NEW p \in Procs, NEW k \in Calls, Replace(p, k)
  PROVE  /\ k \in call[p] /\ file[CatalogOf(k)].says # {}
         /\ \A c \in Catalog \ {CatalogOf(k)} : file'[c] = file[c]
         /\ file'[CatalogOf(k)].says = {buffer[p]}
         /\ \E v \in file[CatalogOf(k)].says, id \in minted :
              Writes(k, v) /\ buffer[p] = Written(k, v, id) /\ (k.op # "resolve" => id = k.id)
<1>1. k \in call[p] /\ pc[p] = "writing" /\ CatalogOf(k) \in Catalog
  BY CallFacts DEF Replace
<1>2. Prepared(k, file[CatalogOf(k)], buffer[p], minted)
  BY <1>1 DEF IInv, ProcOK
<1>3. file'[CatalogOf(k)].says = {buffer[p]} /\ \A c \in Catalog \ {CatalogOf(k)} : file'[c] = file[c]
  BY <1>1 DEF Replace, IInv, Shape
<1> QED
  BY <1>1, <1>2, <1>3 DEF Prepared

\* No process overwrites another's change, and none a damaged catalog: every
\* write is its call's change to the content it replaces.
THEOREM NothingIsLostTheorem == Spec => NothingIsLost
<1>1. IInv /\ [Next]_vars =>
        [\A c \in Catalog : file'[c].ver > file[c].ver =>
           \E p \in Procs : \E k \in call[p] :
             \E v \in file[c].says, id \in Ids :
               /\ CatalogOf(k) = c /\ Writes(k, v)
               /\ file'[c].says = {Written(k, v, id)}]_vars
  <2> SUFFICES ASSUME IInv, Next, NEW c \in Catalog, file'[c].ver > file[c].ver
               PROVE  \E p \in Procs : \E k \in call[p] :
                        \E v \in file[c].says, id \in Ids :
                          /\ CatalogOf(k) = c /\ Writes(k, v)
                          /\ file'[c].says = {Written(k, v, id)}
    OBVIOUS
  <2>1. \A f \in floating[c] : f.ver \in Nat /\ f.ver <= file[c].ver
    BY DEF IInv, CatalogOK, Content
  <2>2. file[c].ver \in Nat /\ ~(file[c].ver > file[c].ver)
    BY <2>1 DEF IInv, CatalogOK
  <2>3. file' # file
    BY <2>2
  <2>4. ASSUME PowerFails PROVE FALSE
    <3>1. file'[c] \in floating[c]
      BY <2>4 DEF PowerFails, Catalog
    <3> QED
      BY <2>1, <2>2, <3>1
  <2>5. ASSUME NEW d \in Catalog, Damage(d) PROVE FALSE
    <3>1. file[c].ver = file'[c].ver
      <4>1. CASE c # d
        BY <2>5, <4>1 DEF Damage, IInv, Shape
      <4>2. CASE c = d
        <5>1. file[d] \in Content(d)
          BY DEF IInv, CatalogOK
        <5>2. file'[d] = [file[d] EXCEPT !.says = {}]
          BY <2>5 DEF Damage, IInv, Shape
        <5> QED
          BY <4>2, <5>1, <5>2 DEF Content
      <4> QED
        BY <4>1, <4>2
    <3> QED
      BY <2>2, <3>1
  <2>6. PICK p \in Procs, k \in Calls : Replace(p, k)
    BY <2>3, <2>4, <2>5 DEF Next, Begin, Lock, Decide, Decline, Return, SyncDirectory, Finish, Die
  <2>7. CatalogOf(k) = c
    BY <2>2, <2>6, ReplaceIsPrepared
  <2> QED
    BY <2>6, <2>7, ReplaceIsPrepared DEF IInv, Shape
<1> QED
  BY <1>1, SpecIInv, PTL DEF Spec, NothingIsLost

-----------------------------------------------------------------------------
(* The refinement: every step is one of the atomic map, or none, or comes from outside. *)

\* The ids in flight change only with the calls that are about to write.
LEMMA SameInFlight ==
  ASSUME \A q \in Procs :
           /\ pc'[q] = "writing" <=> pc[q] = "writing"
           /\ pc[q] = "writing" => call'[q] = call[q] /\ buffer'[q] = buffer[q]
  PROVE  InFlight' = InFlight
BY DEF InFlight

\* One call at most has an id of the registry in flight: the one past its lock.
LEMMA InFlightFacts ==
  ASSUME IInv, NEW p \in Procs, NEW k \in call[p], CatalogOf(k) = "registry", pc[p] # "idle"
  PROVE  /\ k.op = "resolve" /\ pc[p] = "writing" =>
              InFlight = {id \in Ids : buffer[p][k.path] = id}
         /\ ~(k.op = "resolve" /\ pc[p] = "writing") => InFlight = {}
<1>1. \A q \in Procs \ {p} : \A l \in call[q] : pc[q] # "idle" => CatalogOf(l) # "registry"
  BY Exclusive
<1>2. \A l \in Calls : l.op = "resolve" => CatalogOf(l) = "registry"
  BY DEF CatalogOf
<1>3. \A q \in Procs : \A l \in call[q] : l.op = "resolve" /\ pc[q] = "writing" => q = p /\ l = k
  <2>1. \A q \in Procs : \A l \in call[q] : l \in Calls
    BY DEF IInv, Shape
  <2>2. call[p] = {k}
    BY DEF IInv, ProcOK
  <2> QED
    BY <1>1, <1>2, <2>1, <2>2
<1> QED
  BY <1>3 DEF InFlight

\* A step that shows nothing of itself to the readers of the registry.
LEMMA Unseen ==
  ASSUME file' = file \/ file'["registry"] = file["registry"], minted' \ InFlight' = minted \ InFlight
  PROVE  [Identity!Next]_<<Visible, minted \ InFlight>>
<1> DEFINE Seen(s) == IF s = {} THEN Empty ELSE CHOOSE v \in s : TRUE
<1>1. Visible' = Visible
  <2>1. Visible = Seen(file["registry"].says) /\ Visible' = Seen(file'["registry"].says)
    BY DEF Visible
  <2> HIDE DEF Seen
  <2> QED
    BY <2>1
<1>2. (minted \ InFlight)' = minted \ InFlight
  OBVIOUS
<1> QED
  BY <1>1, <1>2

LEMMA DecideIsUnseen ==
  ASSUME IInv, NEW p \in Procs, NEW k \in Calls, Decide(p, k)
  PROVE  [Identity!Next]_<<Visible, minted \ InFlight>>
<1>1. PICK v \in file[CatalogOf(k)].says, id \in IdOf(k) :
        /\ k \in call[p] /\ pc[p] = "locked"
        /\ Writes(k, v)
        /\ buffer' = [buffer EXCEPT ![p] = Written(k, v, id)]
        /\ minted' = minted \cup {id}
        /\ pc' = [pc EXCEPT ![p] = "writing"]
        /\ UNCHANGED <<file, call>>
  BY DEF Decide
<1>2. /\ call[p] = {k} /\ pc'[p] = "writing" /\ buffer'[p] = Written(k, v, id)
      /\ \A q \in Procs \ {p} : pc'[q] = pc[q] /\ buffer'[q] = buffer[q]
  BY <1>1 DEF IInv, Shape, ProcOK
<1>3. CASE k.op = "resolve"
  <2>1. id \in Ids \ minted /\ Written(k, v, id)[k.path] = id
    BY <1>3 DEF IdOf, Written, With
  <2>2. InFlight' = InFlight \cup {id}
    BY <1>1, <1>2, <1>3, <2>1 DEF InFlight
  <2> QED
    BY <1>1, <2>1, <2>2, Unseen
<1>4. CASE k.op # "resolve"
  <2>1. minted' = minted
    BY <1>1, <1>2, <1>4 DEF IdOf, IInv, ProcOK
  <2>2. InFlight' = InFlight
    BY <1>1, <1>2, <1>4 DEF InFlight
  <2> QED
    BY <1>1, <2>1, <2>2, Unseen
<1> QED
  BY <1>3, <1>4

\* What a call writes is what the map's step makes of what was there.
LEMMA ReplaceIsAtomic ==
  ASSUME IInv, NEW p \in Procs, NEW k \in Calls, Replace(p, k)
  PROVE  [Identity!Next]_<<Visible, minted \ InFlight>>
<1>1. /\ k \in call[p] /\ pc[p] = "writing" /\ call[p] = {k} /\ CatalogOf(k) \in Catalog
      /\ pc' = [pc EXCEPT ![p] = "replaced"]
      /\ UNCHANGED <<call, buffer, minted>>
  BY CallFacts DEF Replace, IInv, ProcOK
<1>2. pc'[p] = "replaced" /\ \A q \in Procs \ {p} : pc'[q] = pc[q]
  BY <1>1 DEF IInv, Shape
<1>3. CASE CatalogOf(k) = "pools"
  <2>1. k.op # "resolve"
    BY <1>3 DEF CatalogOf
  <2>2. InFlight' = InFlight
    BY <1>1, <1>2, <2>1 DEF InFlight
  <2>3. file'["registry"] = file["registry"]
    BY <1>3, ReplaceIsPrepared DEF Catalog
  <2> QED
    BY <1>1, <2>2, <2>3, Unseen
<1>4. CASE CatalogOf(k) = "registry"
  <2> DEFINE now == minted \ InFlight
  <2>1. PICK v \in file["registry"].says, id \in minted :
          Writes(k, v) /\ buffer[p] = Written(k, v, id) /\ (k.op # "resolve" => id = k.id)
    BY <1>4, ReplaceIsPrepared
  <2>2. id \in Ids /\ k.path \in Paths /\ k.op \in {"resolve", "register", "reassociate"}
    BY <1>4, CallFacts DEF IInv, Shape, CatalogOf
  <2>3. Visible = v
    <3>1. file["registry"] \in Content("registry")
      BY DEF IInv, CatalogOK, Catalog
    <3>2. file["registry"].says = {v}
      BY <2>1, <3>1 DEF Content
    <3> QED
      BY <3>2 DEF Visible
  <2>4. Visible' = Written(k, v, id)
    <3>1. file'["registry"].says = {Written(k, v, id)}
      BY <1>4, <2>1, ReplaceIsPrepared
    <3> QED
      BY <3>1 DEF Visible
  <2>5. InFlight' = {}
    <3>1. \A q \in Procs : \A l \in call[q] : l.op = "resolve" => pc'[q] # "writing"
      <4>1. \A q \in Procs \ {p} : \A l \in call[q] : pc[q] # "idle" => CatalogOf(l) # "registry"
        BY <1>1, <1>4, Exclusive
      <4>2. \A l \in Calls : l.op = "resolve" => CatalogOf(l) = "registry"
        BY DEF CatalogOf
      <4> QED
        BY <1>1, <1>2, <4>1, <4>2 DEF IInv, Shape
    <3> QED
      BY <1>1, <3>1 DEF InFlight
  <2>6. CASE k.op = "resolve"
    <3>1. Written(k, v, id) = With(v, k.path, id) /\ With(v, k.path, id)[k.path] = id
      BY <2>6 DEF Written, With
    <3>2. InFlight = {id}
      BY <1>1, <1>4, <2>1, <2>2, <2>6, <3>1, InFlightFacts
    <3>3. k.path \notin DOMAIN v
      BY <2>1, <2>6 DEF Writes
    <3>4. Identity!Mint(k.path, id)
      BY <1>1, <2>1, <2>3, <2>4, <2>5, <3>1, <3>2, <3>3
      DEF Identity!Mint, Identity!Owner, Identity!Bind, With
    <3> QED
      BY <2>2, <3>4 DEF Identity!Next
  <2>7. CASE k.op # "resolve"
    <3>1. InFlight = {} /\ minted' \ InFlight' = minted \ InFlight /\ id \in minted \ InFlight
      BY <1>1, <1>4, <2>1, <2>5, <2>7, InFlightFacts
    <3>2. CASE k.op = "register"
      <4>1. k.path \notin DOMAIN v /\ Written(k, v, id) = With(v, k.path, id)
        BY <2>1, <3>2 DEF Writes, Written
      <4>2. Identity!Register(k.path, id)
        BY <2>3, <2>4, <3>1, <4>1 DEF Identity!Register, Identity!Owner, Identity!Bind, With
      <4> QED
        BY <2>2, <4>2 DEF Identity!Next
    <3>3. CASE k.op = "reassociate"
      <4>1. /\ \E q \in DOMAIN v : v[q] = id
            /\ k.path \in DOMAIN v => v[k.path] = id
            /\ Written(k, v, id) = With(Only(v, {q \in DOMAIN v : v[q] # id}), k.path, id)
        BY <2>1, <3>3 DEF Writes, Written
      <4>2. Written(k, v, id) =
              [q \in {r \in DOMAIN v : v[r] # id} \cup {k.path} |->
                 IF q = k.path THEN id ELSE v[q]]
        BY <4>1 DEF With, Only
      <4>3. Identity!Reassociate(id, k.path)
        BY <2>3, <2>4, <3>1, <4>1, <4>2
        DEF Identity!Reassociate, Identity!Owner, Identity!Registered
      <4> QED
        BY <2>2, <4>3 DEF Identity!Next
    <3> QED
      BY <2>2, <2>7, <3>2, <3>3
  <2> QED
    BY <2>6, <2>7
<1> QED
  BY <1>1, <1>3, <1>4 DEF Catalog

\* A process that dies before its write has wasted the id it was given.
LEMMA DieWastesAtMost ==
  ASSUME IInv, NEW p \in Procs, Die(p)
  PROVE  [Identity!Next]_<<Visible, minted \ InFlight>>
<1>1. /\ file' = file /\ minted' = minted /\ call'[p] = {} /\ pc'[p] = "idle"
      /\ \A q \in Procs \ {p} : call'[q] = call[q] /\ pc'[q] = pc[q] /\ buffer'[q] = buffer[q]
  BY DEF Die, IInv, Shape
<1>2. CASE \E k \in call[p] : k.op = "resolve" /\ pc[p] = "writing"
  <2>1. PICK k \in call[p] : k.op = "resolve" /\ pc[p] = "writing"
    BY <1>2
  <2>2. k \in Calls /\ CatalogOf(k) = "registry" /\ call[p] = {k}
    BY <2>1 DEF IInv, Shape, ProcOK, CatalogOf
  <2>3. PICK v \in file[CatalogOf(k)].says, id \in minted : buffer[p] = Written(k, v, id)
    BY <2>1 DEF IInv, ProcOK, Prepared
  <2>4. buffer[p][k.path] = id /\ id \in Ids
    BY <2>1, <2>3 DEF Written, With, IInv, Shape
  <2>5. InFlight = {id}
    BY <2>1, <2>2, <2>4, InFlightFacts
  <2>6. InFlight' = {}
    <3>1. \A q \in Procs \ {p} : \A l \in call[q] : pc[q] # "idle" => CatalogOf(l) # "registry"
      BY <2>1, <2>2, Exclusive
    <3>2. \A l \in Calls : l.op = "resolve" => CatalogOf(l) = "registry"
      BY DEF CatalogOf
    <3> QED
      BY <1>1, <3>1, <3>2 DEF InFlight, IInv, Shape
  <2>7. Identity!Waste(id)
    BY <1>1, <2>3, <2>5, <2>6 DEF Identity!Waste, Visible
  <2> QED
    BY <2>4, <2>7 DEF Identity!Next
<1>3. CASE ~\E k \in call[p] : k.op = "resolve" /\ pc[p] = "writing"
  <2>1. InFlight' = InFlight
    BY <1>1, <1>3 DEF InFlight
  <2> QED
    BY <1>1, <2>1, Unseen
<1> QED
  BY <1>2, <1>3

\* The catalog file, its lock and its processes implement the atomic registry:
\* whatever dies between which steps, a reader sees one whole call at a time.
THEOREM RegistryIsAtomicTheorem == Spec => RegistryIsAtomic
<1>1. Init => Identity!Init
  <2> SUFFICES ASSUME Init PROVE Identity!Init
    OBVIOUS
  <2>1. file["registry"].says = {Empty} /\ minted = {}
    BY DEF Init, Catalog
  <2>2. Visible = Empty
    BY <2>1 DEF Visible
  <2> QED
    BY <2>1, <2>2 DEF Identity!Init, Empty
<1>2. IInv /\ [Next]_vars =>
        [FromOutside \/ [Identity!Next]_<<Visible, minted \ InFlight>>]_vars
  <2> SUFFICES ASSUME IInv, Next
               PROVE  FromOutside \/ [Identity!Next]_<<Visible, minted \ InFlight>>
    OBVIOUS
  <2>1. ASSUME NEW p \in Procs, NEW k \in Calls,
               \/ Begin(p, k) \/ Lock(p, k) \/ Decline(p, k)
               \/ SyncDirectory(p, k) \/ Finish(p, k)
        PROVE  [Identity!Next]_<<Visible, minted \ InFlight>>
    <3>1. file' = file /\ minted' = minted
      BY <2>1 DEF Begin, Lock, Decline, SyncDirectory, Finish, Return
    <3>2. \A q \in Procs :
            /\ pc'[q] = "writing" <=> pc[q] = "writing"
            /\ pc[q] = "writing" => call'[q] = call[q] /\ buffer'[q] = buffer[q]
      BY <2>1 DEF Begin, Lock, Decline, SyncDirectory, Finish, Return, IInv, Shape, ProcOK
    <3> QED
      BY <3>1, <3>2, SameInFlight, Unseen
  <2>2. ASSUME NEW p \in Procs, NEW k \in Calls, Decide(p, k) \/ Replace(p, k)
        PROVE  [Identity!Next]_<<Visible, minted \ InFlight>>
    BY <2>2, DecideIsUnseen, ReplaceIsAtomic
  <2>3. ASSUME NEW p \in Procs, Die(p)
        PROVE  [Identity!Next]_<<Visible, minted \ InFlight>>
    BY <2>3, DieWastesAtMost
  <2> QED
    BY <2>1, <2>2, <2>3 DEF Next, FromOutside
<1> QED
  BY <1>1, <1>2, SpecIInv, PTL DEF Spec, RegistryIsAtomic

-----------------------------------------------------------------------------
(* What the atomic map promises, and the catalogs with it. *)

\* Binding a path that nobody owns keeps every identity at the path it has.
LEMMA BindingKeeps ==
  ASSUME NEW p \in Paths, NEW id \in Ids, Identity!Owner(p) = {}, Identity!Bind(p, id)
  PROVE  Identity!Registered \subseteq Identity!Registered'
<1>1. p \notin DOMAIN Visible
  BY DEF Identity!Owner
<1>2. SUFFICES ASSUME NEW q \in DOMAIN Visible
               PROVE  Visible[q] \in Identity!Registered'
  BY DEF Identity!Registered
<1>3. q \in DOMAIN Visible' /\ Visible'[q] = Visible[q]
  BY <1>1 DEF Identity!Bind
<1> QED
  BY <1>3 DEF Identity!Registered

\* Reassociation keeps the identity it moves at the new path, and every other
\* one where it is: the new path was nobody else's.
LEMMA ReassociatingKeeps ==
  ASSUME NEW p \in Paths, NEW id \in Ids, Identity!Reassociate(id, p)
  PROVE  Identity!Registered \subseteq Identity!Registered'
<1>1. SUFFICES ASSUME NEW q \in DOMAIN Visible
               PROVE  Visible[q] \in Identity!Registered'
  BY DEF Identity!Registered
<1>2. CASE Visible[q] = id
  <2>1. p \in DOMAIN Visible' /\ Visible'[p] = id
    BY DEF Identity!Reassociate
  <2> QED
    BY <1>2, <2>1 DEF Identity!Registered
<1>3. CASE Visible[q] # id
  <2>1. q # p
    BY <1>3 DEF Identity!Reassociate, Identity!Owner
  <2>2. q \in DOMAIN Visible' /\ Visible'[q] = Visible[q]
    BY <1>3, <2>1 DEF Identity!Reassociate
  <2> QED
    BY <2>2 DEF Identity!Registered
<1> QED
  BY <1>2, <1>3

LEMMA AtomicStepKeeps ==
  ASSUME [Identity!Next]_<<Visible, minted \ InFlight>>
  PROVE  Identity!Registered \subseteq Identity!Registered'
<1>1. ASSUME NEW id \in Ids, NEW p \in Paths, Identity!Mint(p, id) \/ Identity!Register(p, id)
      PROVE  Identity!Registered \subseteq Identity!Registered'
  BY <1>1, BindingKeeps DEF Identity!Mint, Identity!Register
<1>2. ASSUME NEW id \in Ids, NEW p \in Paths, Identity!Reassociate(id, p)
      PROVE  Identity!Registered \subseteq Identity!Registered'
  BY <1>2, ReassociatingKeeps
<1>3. ASSUME Visible' = Visible
      PROVE  Identity!Registered \subseteq Identity!Registered'
  BY <1>3 DEF Identity!Registered
<1> QED
  BY <1>1, <1>2, <1>3 DEF Identity!Next, Identity!Waste

\* Whatever the paths and the ids: no step of the atomic map loses an identity.
THEOREM IdentitiesStayTheorem == Identity!Spec => Identity!IdentitiesStay
<1>1. [Identity!Next]_<<Visible, minted \ InFlight>> =>
        [Identity!Registered \subseteq Identity!Registered']_<<Visible, minted \ InFlight>>
  BY AtomicStepKeeps
<1> QED
  BY <1>1, PTL DEF Identity!Spec, Identity!IdentitiesStay

\* And so none of the catalogs: an identity that a reader of the registry sees is
\* there ever after, whoever writes and dies, until a power failure or damage.
THEOREM CatalogsKeepIdentities ==
  Spec => [][FromOutside \/ Identity!Registered \subseteq Identity!Registered']_vars
<1>1. [FromOutside \/ [Identity!Next]_<<Visible, minted \ InFlight>>]_vars =>
        [FromOutside \/ Identity!Registered \subseteq Identity!Registered']_vars
  BY AtomicStepKeeps
<1> QED
  BY <1>1, RegistryIsAtomicTheorem, PTL DEF RegistryIsAtomic
=============================================================================
