--------------------------- MODULE SchemaGateProofs ---------------------------
(***************************************************************************)
(* For any number of processes, notes and crashes: whoever has the store   *)
(* open has a whole one before it, and a whole store stays whole.          *)
(*                                                                         *)
(* A migration that is brought to its end late does no harm because what   *)
(* its process has read is still good enough: the columns it takes for     *)
(* done are there (ProcOK), every note without an identity is in its list  *)
(* as long as the version is old, and what it restamps agrees already once *)
(* the version is current.  In between, a store says by its version how    *)
(* much of it can be relied on (StoreOK).                                  *)
(***************************************************************************)
EXTENDS SchemaGate, FiniteSetTheorems, TLAPS

ReleaseColumns == {"note_uid", "revision", "pooled_from"}
OldColumns == ReleaseColumns \cup {"documents.pooled_from"}
Migrating == {"looking", "altering", "listing", "migrating"}
Past == {"checking", "stamping space", "refused", "open"}

Row ==
  [uid : Nat, dead : BOOLEAN, by : NoteIds \cup {NULL},
   status : {"active", "superseded", "tombstoned", None}, space : Spaces \cup {None}]

Opener ==
  [at : {"closed", "creating", "reading", "stamping"} \cup Migrating \cup Past,
   space : Spaces \cup {None}, stored : Nat, block : 0 .. 3,
   saw : SUBSET AllColumns, uidless : SUBSET NoteIds]

Shape ==
  /\ version \in {0, 3, 4, 5, 6, 7}
  /\ columns \subseteq AllColumns /\ cascade \in BOOLEAN
  /\ DOMAIN notes \subseteq NoteIds /\ \A n \in DOMAIN notes : notes[n] \in Row
  /\ nextUid \in Nat \ {0}
  /\ proc \in [Procs -> Opener]

\* No pointer and no link at a note that is gone, and every note has an identity.
Sound ==
  /\ \A n \in DOMAIN notes : notes[n].uid # NULL /\ notes[n].by \in DOMAIN notes \cup {NULL}
  /\ links \subseteq (DOMAIN notes) \X (DOMAIN notes)

\* What the version says of the store.
StoreOK ==
  /\ version = 0 => DOMAIN notes = {} /\ links = {}
  /\ version \in 1 .. 3 => ~cascade
  /\ version >= 4 => OldColumns \subseteq columns /\ cascade /\ Sound
  /\ version = Current => Whole

\* The notes without an identity.
Uidless == {n \in DOMAIN notes : notes[n].uid = NULL}

\* What a process knows of the store from what it has read or done.
ProcOK(p) ==
  /\ proc[p].at \notin {"closed", "creating"} /\ version = 0 => columns = AllColumns /\ cascade
  /\ proc[p].at = "stamping" => version \in {0, Current}
  /\ proc[p].at \in Migrating =>
       proc[p].stored \in {3, 4, 5} /\ version \in {proc[p].stored, Current}
  /\ proc[p].at \in {"looking", "altering"} =>
       /\ proc[p].block \in 1 .. 3
       /\ proc[p].block = 3 <=> proc[p].stored >= 4
       /\ proc[p].block = 2 => ReleaseColumns \subseteq columns
  /\ proc[p].at = "altering" => proc[p].saw \subseteq columns
  /\ proc[p].at = "listing" => proc[p].stored < 4
  /\ proc[p].at \in {"listing", "migrating"} => OldColumns \subseteq columns
  /\ proc[p].at = "migrating" /\ version < 4 => Uidless \subseteq proc[p].uidless
  /\ proc[p].at \in Past => version = Current

IInv == Shape /\ StoreOK /\ \A p \in Procs : ProcOK(p)

store == <<version, columns, cascade, notes, links>>

-----------------------------------------------------------------------------
(* What steps have in common. *)

LEMMA ColumnsOfVersion ==
  /\ \A v \in Nat : ColumnsOf(v) \subseteq AllColumns
  /\ \A v \in Nat : v >= 4 => OldColumns \subseteq ColumnsOf(v)
  /\ ColumnsOf(Current) = AllColumns
<1>1. OldColumns = AllColumns \ {"status"}
  BY DEF OldColumns, ReleaseColumns, AllColumns
<1> QED
  BY <1>1 DEF ColumnsOf, Current

LEMMA DerivedAgrees ==
  ASSUME NEW note
  PROVE  /\ Derived(note) \in {"active", "superseded", "tombstoned"}
         /\ (Derived(note) = "tombstoned") <=> note.dead
         /\ (Derived(note) = "superseded") <=> (note.by # NULL /\ ~note.dead)
  BY DEF Derived

\* The fields of a note that a release left.
LEMMA LeftNote ==
  ASSUME NEW v \in Nat, NEW S \in SUBSET NoteIds, NEW dead \in SUBSET S,
         NEW by \in [S -> NoteIds \cup {NULL}], NEW s \in Spaces, NEW n \in S
  PROVE  LET note == Left(v, S, dead, by, s)[n]
         IN  /\ note \in Row
             /\ note.by = by[n]
             /\ v >= 4 => note.uid # NULL
             /\ v >= 6 => /\ (note.status = "tombstoned") <=> note.dead
                          /\ (note.status = "superseded") <=> (note.by # NULL /\ ~note.dead)
<1> DEFINE old == [dead |-> n \in dead, by |-> by[n]]
           note == [uid |-> IF v < 4 THEN NULL ELSE n, dead |-> n \in dead, by |-> by[n],
                    status |-> IF v < 6 THEN None ELSE Derived(old), space |-> s]
<1>1. Left(v, S, dead, by, s)[n] = note
  BY DEF Left
<1>2. n \in Nat \ {0} /\ by[n] \in NoteIds \cup {NULL}
  BY GateAssumption DEF NoteIds
<1>3. (n \in dead) \in BOOLEAN
  OBVIOUS
<1>4. old.dead = (n \in dead) /\ old.by = by[n]
  OBVIOUS
<1>5. /\ note.uid = (IF v < 4 THEN NULL ELSE n) /\ note.dead = (n \in dead)
      /\ note.by = by[n] /\ note.status = (IF v < 6 THEN None ELSE Derived(old))
      /\ note.space = s
  OBVIOUS
<1> HIDE DEF old
<1>6. /\ Derived(old) \in {"active", "superseded", "tombstoned"}
      /\ (Derived(old) = "tombstoned") <=> (n \in dead)
      /\ (Derived(old) = "superseded") <=> (by[n] # NULL /\ n \notin dead)
  BY <1>4, DerivedAgrees
<1>7. note \in Row
  BY <1>2, <1>3, <1>6 DEF Row, NULL
<1> HIDE DEF note
<1>8. v >= 4 => note.uid # NULL
  BY <1>2, <1>5 DEF NULL
<1>9. v >= 6 => note.status = Derived(old)
  BY <1>5
<1> QED
  BY <1>1, <1>5, <1>6, <1>7, <1>8, <1>9

LEMMA IdleTyped == Idle \in Opener
  BY DEF Idle, Opener, Past, Migrating

LEMMA InitOK == Init => IInv
<1> SUFFICES ASSUME Init PROVE IInv
  OBVIOUS
<1>1. version \in {0, 3, 4, 5, 6, 7} /\ version \in Nat
  BY GateAssumption DEF Init
<1>2. PICK S \in (IF version = 0 THEN {{}} ELSE SUBSET NoteIds) :
      \E dead \in SUBSET S, by \in [S -> NoteIds \cup {NULL}], s \in Spaces :
        /\ \A n \in S : by[n] # NULL => n < by[n] /\ (version < 4 \/ by[n] \in S)
        /\ notes = Left(version, S, dead, by, s)
        /\ fingerprints = IF version = 0 THEN <<>> ELSE <<s>>
        /\ links \in {{}, IF version < 4 THEN S \X NoteIds ELSE S \X S}
  BY DEF Init
<1>3. S \in SUBSET NoteIds
  BY <1>2
<1>4. PICK dead \in SUBSET S, by \in [S -> NoteIds \cup {NULL}], s \in Spaces :
        /\ \A n \in S : by[n] # NULL => n < by[n] /\ (version < 4 \/ by[n] \in S)
        /\ notes = Left(version, S, dead, by, s)
        /\ links \in {{}, IF version < 4 THEN S \X NoteIds ELSE S \X S}
  BY <1>2
<1>5. DOMAIN notes = S
  BY <1>4 DEF Left
<1>6. \A n \in S :
        /\ notes[n] \in Row
        /\ notes[n].by = by[n]
        /\ version >= 4 => notes[n].uid # NULL
        /\ version >= 6 => /\ (notes[n].status = "tombstoned") <=> notes[n].dead
                           /\ (notes[n].status = "superseded") <=>
                                (notes[n].by # NULL /\ ~notes[n].dead)
  BY <1>1, <1>3, <1>4, LeftNote
<1>7. Shape
  <2>1. nextUid \in Nat \ {0}
    <3> DEFINE T == {n \in NoteIds : version >= 4 /\ \E m \in DOMAIN notes : n <= m}
    <3>1. IsFiniteSet(NoteIds)
      BY FS_Interval, GateAssumption DEF NoteIds
    <3>2. IsFiniteSet(T)
      BY <3>1, FS_Subset
    <3>3. Cardinality(T) \in Nat
      BY <3>2, FS_CardinalityType
    <3> QED
      BY <3>3 DEF Init
  <2>2. columns \subseteq AllColumns /\ cascade \in BOOLEAN
    BY <1>1, ColumnsOfVersion DEF Init
  <2> QED
    BY <1>1, <1>3, <1>5, <1>6, <2>1, <2>2, IdleTyped DEF Init, Shape
<1>8. StoreOK
  <2>1. version = 0 => DOMAIN notes = {} /\ links = {}
    BY <1>2, <1>4, <1>5
  <2>2. version >= 4 => links \subseteq (DOMAIN notes) \X (DOMAIN notes)
    BY <1>1, <1>4, <1>5
  <2>3. version >= 4 => \A n \in DOMAIN notes : notes[n].by \in DOMAIN notes \cup {NULL}
    BY <1>1, <1>4, <1>5, <1>6
  <2>4. version >= 4 => Sound
    BY <1>5, <1>6, <2>2, <2>3 DEF Sound
  <2>5. version >= 4 => OldColumns \subseteq columns /\ cascade
    BY <1>1, ColumnsOfVersion DEF Init
  <2>6. version = Current => columns = AllColumns
    BY ColumnsOfVersion DEF Init
  <2>7. version = Current => Whole
    BY <1>5, <1>6, <2>4, <2>5, <2>6 DEF Whole, Sound, Current
  <2>8. version \in 1 .. 3 => ~cascade
    <3>1. version \in 1 .. 3 => ~(version >= 4)
      BY <1>1
    <3>2. cascade = (version >= 4)
      BY DEF Init
    <3> QED
      BY <3>1, <3>2, Zenon
  <2> QED
    BY <2>1, <2>4, <2>5, <2>7, <2>8 DEF StoreOK
<1>9. \A p \in Procs : ProcOK(p)
  BY DEF Init, Idle, ProcOK, Migrating, Past
<1> QED
  BY <1>7, <1>8, <1>9 DEF IInv

\* What a process knows stays true while the store only gains.
LEMMA OthersKeep ==
  ASSUME NEW q \in Procs, Shape, ProcOK(q), proc'[q] = proc[q],
         version' \in {version, Current},
         columns \subseteq columns', columns' \subseteq AllColumns,
         cascade' \in BOOLEAN, cascade => cascade',
         version' < 4 => Uidless' \subseteq Uidless
  PROVE  ProcOK(q)'
<1>1. version' = 0 => version = 0
  BY DEF Current
<1>2. proc[q].at \notin {"closed", "creating"} /\ version' = 0 => columns' = AllColumns /\ cascade'
  BY <1>1 DEF ProcOK
<1>3. version' < 4 => version < 4
  BY DEF Current, Shape
<1>4. proc[q].at = "migrating" /\ version' < 4 => Uidless' \subseteq proc[q].uidless
  BY <1>3 DEF ProcOK
<1> QED
  BY <1>2, <1>4 DEF ProcOK

\* A step of p that leaves the store alone.
LEMMA QuietStep ==
  ASSUME NEW p \in Procs, NEW r \in Opener, IInv, UNCHANGED store, nextUid' = nextUid,
         proc' = [proc EXCEPT ![p] = r], ProcOK(p)'
  PROVE  IInv'
<1>1. Shape'
  BY DEF IInv, Shape, store
<1>2. StoreOK'
  BY DEF IInv, StoreOK, Sound, Whole, store
<1>3. ASSUME NEW q \in Procs, q # p PROVE ProcOK(q)'
  <2>1. proc'[q] = proc[q] /\ ProcOK(q) /\ Shape
    BY <1>3 DEF IInv, Shape
  <2>2. Uidless' = Uidless
    BY DEF Uidless, store
  <2> QED
    BY <2>1, <2>2, OthersKeep DEF store, Shape, IInv
<1> QED
  BY <1>1, <1>2, <1>3 DEF IInv

\* A process that is not at it knows nothing.
LEMMA IdleOK == ASSUME NEW p \in Procs, proc'[p] = Idle PROVE ProcOK(p)'
  BY DEF ProcOK, Idle, Migrating, Past

-----------------------------------------------------------------------------
(* The steps that only read. *)

LEMMA OpenKeeps ==
  ASSUME IInv, NEW p \in Procs, NEW s \in Spaces, Open(p, s) PROVE IInv'
<1> DEFINE r == [proc[p] EXCEPT !.at = "creating", !.space = s]
<1>1. proc[p] \in Opener /\ proc \in [Procs -> Opener]
  BY DEF IInv, Shape
<1>2. r \in Opener /\ r.at = "creating"
  BY <1>1 DEF Opener
<1>3. proc' = [proc EXCEPT ![p] = r]
  BY DEF Open
<1>4. proc'[p].at = "creating"
  BY <1>1, <1>2, <1>3
<1>5. ProcOK(p)'
  BY <1>4 DEF ProcOK, Migrating, Past
<1> HIDE DEF r
<1> QED
  BY <1>2, <1>3, <1>5, QuietStep DEF Open, store

LEMMA ReadVersionKeeps ==
  ASSUME IInv, NEW p \in Procs, ReadVersion(p) PROVE IInv'
<1>1. proc[p] \in Opener /\ proc \in [Procs -> Opener] /\ version \in {0, 3, 4, 5, 6, 7}
  BY DEF IInv, Shape
<1>2. UNCHANGED store /\ nextUid' = nextUid
  BY DEF ReadVersion, store
<1>3. proc[p].at = "reading" /\ ProcOK(p)
  BY DEF ReadVersion, IInv
<1>4. CASE version = 0 /\ proc' = [proc EXCEPT ![p].at = "stamping"]
  <2> DEFINE r == [proc[p] EXCEPT !.at = "stamping"]
  <2>1. r \in Opener /\ r.at = "stamping"
    BY <1>1 DEF Opener
  <2>2. proc' = [proc EXCEPT ![p] = r] /\ proc'[p] = r
    BY <1>1, <1>4
  <2>3. ProcOK(p)'
    BY <1>2, <1>3, <1>4, <2>1, <2>2 DEF ProcOK, store, Migrating, Past
  <2> HIDE DEF r
  <2> QED
    BY <1>2, <2>1, <2>2, <2>3, QuietStep
<1>5. CASE /\ 0 < version /\ version < Current
           /\ proc' = [proc EXCEPT ![p].at = "looking", ![p].stored = version,
                                   ![p].block = IF version < 4 THEN 1 ELSE 3]
  <2> DEFINE block == IF version < 4 THEN 1 ELSE 3
             r == [proc[p] EXCEPT !.at = "looking", !.stored = version, !.block = block]
  <2>1. block \in {1, 3} /\ (block = 3 <=> version >= 4)
    BY <1>1
  <2>2. version \in {3, 4, 5} /\ version' = version
    BY <1>1, <1>2, <1>5 DEF Current, store
  <2>3. proc' = [proc EXCEPT ![p] = r] /\ proc'[p] = r
    BY <1>1, <1>5
  <2> HIDE DEF block
  <2>4. r \in Opener
    <3>1. block \in 0 .. 3 /\ version \in Nat
      BY <2>1, <2>2
    <3> QED
      BY <1>1, <3>1 DEF Opener, Migrating
  <2>5. r.at = "looking" /\ r.stored = version /\ r.block = block
    BY <1>1 DEF Opener
  <2> HIDE DEF r
  <2>6. /\ proc'[p].at = "looking" /\ proc'[p].stored \in {3, 4, 5}
        /\ version' \in {proc'[p].stored, Current} /\ version' # 0
        /\ proc'[p].block \in {1, 3} /\ (proc'[p].block = 3 <=> proc'[p].stored >= 4)
    BY <2>1, <2>2, <2>3, <2>5
  <2>7. ProcOK(p)'
    BY <2>6 DEF ProcOK, Migrating, Past
  <2> QED
    BY <1>2, <2>3, <2>4, <2>7, QuietStep
<1>6. CASE version = Current /\ proc' = [proc EXCEPT ![p].at = "checking"]
  <2> DEFINE r == [proc[p] EXCEPT !.at = "checking"]
  <2>1. r \in Opener /\ r.at = "checking"
    BY <1>1 DEF Opener, Past
  <2>2. proc' = [proc EXCEPT ![p] = r] /\ proc'[p] = r
    BY <1>1, <1>6
  <2> HIDE DEF r
  <2>3. ProcOK(p)'
    BY <1>2, <1>6, <2>1, <2>2 DEF ProcOK, store, Migrating, Past, Current
  <2> QED
    BY <1>2, <2>1, <2>2, <2>3, QuietStep
<1>7. CASE version > Current /\ proc' = [proc EXCEPT ![p] = Idle]
  BY <1>1, <1>2, <1>7, IdleTyped, IdleOK, QuietStep
<1> QED
  BY <1>4, <1>5, <1>6, <1>7 DEF ReadVersion

LEMMA LookKeeps ==
  ASSUME IInv, NEW p \in Procs, Look(p) PROVE IInv'
<1> DEFINE r == [proc[p] EXCEPT !.at = "altering", !.saw = columns]
<1>1. /\ proc[p] \in Opener /\ proc \in [Procs -> Opener] /\ columns \subseteq AllColumns
      /\ ProcOK(p) /\ proc[p].at = "looking"
  BY DEF IInv, Shape, Look
<1>2. r \in Opener
  BY <1>1 DEF Opener, Migrating
<1>3. r.at = "altering" /\ r.saw = columns /\ r.stored = proc[p].stored /\ r.block = proc[p].block
  BY <1>1 DEF Opener
<1>4. proc' = [proc EXCEPT ![p] = r] /\ proc'[p] = r
  BY <1>1 DEF Look
<1>5. UNCHANGED store /\ nextUid' = nextUid
  BY DEF Look, store
<1> HIDE DEF r
<1>6. ProcOK(p)'
  BY <1>1, <1>3, <1>4, <1>5 DEF ProcOK, store, Migrating, Past
<1> QED
  BY <1>2, <1>4, <1>5, <1>6, QuietStep

\* A block none of whose columns is missing has been added.
LEMMA NoneMissing ==
  ASSUME NEW p \in Procs, proc[p].block \in 1 .. 3, Missing(p) = {}
  PROVE  /\ proc[p].block = 1 => ReleaseColumns \subseteq proc[p].saw
         /\ proc[p].block = 2 => "documents.pooled_from" \in proc[p].saw
<1>1. ASSUME proc[p].block = 1 PROVE ReleaseColumns \subseteq proc[p].saw
  <2> DEFINE adds == <<"note_uid", "revision", "pooled_from">>
  <2>1. Ladder[proc[p].block].adds = adds
    BY <1>1 DEF Ladder
  <2>2. \A i \in DOMAIN adds :
          ~(adds[i] \notin proc[p].saw /\ \A k \in 1 .. i - 1 : adds[k] \in proc[p].saw)
    BY <2>1 DEF Missing
  <2>3. "note_uid" \in proc[p].saw
    BY <2>2
  <2>4. "revision" \in proc[p].saw
    BY <2>2, <2>3
  <2>5. "pooled_from" \in proc[p].saw
    BY <2>2, <2>3, <2>4
  <2> QED
    BY <2>3, <2>4, <2>5 DEF ReleaseColumns
<1>2. ASSUME proc[p].block = 2 PROVE "documents.pooled_from" \in proc[p].saw
  <2> DEFINE adds == <<"documents.pooled_from">>
  <2>1. Ladder[proc[p].block].adds = adds
    BY <1>2 DEF Ladder
  <2>2. \A i \in DOMAIN adds :
          ~(adds[i] \notin proc[p].saw /\ \A k \in 1 .. i - 1 : adds[k] \in proc[p].saw)
    BY <2>1 DEF Missing
  <2> QED
    BY <2>2
<1> QED
  BY <1>1, <1>2

LEMMA BlockDoneKeeps ==
  ASSUME IInv, NEW p \in Procs, BlockDone(p) PROVE IInv'
<1>1. /\ proc[p] \in Opener /\ proc \in [Procs -> Opener] /\ columns \subseteq AllColumns
      /\ ProcOK(p) /\ proc[p].at = "altering" /\ Missing(p) = {}
  BY DEF IInv, Shape, BlockDone
<1> DEFINE at == <<"looking", "listing", "migrating">>[proc[p].block]
           block == IF proc[p].block = 1 THEN 2 ELSE 0
           r == [proc[p] EXCEPT !.at = at, !.block = block, !.saw = {}]
<1>2. proc[p].block \in 1 .. 3
  BY <1>1 DEF ProcOK
<1>3. /\ proc[p].block = 1 => at = "looking" /\ block = 2
      /\ proc[p].block = 2 => at = "listing" /\ block = 0
      /\ proc[p].block = 3 => at = "migrating" /\ block = 0
  OBVIOUS
<1>4. proc' = [proc EXCEPT ![p] = r] /\ proc'[p] = r
  BY <1>1 DEF BlockDone
<1> HIDE DEF at, block
<1>5. at \in {"looking", "listing", "migrating"} /\ block \in 0 .. 3
  BY <1>2, <1>3
<1>6. r \in Opener
  BY <1>1, <1>5 DEF Opener, Migrating
<1>7. r.at = at /\ r.stored = proc[p].stored /\ r.block = block
  BY <1>1 DEF Opener
<1>8. UNCHANGED store /\ nextUid' = nextUid /\ Uidless' = Uidless
  BY DEF BlockDone, store, Uidless
<1> HIDE DEF r
<1>9. /\ proc[p].stored \in {3, 4, 5} /\ version \in {proc[p].stored, Current}
      /\ proc[p].block = 3 <=> proc[p].stored >= 4
  BY <1>1 DEF ProcOK, Migrating
<1>10. proc[p].block = 1 => ReleaseColumns \subseteq columns
  BY <1>1, <1>2, NoneMissing DEF ProcOK
<1>11. proc[p].block \in {2, 3} => OldColumns \subseteq columns
  <2>1. proc[p].block = 2 => ReleaseColumns \subseteq columns /\ "documents.pooled_from" \in columns
    BY <1>1, <1>2, NoneMissing DEF ProcOK
  <2>2. proc[p].block = 3 => version >= 4
    BY <1>9 DEF Current
  <2> QED
    BY <2>1, <2>2 DEF IInv, StoreOK, OldColumns
<1>12. /\ proc'[p].at = at /\ proc'[p].block = block /\ proc'[p].stored = proc[p].stored
       /\ proc'[p].stored \in {3, 4, 5} /\ version' \in {proc'[p].stored, Current} /\ version' # 0
       /\ columns' = columns
  BY <1>4, <1>7, <1>8, <1>9 DEF store, Current
<1>13. CASE proc[p].block = 1
  <2>1. proc'[p].at = "looking" /\ proc'[p].block = 2 /\ ~(proc'[p].stored >= 4)
    BY <1>3, <1>9, <1>12, <1>13
  <2>2. ReleaseColumns \subseteq columns'
    BY <1>10, <1>12, <1>13
  <2>3. ProcOK(p)'
    BY <1>12, <2>1, <2>2 DEF ProcOK, Migrating, Past
  <2> QED
    BY <2>3, <1>4, <1>6, <1>8, QuietStep
<1>14. CASE proc[p].block = 2
  <2>1. proc'[p].at = "listing" /\ proc'[p].stored < 4
    BY <1>3, <1>9, <1>12, <1>14
  <2>2. OldColumns \subseteq columns'
    BY <1>11, <1>12, <1>14
  <2>3. ProcOK(p)'
    BY <1>12, <2>1, <2>2 DEF ProcOK, Migrating, Past
  <2> QED
    BY <2>3, <1>4, <1>6, <1>8, QuietStep
<1>15. CASE proc[p].block = 3
  <2>1. proc'[p].at = "migrating" /\ ~(version' < 4)
    BY <1>3, <1>9, <1>12, <1>15 DEF Current
  <2>2. OldColumns \subseteq columns'
    BY <1>11, <1>12, <1>15
  <2>3. ProcOK(p)'
    BY <1>12, <2>1, <2>2 DEF ProcOK, Migrating, Past
  <2> QED
    BY <2>3, <1>4, <1>6, <1>8, QuietStep
<1> QED
  BY <1>2, <1>13, <1>14, <1>15

LEMMA ListUidlessKeeps ==
  ASSUME IInv, NEW p \in Procs, ListUidless(p) PROVE IInv'
<1> DEFINE r == [proc[p] EXCEPT !.at = "migrating", !.uidless = Uidless]
<1>1. /\ proc[p] \in Opener /\ proc \in [Procs -> Opener] /\ DOMAIN notes \subseteq NoteIds
      /\ ProcOK(p) /\ proc[p].at = "listing"
  BY DEF IInv, Shape, ListUidless
<1>2. r \in Opener
  BY <1>1 DEF Opener, Migrating, Uidless
<1>3. r.at = "migrating" /\ r.uidless = Uidless /\ r.stored = proc[p].stored
  BY <1>1 DEF Opener
<1>4. proc' = [proc EXCEPT ![p] = r] /\ proc'[p] = r
  BY <1>1 DEF ListUidless, Uidless
<1>5. UNCHANGED store /\ nextUid' = nextUid
  BY DEF ListUidless, store
<1>6. Uidless' = Uidless
  BY <1>5 DEF store, Uidless
<1> HIDE DEF r
<1>7. ProcOK(p)'
  BY <1>1, <1>3, <1>4, <1>5, <1>6 DEF ProcOK, store, Migrating, Past
<1> QED
  BY <1>2, <1>4, <1>5, <1>7, QuietStep

LEMMA CheckSpaceKeeps ==
  ASSUME IInv, NEW p \in Procs, CheckSpace(p) PROVE IInv'
<1> DEFINE at == IF fingerprints = <<>> THEN "stamping space"
                 ELSE IF Fingerprint = proc[p].space THEN "open" ELSE "refused"
           r == [proc[p] EXCEPT !.at = at]
<1>1. /\ proc[p] \in Opener /\ proc \in [Procs -> Opener]
      /\ ProcOK(p) /\ proc[p].at = "checking"
  BY DEF IInv, Shape, CheckSpace
<1>2. at \in {"stamping space", "open", "refused"}
  OBVIOUS
<1>3. proc' = [proc EXCEPT ![p] = r] /\ proc'[p] = r
  BY <1>1 DEF CheckSpace
<1> HIDE DEF at
<1>4. r \in Opener /\ r.at = at
  BY <1>1, <1>2 DEF Opener, Past
<1>5. UNCHANGED store /\ nextUid' = nextUid
  BY DEF CheckSpace, store
<1> HIDE DEF r
<1>6. ProcOK(p)'
  BY <1>1, <1>2, <1>3, <1>4, <1>5 DEF ProcOK, store, Migrating, Past, Current
<1> QED
  BY <1>3, <1>4, <1>5, <1>6, QuietStep

LEMMA StampSpaceKeeps ==
  ASSUME IInv, NEW p \in Procs, StampSpace(p) PROVE IInv'
<1> DEFINE r == [proc[p] EXCEPT !.at = "open"]
<1>1. /\ proc[p] \in Opener /\ proc \in [Procs -> Opener]
      /\ ProcOK(p) /\ proc[p].at = "stamping space"
  BY DEF IInv, Shape, StampSpace
<1>2. r \in Opener /\ r.at = "open"
  BY <1>1 DEF Opener, Past
<1>3. proc' = [proc EXCEPT ![p] = r] /\ proc'[p] = r
  BY <1>1 DEF StampSpace
<1>4. UNCHANGED store /\ nextUid' = nextUid
  BY DEF StampSpace, store
<1> HIDE DEF r
<1>5. ProcOK(p)'
  BY <1>1, <1>2, <1>3, <1>4 DEF ProcOK, store, Migrating, Past, Current
<1> QED
  BY <1>2, <1>3, <1>4, <1>5, QuietStep

\* A process that gives up, is closed or dies.
LEMMA LeavingKeeps ==
  ASSUME IInv, NEW p \in Procs, AlterFails(p) \/ Refuse(p) \/ Close(p) \/ Crash(p)
  PROVE  IInv'
<1>1. proc' = [proc EXCEPT ![p] = Idle] /\ UNCHANGED store /\ nextUid' = nextUid
  BY DEF AlterFails, Refuse, Close, Crash, store
<1>2. proc'[p] = Idle
  BY <1>1 DEF IInv, Shape
<1> QED
  BY <1>1, <1>2, IdleTyped, IdleOK, QuietStep

-----------------------------------------------------------------------------
(* The steps that change the store. *)

LEMMA StoreStep ==
  ASSUME NEW p \in Procs, NEW r, IInv, Shape', StoreOK', ProcOK(p)',
         proc' = [proc EXCEPT ![p] = r],
         version' \in {version, Current}, columns \subseteq columns', cascade => cascade',
         version' < 4 => Uidless' \subseteq Uidless
  PROVE  IInv'
<1>1. ASSUME NEW q \in Procs, q # p PROVE ProcOK(q)'
  <2>1. proc'[q] = proc[q] /\ ProcOK(q) /\ Shape
    BY <1>1 DEF IInv, Shape
  <2>2. columns' \subseteq AllColumns /\ cascade' \in BOOLEAN
    BY DEF Shape
  <2> QED
    BY <2>1, <2>2, OthersKeep
<1> QED
  BY <1>1 DEF IInv

LEMMA CreateTablesKeeps ==
  ASSUME IInv, NEW p \in Procs, CreateTables(p) PROVE IInv'
<1> DEFINE r == [proc[p] EXCEPT !.at = "reading"]
<1>1. /\ proc[p] \in Opener /\ proc \in [Procs -> Opener] /\ proc[p].at = "creating"
      /\ version \in {0, 3, 4, 5, 6, 7} /\ columns \subseteq AllColumns /\ cascade \in BOOLEAN
  BY DEF IInv, Shape, CreateTables
<1>2. r \in Opener /\ r.at = "reading"
  BY <1>1 DEF Opener
<1>3. proc' = [proc EXCEPT ![p] = r] /\ proc'[p] = r
  BY <1>1 DEF CreateTables
<1> HIDE DEF r
<1>4. /\ version' = version /\ notes' = notes /\ links' = links /\ nextUid' = nextUid
      /\ columns' = (IF version = 0 THEN AllColumns ELSE columns)
      /\ cascade' = (cascade \/ version = 0)
  BY DEF CreateTables
<1>5. CASE version = 0
  <2>1. columns' = AllColumns /\ cascade' = TRUE
    BY <1>4, <1>5
  <2>2. Shape'
    BY <1>2, <1>3, <1>4, <2>1 DEF IInv, Shape
  <2>3. StoreOK'
    BY <1>4, <1>5 DEF IInv, StoreOK, Current
  <2>4. ProcOK(p)'
    BY <1>2, <1>3, <2>1 DEF ProcOK, Migrating, Past
  <2> QED
    BY <1>1, <1>3, <1>4, <2>1, <2>2, <2>3, <2>4, StoreStep DEF Uidless
<1>6. CASE version # 0
  <2>1. columns' = columns /\ cascade' = cascade
    BY <1>1, <1>4, <1>6
  <2>2. ProcOK(p)'
    BY <1>2, <1>3, <1>4, <1>6 DEF ProcOK, Migrating, Past
  <2> QED
    BY <1>2, <1>3, <1>4, <2>1, <2>2, QuietStep DEF store
<1> QED
  BY <1>5, <1>6

LEMMA MissingIsAColumn ==
  ASSUME NEW p \in Procs, proc[p].block \in 1 .. 3 PROVE Missing(p) \subseteq AllColumns
<1>1. CASE proc[p].block = 1
  <2>1. Ladder[proc[p].block].adds = <<"note_uid", "revision", "pooled_from">>
    BY <1>1 DEF Ladder
  <2> QED
    BY <2>1 DEF Missing, AllColumns
<1>2. CASE proc[p].block = 2
  <2>1. Ladder[proc[p].block].adds = <<"documents.pooled_from">>
    BY <1>2 DEF Ladder
  <2> QED
    BY <2>1 DEF Missing, AllColumns
<1>3. CASE proc[p].block = 3
  <2>1. Ladder[proc[p].block].adds = <<"status">>
    BY <1>3 DEF Ladder
  <2> QED
    BY <2>1 DEF Missing, AllColumns
<1> QED
  BY <1>1, <1>2, <1>3

LEMMA AlterTableKeeps ==
  ASSUME IInv, NEW p \in Procs, AlterTable(p) PROVE IInv'
<1>1. /\ proc[p] \in Opener /\ proc \in [Procs -> Opener] /\ proc[p].at = "altering"
      /\ version \in {0, 3, 4, 5, 6, 7} /\ columns \subseteq AllColumns /\ cascade \in BOOLEAN
      /\ ProcOK(p) /\ \A n \in DOMAIN notes : notes[n] \in Row
  BY DEF IInv, Shape, AlterTable
<1>2. PICK c \in Missing(p) :
        /\ c \notin columns
        /\ columns' = columns \cup {c}
        /\ notes' = IF c = "status"
                    THEN [n \in DOMAIN notes |-> [notes[n] EXCEPT !.status = "active"]]
                    ELSE notes
        /\ proc' = [proc EXCEPT ![p].saw = @ \cup {c}]
  BY DEF AlterTable
<1> DEFINE r == [proc[p] EXCEPT !.saw = @ \cup {c}]
<1>3. c \in AllColumns
  BY <1>1, <1>2, MissingIsAColumn DEF ProcOK
<1>4. version # Current
  BY <1>2, <1>3 DEF IInv, StoreOK, Whole
<1>5. r \in Opener /\ r.at = "altering" /\ r.saw = proc[p].saw \cup {c}
      /\ r.stored = proc[p].stored /\ r.block = proc[p].block
  BY <1>1, <1>3 DEF Opener, Migrating
<1>6. proc' = [proc EXCEPT ![p] = r] /\ proc'[p] = r
  BY <1>1, <1>2
<1> HIDE DEF r
<1>7. version' = version /\ cascade' = cascade /\ links' = links /\ nextUid' = nextUid
  BY DEF AlterTable
<1>8. DOMAIN notes' = DOMAIN notes /\ \A n \in DOMAIN notes :
        notes'[n] \in Row /\ notes'[n].uid = notes[n].uid /\ notes'[n].by = notes[n].by
  <2>1. CASE c = "status"
    <3>1. notes' = [n \in DOMAIN notes |-> [notes[n] EXCEPT !.status = "active"]]
      BY <1>2, <2>1
    <3> QED
      BY <1>1, <3>1 DEF Row
  <2>2. CASE c # "status"
    BY <1>1, <1>2, <2>2
  <2> QED
    BY <2>1, <2>2
<1>9. Uidless' = Uidless
  BY <1>8 DEF Uidless
<1>10. columns \subseteq columns' /\ columns' \subseteq AllColumns
  BY <1>1, <1>2, <1>3
<1>11. Shape'
  BY <1>5, <1>6, <1>7, <1>8, <1>10 DEF IInv, Shape
<1>12. StoreOK'
  <2>1. version >= 4 => Sound'
    BY <1>7, <1>8 DEF IInv, StoreOK, Sound
  <2>2. version = 0 => DOMAIN notes' = {} /\ links' = {}
    BY <1>7, <1>8 DEF IInv, StoreOK
  <2> QED
    BY <1>4, <1>7, <1>10, <2>1, <2>2 DEF IInv, StoreOK
<1>13. ProcOK(p)'
  <2>1. /\ proc[p].stored \in {3, 4, 5} /\ version \in {proc[p].stored, Current} /\ version # 0
        /\ proc[p].block \in 1 .. 3 /\ (proc[p].block = 3 <=> proc[p].stored >= 4)
        /\ proc[p].block = 2 => ReleaseColumns \subseteq columns
        /\ proc[p].saw \subseteq columns
    BY <1>1 DEF ProcOK, Migrating, Current
  <2>2. r.saw \subseteq columns' /\ (proc[p].block = 2 => ReleaseColumns \subseteq columns')
    BY <1>2, <1>5, <2>1
  <2> QED
    BY <1>5, <1>6, <1>7, <2>1, <2>2 DEF ProcOK, Migrating, Past
<1> QED
  BY <1>6, <1>7, <1>9, <1>10, <1>11, <1>12, <1>13, StoreStep

\* The three parts of the migration's transaction, note by note.
LEMMA BackfilledNote ==
  ASSUME NEW ns, NEW S, nextUid \in Nat \ {0}, DOMAIN ns \subseteq NoteIds,
         \A n \in DOMAIN ns : ns[n] \in Row
  PROVE  /\ DOMAIN Backfilled(ns, S) = DOMAIN ns
         /\ \A n \in DOMAIN ns : /\ Backfilled(ns, S)[n] \in Row
                                 /\ n \in S => Backfilled(ns, S)[n].uid # NULL
                                 /\ n \notin S => Backfilled(ns, S)[n].uid = ns[n].uid
<1>1. ASSUME NEW n \in DOMAIN ns
      PROVE  nextUid + n - 1 \in Nat \ {0}
  BY GateAssumption DEF NoteIds
<1>2. ASSUME NEW n \in DOMAIN ns, n \in S
      PROVE  Backfilled(ns, S)[n] \in Row /\ Backfilled(ns, S)[n].uid # NULL
  <2> DEFINE u == nextUid + n - 1
  <2>1. u \in Nat \ {0}
    BY <1>1
  <2>2. Backfilled(ns, S)[n] = [ns[n] EXCEPT !.uid = u]
    BY <1>2 DEF Backfilled
  <2> HIDE DEF u
  <2> QED
    BY <2>1, <2>2 DEF Row, NULL
<1>3. ASSUME NEW n \in DOMAIN ns, n \notin S PROVE Backfilled(ns, S)[n] = ns[n]
  BY <1>3 DEF Backfilled
<1>4. DOMAIN Backfilled(ns, S) = DOMAIN ns
  BY DEF Backfilled
<1> QED
  BY <1>2, <1>3, <1>4

LEMMA ClearedNote ==
  ASSUME NEW ns, DOMAIN ns \subseteq NoteIds, \A n \in DOMAIN ns : ns[n] \in Row
  PROVE  /\ DOMAIN Cleared(ns) = DOMAIN ns
         /\ \A n \in DOMAIN ns : /\ Cleared(ns)[n] \in Row
                                 /\ Cleared(ns)[n].uid = ns[n].uid
                                 /\ Cleared(ns)[n].by \in DOMAIN ns \cup {NULL}
<1>1. ASSUME NEW n \in DOMAIN ns
      PROVE  /\ Cleared(ns)[n] \in Row /\ Cleared(ns)[n].uid = ns[n].uid
             /\ Cleared(ns)[n].by \in DOMAIN ns \cup {NULL}
  <2> DEFINE b == IF ns[n].by \in DOMAIN ns THEN ns[n].by ELSE NULL
  <2>1. b \in DOMAIN ns \cup {NULL} /\ b \in NoteIds \cup {NULL}
    OBVIOUS
  <2>2. Cleared(ns)[n] = [ns[n] EXCEPT !.by = b]
    BY DEF Cleared
  <2> HIDE DEF b
  <2> QED
    BY <2>1, <2>2 DEF Row
<1> QED
  BY <1>1 DEF Cleared

LEMMA RestampedNote ==
  ASSUME NEW ns, \A n \in DOMAIN ns : ns[n] \in Row
  PROVE  /\ DOMAIN Restamped(ns) = DOMAIN ns
         /\ \A n \in DOMAIN ns :
              LET note == Restamped(ns)[n]
              IN  /\ note \in Row /\ note.uid = ns[n].uid /\ note.by = ns[n].by
                  /\ (note.status = "tombstoned") <=> note.dead
                  /\ (note.status = "superseded") <=> (note.by # NULL /\ ~note.dead)
<1>1. ASSUME NEW n \in DOMAIN ns
      PROVE  LET note == Restamped(ns)[n]
             IN  /\ note \in Row /\ note.uid = ns[n].uid /\ note.by = ns[n].by
                 /\ (note.status = "tombstoned") <=> note.dead
                 /\ (note.status = "superseded") <=> (note.by # NULL /\ ~note.dead)
  <2> DEFINE s == Derived(ns[n])
  <2>1. /\ s \in {"active", "superseded", "tombstoned"}
        /\ (s = "tombstoned") <=> ns[n].dead
        /\ (s = "superseded") <=> (ns[n].by # NULL /\ ~ns[n].dead)
    BY DerivedAgrees
  <2>2. Restamped(ns)[n] = [ns[n] EXCEPT !.status = s]
    BY DEF Restamped
  <2> HIDE DEF s
  <2>3. LET note == Restamped(ns)[n]
        IN  /\ note \in Row /\ note.uid = ns[n].uid /\ note.by = ns[n].by
            /\ note.dead = ns[n].dead /\ note.status = s
    BY <2>1, <2>2 DEF Row
  <2> QED
    BY <2>1, <2>3
<1> QED
  BY <1>1 DEF Restamped

\* The migration leaves a whole store, also when it comes late.
LEMMA MigrateMakesWhole ==
  ASSUME IInv, NEW p \in Procs, Migrate(p)
  PROVE  /\ Whole' /\ DOMAIN notes' = DOMAIN notes
         /\ \A n \in DOMAIN notes' : notes'[n] \in Row
<1> DEFINE old == proc[p].stored < 4
           S == proc[p].uidless
           mid == IF old THEN Cleared(Backfilled(notes, S)) ELSE notes
<1>1. /\ columns \subseteq AllColumns /\ cascade \in BOOLEAN /\ nextUid \in Nat \ {0}
      /\ DOMAIN notes \subseteq NoteIds /\ \A n \in DOMAIN notes : notes[n] \in Row
  BY DEF IInv, Shape
<1>2. /\ proc[p].stored \in {3, 4, 5} /\ version \in {proc[p].stored, Current}
      /\ OldColumns \subseteq columns
      /\ version < 4 => Uidless \subseteq S
  BY DEF IInv, ProcOK, Migrate, Migrating
<1>3. /\ notes' = Restamped(mid)
      /\ links' = (IF old /\ ~cascade THEN links \cap ((DOMAIN notes) \X (DOMAIN notes)) ELSE links)
      /\ cascade' = (cascade \/ old)
      /\ columns' = columns \cup {"status"} /\ version' = Current
  BY DEF Migrate, NewVersion
<1>4. version >= 4 => Sound /\ cascade
  BY DEF IInv, StoreOK
<1>5. ~old => version >= 4
  BY <1>2 DEF Current
<1>6. /\ DOMAIN mid = DOMAIN notes
      /\ \A n \in DOMAIN notes : mid[n] \in Row /\ mid[n].uid # NULL
                                /\ mid[n].by \in DOMAIN notes \cup {NULL}
  <2>1. CASE old
    <3> DEFINE b == Backfilled(notes, S)
    <3>1. \A n \in DOMAIN notes : n \notin S => notes[n].uid # NULL
      <4>1. CASE version < 4
        BY <1>2, <4>1 DEF Uidless
      <4>2. CASE version >= 4
        BY <1>4, <4>2 DEF Sound
      <4> QED
        BY <1>2, <4>1, <4>2 DEF Current
    <3>2. /\ DOMAIN b = DOMAIN notes
          /\ \A n \in DOMAIN notes : b[n] \in Row /\ b[n].uid # NULL
      BY <1>1, <3>1, BackfilledNote
    <3> HIDE DEF b
    <3>3. /\ DOMAIN Cleared(b) = DOMAIN notes
          /\ \A n \in DOMAIN notes : /\ Cleared(b)[n] \in Row /\ Cleared(b)[n].uid = b[n].uid
                                     /\ Cleared(b)[n].by \in DOMAIN notes \cup {NULL}
      BY <1>1, <3>2, ClearedNote
    <3>4. mid = Cleared(b)
      BY <2>1 DEF b
    <3> QED
      BY <3>2, <3>3, <3>4
  <2>2. CASE ~old
    BY <1>1, <1>4, <1>5, <2>2 DEF Sound
  <2> QED
    BY <2>1, <2>2
<1> HIDE DEF mid
<1>7. /\ DOMAIN notes' = DOMAIN notes
      /\ \A n \in DOMAIN notes :
           /\ notes'[n] \in Row /\ notes'[n].uid # NULL
           /\ notes'[n].by \in DOMAIN notes \cup {NULL}
           /\ (notes'[n].status = "tombstoned") <=> notes'[n].dead
           /\ (notes'[n].status = "superseded") <=> (notes'[n].by # NULL /\ ~notes'[n].dead)
  BY <1>3, <1>6, RestampedNote
<1>8. links' \subseteq (DOMAIN notes) \X (DOMAIN notes)
  <2>1. CASE old /\ ~cascade
    BY <1>3, <2>1
  <2>2. CASE ~(old /\ ~cascade)
    <3>1. version >= 4
      <4>1. CASE cascade
        <5>1. version \notin 1 .. 3
          BY <4>1 DEF IInv, StoreOK
        <5> QED
          BY <1>2, <5>1 DEF Current
      <4> QED
        BY <1>5, <2>2, <4>1
    <3> QED
      BY <1>3, <1>4, <2>2, <3>1 DEF Sound
  <2> QED
    BY <2>1, <2>2
<1>9. columns' = AllColumns
  BY <1>1, <1>2, <1>3 DEF AllColumns, OldColumns, ReleaseColumns
<1>10. cascade'
  BY <1>3, <1>4, <1>5
<1> QED
  BY <1>3, <1>7, <1>8, <1>9, <1>10 DEF Whole

\* Whatever makes or keeps the store whole does it no harm otherwise.
LEMMA WholeOK ==
  ASSUME Whole', DOMAIN notes' \subseteq NoteIds, \A n \in DOMAIN notes' : notes'[n] \in Row,
         nextUid' \in Nat \ {0}, proc' \in [Procs -> Opener], cascade' \in BOOLEAN
  PROVE  Shape' /\ StoreOK'
<1>1. version' = 6
  BY DEF Whole, Current
<1>2. columns' = AllColumns /\ cascade' /\ Sound'
  BY DEF Whole, Sound
<1>3. OldColumns \subseteq AllColumns
  BY DEF OldColumns, ReleaseColumns, AllColumns
<1> QED
  BY <1>1, <1>2, <1>3 DEF Shape, StoreOK

LEMMA MigrateKeeps ==
  ASSUME IInv, NEW p \in Procs, Migrate(p) PROVE IInv'
<1> DEFINE r == [proc[p] EXCEPT !.at = "checking", !.stored = 0, !.uidless = {}]
<1>1. /\ proc[p] \in Opener /\ proc \in [Procs -> Opener] /\ DOMAIN notes \subseteq NoteIds
      /\ cascade \in BOOLEAN /\ columns \subseteq AllColumns
      /\ nextUid \in Nat \ {0} /\ MaxNotes \in Nat
  BY GateAssumption DEF IInv, Shape
<1>2. r \in Opener /\ r.at = "checking"
  BY <1>1 DEF Opener, Past
<1>3. proc' = [proc EXCEPT ![p] = r] /\ proc'[p] = r
  BY <1>1 DEF Migrate
<1> HIDE DEF r
<1>4. /\ version' = Current /\ columns \subseteq columns'
      /\ cascade' = (cascade \/ proc[p].stored < 4)
      /\ nextUid' \in {nextUid, nextUid + MaxNotes}
  BY DEF Migrate, NewVersion
<1>5. nextUid' \in Nat \ {0} /\ cascade' \in BOOLEAN
  BY <1>1, <1>4
<1>6. Shape' /\ StoreOK'
  BY <1>1, <1>2, <1>3, <1>5, MigrateMakesWhole, WholeOK
<1>7. ProcOK(p)'
  BY <1>2, <1>3, <1>4 DEF ProcOK, Migrating, Past, Current
<1>8. version' \in {version, Current} /\ ~(version' < 4) /\ (cascade => cascade')
  BY <1>1, <1>4 DEF Current
<1> QED
  BY <1>3, <1>4, <1>6, <1>7, <1>8, StoreStep

LEMMA StampKeeps ==
  ASSUME IInv, NEW p \in Procs, Stamp(p) PROVE IInv'
<1> DEFINE r == [proc[p] EXCEPT !.at = "checking"]
<1>1. /\ proc[p] \in Opener /\ proc \in [Procs -> Opener] /\ DOMAIN notes \subseteq NoteIds
      /\ \A n \in DOMAIN notes : notes[n] \in Row
      /\ cascade \in BOOLEAN /\ nextUid \in Nat \ {0}
  BY DEF IInv, Shape
<1>2. r \in Opener /\ r.at = "checking"
  BY <1>1 DEF Opener, Past
<1>3. proc' = [proc EXCEPT ![p] = r] /\ proc'[p] = r
  BY <1>1 DEF Stamp
<1> HIDE DEF r
<1>4. version' = Current /\ UNCHANGED <<columns, cascade, notes, links, nextUid>>
  BY DEF Stamp
<1>5. Whole'
  <2>1. version \in {0, Current} /\ (version = 0 => columns = AllColumns /\ cascade)
    BY DEF IInv, ProcOK, Stamp
  <2>2. CASE version = 0
    <3>1. DOMAIN notes = {} /\ links = {} /\ columns = AllColumns /\ cascade
      BY <2>1, <2>2 DEF IInv, StoreOK
    <3> QED
      BY <1>4, <3>1 DEF Whole
  <2>3. CASE version = Current
    BY <1>4, <2>3 DEF IInv, StoreOK, Whole
  <2> QED
    BY <2>1, <2>2, <2>3
<1>6. Shape' /\ StoreOK'
  BY <1>1, <1>2, <1>3, <1>4, <1>5, WholeOK
<1>7. ProcOK(p)'
  BY <1>2, <1>3, <1>4 DEF ProcOK, Migrating, Past, Current
<1>8. version' \in {version, Current} /\ ~(version' < 4) /\ columns \subseteq columns'
      /\ (cascade => cascade')
  BY <1>4 DEF Current
<1> QED
  BY <1>3, <1>6, <1>7, <1>8, StoreStep

LEMMA ResetEmbeddingSpaceKeeps ==
  ASSUME IInv, NEW p \in Procs, ResetEmbeddingSpace(p) PROVE IInv'
<1> DEFINE r == [proc[p] EXCEPT !.at = "creating"]
<1>1. /\ proc[p] \in Opener /\ proc \in [Procs -> Opener] /\ DOMAIN notes \subseteq NoteIds
      /\ \A n \in DOMAIN notes : notes[n] \in Row
      /\ cascade \in BOOLEAN /\ nextUid \in Nat \ {0}
  BY DEF IInv, Shape
<1>2. r \in Opener /\ r.at = "creating"
  BY <1>1 DEF Opener
<1>3. proc' = [proc EXCEPT ![p] = r] /\ proc'[p] = r
  BY <1>1 DEF ResetEmbeddingSpace
<1> HIDE DEF r
<1>4. /\ UNCHANGED <<version, columns, cascade, links, nextUid>>
      /\ notes' = [n \in DOMAIN notes |-> [notes[n] EXCEPT !.space = None]]
  BY DEF ResetEmbeddingSpace
<1>5. version = Current /\ Whole
  BY DEF IInv, ProcOK, Past, ResetEmbeddingSpace, StoreOK
<1>6. DOMAIN notes' = DOMAIN notes /\ \A n \in DOMAIN notes :
        /\ notes'[n] \in Row /\ notes'[n].uid = notes[n].uid /\ notes'[n].dead = notes[n].dead
        /\ notes'[n].by = notes[n].by /\ notes'[n].status = notes[n].status
  BY <1>1, <1>4 DEF Row
<1>7. Whole'
  BY <1>4, <1>5, <1>6 DEF Whole
<1>8. Shape' /\ StoreOK'
  BY <1>1, <1>2, <1>3, <1>4, <1>6, <1>7, WholeOK
<1>9. ProcOK(p)'
  BY <1>2, <1>3, <1>4 DEF ProcOK, Migrating, Past
<1>10. version' \in {version, Current} /\ ~(version' < 4) /\ columns \subseteq columns'
       /\ (cascade => cascade')
  BY <1>4, <1>5 DEF Current
<1> QED
  BY <1>3, <1>8, <1>9, <1>10, StoreStep

-----------------------------------------------------------------------------
(* The writers, who have a whole store before them. *)

LEMMA WriterStep ==
  ASSUME NEW p \in Procs, IInv, proc[p].at = "open", proc' = proc,
         UNCHANGED <<version, columns, cascade>>, nextUid' \in Nat \ {0},
         DOMAIN notes' \subseteq NoteIds, \A n \in DOMAIN notes' : notes'[n] \in Row, Whole'
  PROVE  IInv'
<1>1. Shape' /\ StoreOK'
  BY WholeOK DEF IInv, Shape
<1>2. version' = Current /\ ~(version' < 4)
  BY DEF Whole, Current
<1>3. ASSUME NEW q \in Procs PROVE ProcOK(q)'
  <2>1. proc'[q] = proc[q] /\ ProcOK(q) /\ Shape
    BY DEF IInv
  <2>2. columns' \subseteq AllColumns /\ cascade' \in BOOLEAN
    BY <1>1 DEF Shape
  <2> QED
    BY <1>2, <2>1, <2>2, OthersKeep
<1> QED
  BY <1>1, <1>3 DEF IInv

\* What a process with the store open finds.
LEMMA OpenFinds ==
  ASSUME NEW p \in Procs, IInv, proc[p].at = "open"
  PROVE  /\ Whole /\ version = Current /\ nextUid \in Nat \ {0}
         /\ proc[p].space \in Spaces \cup {None}
         /\ DOMAIN notes \subseteq NoteIds /\ \A n \in DOMAIN notes : notes[n] \in Row
<1>1. proc[p] \in Opener /\ ProcOK(p)
  BY DEF IInv, Shape
<1>2. version = Current
  BY <1>1 DEF ProcOK, Past
<1> QED
  BY <1>1, <1>2 DEF IInv, StoreOK, Shape, Opener

\* The new row, its identity and its pointer.
LEMMA InsertedNote ==
  ASSUME NEW p \in Procs, IInv, proc[p].at = "open", NEW n \in NoteIds, NEW vec \in BOOLEAN
  PROVE  LET new == Inserted(p, n, vec)
         IN  /\ DOMAIN new = DOMAIN notes \cup {n}
             /\ \A m \in DOMAIN notes \ {n} : new[m] = notes[m]
             /\ new[n] \in Row /\ new[n].uid = nextUid /\ ~new[n].dead
             /\ new[n].by = NULL /\ new[n].status = "active"
<1> DEFINE s == IF vec THEN proc[p].space ELSE None
           row == [uid |-> nextUid, dead |-> FALSE, by |-> NULL, status |-> "active", space |-> s]
<1>1. s \in Spaces \cup {None} /\ nextUid \in Nat
  BY OpenFinds
<1>2. /\ DOMAIN Inserted(p, n, vec) = DOMAIN notes \cup {n}
      /\ \A m \in DOMAIN notes \ {n} : Inserted(p, n, vec)[m] = notes[m]
      /\ Inserted(p, n, vec)[n] = row
  BY DEF Inserted
<1> HIDE DEF s
<1>3. row \in Row /\ row.uid = nextUid /\ ~row.dead /\ row.by = NULL /\ row.status = "active"
  BY <1>1 DEF Row
<1> QED
  BY <1>2, <1>3

LEMMA AutolinkLinks ==
  ASSUME NEW ns, NEW n \in DOMAIN ns, links \subseteq (DOMAIN ns) \X (DOMAIN ns), Autolink(ns, n)
  PROVE  links' \subseteq (DOMAIN ns) \X (DOMAIN ns)
  BY DEF Autolink

LEMMA RememberKeeps ==
  ASSUME IInv, NEW p \in Procs, Remember(p) PROVE IInv'
<1>1. PICK n \in NoteIds, vec \in BOOLEAN :
        Writes(p, n) /\ notes' = Inserted(p, n, vec) /\ Autolink(notes', n)
  BY DEF Remember
<1>2. proc[p].at = "open" /\ UNCHANGED <<version, columns, cascade, proc>> /\ nextUid' = nextUid + 1
  BY <1>1 DEF Writes
<1>3. /\ Whole /\ version = Current /\ nextUid \in Nat \ {0}
      /\ DOMAIN notes \subseteq NoteIds /\ \A m \in DOMAIN notes : notes[m] \in Row
  BY <1>2, OpenFinds
<1>4. /\ DOMAIN notes' = DOMAIN notes \cup {n}
      /\ \A m \in DOMAIN notes \ {n} : notes'[m] = notes[m]
      /\ notes'[n] \in Row /\ notes'[n].uid = nextUid /\ ~notes'[n].dead
      /\ notes'[n].by = NULL /\ notes'[n].status = "active"
  BY <1>1, <1>2, InsertedNote
<1>5. links' \subseteq (DOMAIN notes') \X (DOMAIN notes')
  BY <1>1, <1>3, <1>4, AutolinkLinks DEF Whole
<1>6. \A m \in DOMAIN notes' :
        /\ notes'[m].uid # NULL /\ notes'[m].by \in DOMAIN notes' \cup {NULL}
        /\ (notes'[m].status = "tombstoned") <=> notes'[m].dead
        /\ (notes'[m].status = "superseded") <=> (notes'[m].by # NULL /\ ~notes'[m].dead)
  BY <1>3, <1>4 DEF Whole, NULL
<1>7. Whole'
  BY <1>2, <1>3, <1>5, <1>6 DEF Whole
<1>8. nextUid' \in Nat \ {0}
  BY <1>2, <1>3
<1>9. DOMAIN notes' \subseteq NoteIds /\ \A m \in DOMAIN notes' : notes'[m] \in Row
  BY <1>3, <1>4
<1> QED
  BY <1>2, <1>7, <1>8, <1>9, WriterStep

\* The id of a new row is above every id in use.
LEMMA NewIdIsNew ==
  ASSUME DOMAIN notes \subseteq NoteIds PROVE NewId \notin DOMAIN notes
<1> SUFFICES ASSUME NewId \in DOMAIN notes PROVE FALSE
  OBVIOUS
<1> DEFINE T == {k \in NoteIds : \E m \in DOMAIN notes : k <= m}
<1>1. NewId \in Nat /\ NewId = Cardinality(T) + 1
  BY GateAssumption DEF NewId, NoteIds
<1>2. 1 .. NewId \subseteq T
  <2>1. ASSUME NEW k \in 1 .. NewId PROVE k \in NoteIds /\ k <= NewId
    <3>1. NewId \in NoteIds
      OBVIOUS
    <3> HIDE DEF T
    <3> QED
      BY <3>1, GateAssumption DEF NoteIds
  <2> QED
    BY <2>1
<1>3. IsFiniteSet(T) /\ IsFiniteSet(1 .. NewId) /\ Cardinality(1 .. NewId) = NewId
  <2>1. IsFiniteSet(NoteIds)
    BY FS_Interval, GateAssumption DEF NoteIds
  <2>2. Cardinality(1 .. NewId) = NewId /\ IsFiniteSet(1 .. NewId)
    BY <1>1, FS_Interval
  <2> QED
    BY <2>1, <2>2, FS_Subset
<1>4. Cardinality(1 .. NewId) <= Cardinality(T) /\ Cardinality(T) \in Nat
  BY <1>2, <1>3, FS_Subset, FS_CardinalityType
<1> QED
  BY <1>1, <1>3, <1>4

LEMMA SupersedeKeeps ==
  ASSUME IInv, NEW p \in Procs, Supersede(p) PROVE IInv'
<1>1. PICK old \in DOMAIN notes, n \in NoteIds, vec \in BOOLEAN :
        /\ Writes(p, n)
        /\ ~notes[old].dead /\ notes[old].by = NULL /\ notes[old].status = "active"
        /\ notes' = [Inserted(p, n, vec) EXCEPT ![old].by = n, ![old].status = "superseded"]
        /\ Autolink(notes', n)
  BY DEF Supersede
<1>2. proc[p].at = "open" /\ UNCHANGED <<version, columns, cascade, proc>> /\ nextUid' = nextUid + 1
  BY <1>1 DEF Writes
<1>3. /\ Whole /\ version = Current /\ nextUid \in Nat \ {0}
      /\ DOMAIN notes \subseteq NoteIds /\ \A m \in DOMAIN notes : notes[m] \in Row
  BY <1>2, OpenFinds
<1>4. n \notin DOMAIN notes
  BY <1>1, <1>3, NewIdIsNew DEF Writes
<1> DEFINE new == Inserted(p, n, vec)
           row == [new[old] EXCEPT !.by = n, !.status = "superseded"]
<1>5. /\ DOMAIN new = DOMAIN notes \cup {n}
      /\ \A m \in DOMAIN notes \ {n} : new[m] = notes[m]
      /\ new[n] \in Row /\ new[n].uid = nextUid /\ ~new[n].dead
      /\ new[n].by = NULL /\ new[n].status = "active"
  BY <1>2, InsertedNote
<1>6. new[old] = notes[old] /\ old # n
  BY <1>4, <1>5
<1>7. notes' = [new EXCEPT ![old] = row]
  BY <1>1, <1>5
<1> HIDE DEF new
<1>8. row \in Row /\ row.uid = notes[old].uid /\ row.dead = notes[old].dead
      /\ row.by = n /\ row.status = "superseded"
  BY <1>3, <1>6 DEF Row
<1> HIDE DEF row
<1>9. /\ DOMAIN notes' = DOMAIN notes \cup {n}
      /\ notes'[n] = new[n] /\ notes'[old] = row
      /\ \A m \in DOMAIN notes \ {old} : notes'[m] = notes[m]
  BY <1>4, <1>5, <1>6, <1>7
<1>10. links' \subseteq (DOMAIN notes') \X (DOMAIN notes')
  <2>1. links \subseteq (DOMAIN notes') \X (DOMAIN notes') /\ n \in DOMAIN notes'
    BY <1>3, <1>9 DEF Whole
  <2> QED
    BY <1>1, <2>1, AutolinkLinks
<1>11. ASSUME NEW m \in DOMAIN notes'
       PROVE  /\ notes'[m] \in Row
              /\ notes'[m].uid # NULL /\ notes'[m].by \in DOMAIN notes' \cup {NULL}
              /\ (notes'[m].status = "tombstoned") <=> notes'[m].dead
              /\ (notes'[m].status = "superseded") <=> (notes'[m].by # NULL /\ ~notes'[m].dead)
  <2>1. CASE m = n
    BY <1>3, <1>5, <1>9, <2>1 DEF NULL
  <2>2. CASE m = old
    <3>1. n # NULL
      BY DEF NoteIds, NULL
    <3> QED
      <4>1. notes'[m] = row /\ notes[old].uid # NULL
        BY <1>3, <1>9, <2>2 DEF Whole
      <4> QED
        BY <1>1, <1>8, <1>9, <3>1, <4>1
  <2>3. CASE m \in DOMAIN notes \ {old}
    BY <1>3, <1>9, <2>3 DEF Whole
  <2> QED
    BY <1>9, <2>1, <2>2, <2>3
<1>12. Whole'
  BY <1>2, <1>3, <1>10, <1>11 DEF Whole
<1>13. nextUid' \in Nat \ {0} /\ DOMAIN notes' \subseteq NoteIds
  BY <1>2, <1>3, <1>9
<1> QED
  BY <1>2, <1>11, <1>12, <1>13, WriterStep

LEMMA ForgetKeeps ==
  ASSUME IInv, NEW p \in Procs, Forget(p) PROVE IInv'
<1>1. PICK n \in DOMAIN notes :
        /\ proc[p].at = "open"
        /\ notes' = [notes EXCEPT ![n].dead = TRUE, ![n].status = "tombstoned"]
        /\ UNCHANGED <<version, columns, cascade, links, nextUid, proc>>
  BY DEF Forget
<1>2. /\ Whole /\ version = Current /\ nextUid \in Nat \ {0}
      /\ DOMAIN notes \subseteq NoteIds /\ \A m \in DOMAIN notes : notes[m] \in Row
  BY <1>1, OpenFinds
<1> DEFINE row == [notes[n] EXCEPT !.dead = TRUE, !.status = "tombstoned"]
<1>3. row \in Row /\ row.uid = notes[n].uid /\ row.dead /\ row.by = notes[n].by
      /\ row.status = "tombstoned"
  BY <1>2 DEF Row
<1>4. notes' = [notes EXCEPT ![n] = row]
  BY <1>1
<1> HIDE DEF row
<1>5. /\ DOMAIN notes' = DOMAIN notes /\ notes'[n] = row
      /\ \A m \in DOMAIN notes \ {n} : notes'[m] = notes[m]
  BY <1>4
<1>6. ASSUME NEW m \in DOMAIN notes'
      PROVE  /\ notes'[m] \in Row
             /\ notes'[m].uid # NULL /\ notes'[m].by \in DOMAIN notes' \cup {NULL}
             /\ (notes'[m].status = "tombstoned") <=> notes'[m].dead
             /\ (notes'[m].status = "superseded") <=> (notes'[m].by # NULL /\ ~notes'[m].dead)
  <2>1. CASE m = n
    BY <1>2, <1>3, <1>5, <2>1 DEF Whole
  <2>2. CASE m # n
    BY <1>2, <1>5, <2>2 DEF Whole
  <2> QED
    BY <2>1, <2>2
<1>7. Whole'
  BY <1>1, <1>2, <1>5, <1>6 DEF Whole
<1> QED
  BY <1>1, <1>2, <1>5, <1>6, <1>7, WriterStep

LEMMA HardForgetKeeps ==
  ASSUME IInv, NEW p \in Procs, HardForget(p) PROVE IInv'
<1>1. PICK n \in DOMAIN notes :
        /\ proc[p].at = "open"
        /\ notes' = [m \in DOMAIN notes \ {n} |->
                       IF notes[m].by # n THEN notes[m]
                       ELSE [notes[m] EXCEPT !.by = NULL,
                               !.status = IF @ = "superseded" THEN "active" ELSE @]]
        /\ links' = IF cascade THEN {l \in links : n \notin {l[1], l[2]}} ELSE links
        /\ UNCHANGED <<version, columns, cascade, nextUid, proc>>
  BY DEF HardForget
<1>2. /\ Whole /\ version = Current /\ nextUid \in Nat \ {0}
      /\ DOMAIN notes \subseteq NoteIds /\ \A m \in DOMAIN notes : notes[m] \in Row
  BY <1>1, OpenFinds
<1>3. DOMAIN notes' = DOMAIN notes \ {n}
  BY <1>1
<1>4. links' \subseteq (DOMAIN notes') \X (DOMAIN notes')
  BY <1>1, <1>2, <1>3 DEF Whole
<1>5. ASSUME NEW m \in DOMAIN notes'
      PROVE  /\ notes'[m] \in Row
             /\ notes'[m].uid # NULL /\ notes'[m].by \in DOMAIN notes' \cup {NULL}
             /\ (notes'[m].status = "tombstoned") <=> notes'[m].dead
             /\ (notes'[m].status = "superseded") <=> (notes'[m].by # NULL /\ ~notes'[m].dead)
  <2>1. m \in DOMAIN notes /\ m # n /\ notes[m] \in Row
    BY <1>2, <1>3
  <2>2. /\ notes[m].uid # NULL /\ notes[m].by \in DOMAIN notes \cup {NULL}
        /\ (notes[m].status = "tombstoned") <=> notes[m].dead
        /\ (notes[m].status = "superseded") <=> (notes[m].by # NULL /\ ~notes[m].dead)
    BY <1>2, <2>1 DEF Whole
  <2>3. CASE notes[m].by # n
    BY <1>1, <1>3, <2>1, <2>2, <2>3
  <2>4. CASE notes[m].by = n
    <3> DEFINE s == IF notes[m].status = "superseded" THEN "active" ELSE notes[m].status
               row == [notes[m] EXCEPT !.by = NULL, !.status = s]
    <3>1. notes'[m] = row
      BY <1>1, <2>1, <2>4
    <3>2. /\ s \in {"active", "tombstoned", None} /\ s # "superseded"
          /\ (s = "tombstoned") <=> notes[m].dead
      BY <2>1, <2>2 DEF Row, None
    <3> HIDE DEF s
    <3>3. row \in Row /\ row.uid = notes[m].uid /\ row.dead = notes[m].dead
          /\ row.by = NULL /\ row.status = s
      BY <2>1, <3>2 DEF Row
    <3> HIDE DEF row
    <3> QED
      BY <2>2, <3>1, <3>2, <3>3
  <2> QED
    BY <2>3, <2>4
<1>6. Whole'
  BY <1>1, <1>2, <1>4, <1>5 DEF Whole
<1>7. DOMAIN notes' \subseteq NoteIds
  BY <1>2, <1>3
<1> QED
  BY <1>1, <1>2, <1>5, <1>6, <1>7, WriterStep

-----------------------------------------------------------------------------

LEMMA StepOK == IInv /\ [Next]_vars => IInv'
<1> SUFFICES ASSUME IInv, [Next]_vars PROVE IInv'
  OBVIOUS
<1>1. CASE UNCHANGED vars
  BY <1>1 DEF vars, IInv, Shape, StoreOK, Sound, Whole, ProcOK, Uidless
<1>2. ASSUME NEW p \in Procs, NEW s \in Spaces, Open(p, s) PROVE IInv'
  BY <1>2, OpenKeeps
<1>3. ASSUME NEW p \in Procs, Step(p) PROVE IInv'
  BY <1>3, CreateTablesKeeps, ReadVersionKeeps, LookKeeps, AlterTableKeeps, LeavingKeeps,
     BlockDoneKeeps, ListUidlessKeeps, MigrateKeeps, StampKeeps, CheckSpaceKeeps, StampSpaceKeeps
  DEF Step
<1>4. ASSUME NEW p \in Procs, Remember(p) \/ Supersede(p) \/ Forget(p) \/ HardForget(p)
      PROVE  IInv'
  BY <1>4, RememberKeeps, SupersedeKeeps, ForgetKeeps, HardForgetKeeps
<1>5. ASSUME NEW p \in Procs, Refuse(p) \/ ResetEmbeddingSpace(p) \/ Close(p) \/ Crash(p)
      PROVE  IInv'
  BY <1>5, LeavingKeeps, ResetEmbeddingSpaceKeeps
<1> QED
  BY <1>1, <1>2, <1>3, <1>4, <1>5 DEF Next

LEMMA Invariance == Spec => []IInv
  BY InitOK, StepOK, PTL DEF Spec

\* assert_schema_version: whoever has the store open has a whole one before it,
\* whatever siblings did or left undone, for any number of them.
THEOREM OpenMeansWholeTheorem == Spec => []OpenMeansWhole
<1>1. IInv => OpenMeansWhole
  BY DEF IInv, StoreOK, ProcOK, OpenMeansWhole, Past
<1> QED
  BY <1>1, Invariance, PTL

\* No step takes a whole store apart, among them the last of a sibling's migration
\* that began when the store was still old.
THEOREM WholeStaysWholeTheorem == Spec => WholeStaysWhole
<1>1. ASSUME IInv, IInv', [Next]_vars, Whole PROVE Whole'
  <2>1. version = Current
    BY <1>1 DEF Whole
  <2>2. version' \in {version, Current}
    <3>1. ASSUME NEW p \in Procs, Step(p) PROVE version' \in {version, Current}
      BY <3>1 DEF Step, CreateTables, ReadVersion, Look, AlterTable, AlterFails, BlockDone,
           ListUidless, Migrate, NewVersion, Stamp, CheckSpace, StampSpace
    <3>2. ASSUME NEW p \in Procs, Remember(p) \/ Supersede(p) \/ Forget(p) \/ HardForget(p)
          PROVE  version' = version
      BY <3>2 DEF Remember, Supersede, Forget, HardForget, Writes
    <3>3. ASSUME NEW p \in Procs,
                 \/ \E s \in Spaces : Open(p, s)
                 \/ Refuse(p) \/ ResetEmbeddingSpace(p) \/ Close(p) \/ Crash(p)
          PROVE  version' = version
      BY <3>3 DEF Open, Refuse, ResetEmbeddingSpace, Close, Crash
    <3> QED
      BY <1>1, <3>1, <3>2, <3>3 DEF Next, vars
  <2> QED
    BY <1>1, <2>1, <2>2 DEF IInv, StoreOK
<1>2. IInv /\ IInv' /\ [Next]_vars => [Whole => Whole']_vars
  BY <1>1
<1> QED
  BY <1>2, Invariance, PTL DEF Spec, WholeStaysWhole
==============================================================================
