-------------------------- MODULE TranscriptIngestProofs --------------------------
(***************************************************************************)
(* For every set of projects, families, files, models and faults: a ledger *)
(* never hides stale text, a reconciliation loses no document, and the     *)
(* vectors of family documents are in the space stamped in their store.    *)
(*                                                                         *)
(* The ledger is true because what it says is never ahead of the file      *)
(* (Behind), because the build's copy of it is true as well, and because   *)
(* own documents only leave a store whose ledger has gone before           *)
(* (ProjectOK).  A reconciliation loses nothing because it holds both      *)
(* locks: what it has copied stays in the owner's store until it deletes   *)
(* (LocksOK, CopiedOK).                                                    *)
(***************************************************************************)
EXTENDS TranscriptIngest, TLAPS

Reconciling == {"copying", "deleting"}

\* What a store may hold, and what a ledger may say.
Held(d) == DOMAIN d \subseteq Files /\ d \in [DOMAIN d -> Doc]
Said(l) == DOMAIN l \subseteq Files /\ l \in [DOMAIN l -> Versions]

\* A ledger l is not ahead of the files, at the versions s.
Behind(l, s) == \A f \in DOMAIN l : l[f] <= s[f]

\* What a ledger l of p says is done has its present text in a store d.
Covers(p, l, d, s) ==
  \A f \in DOMAIN l \cap Own(p) :
    l[f] = s[f] => f \in DOMAIN d /\ d[f].text = Pages[s[f]]

\* The family's vectors in a store d of p are in the space m.
Fits(p, d, m) == \A f \in DOMAIN d \ Own(p) : d[f].space \in {NULL, m}

\* What a store d has of q is in q's store e.
Copied(d, e, q) ==
  \A f \in DOMAIN d \cap Own(q) : f \in DOMAIN e /\ e[f].text = d[f].text

Shape ==
  /\ disk \in [Files -> Versions \cup {0}]
  /\ docs = [p \in Projects |-> docs[p]]
  /\ ledger = [p \in Projects |-> ledger[p]]
  /\ led = [p \in Projects |-> led[p]]
  /\ space \in [Projects -> Models \cup {NULL}]
  /\ stage \in [Projects -> Stages]
  /\ todo \in [Projects -> SUBSET Files]
  /\ model \in [Projects -> Models]
  /\ dest \in [Projects -> Projects]
  /\ faults \in 0 .. MaxFaults

ProjectOK(p) ==
  /\ Held(docs[p]) /\ Said(ledger[p]) /\ Said(led[p])
  /\ Behind(ledger[p], disk) /\ Behind(led[p], disk)
  /\ Covers(p, ledger[p], docs[p], disk)
  /\ Fits(p, docs[p], space[p])
  /\ stage[p] = "ingesting" =>
       /\ space[p] = model[p]
       /\ Covers(p, led[p], docs[p], disk)
       /\ \A f \in todo[p] : disk[f] \in Versions
  /\ stage[p] \in {"wiping", "rewiping"} => ledger[p] = None

LocksOK ==
  \A r \in Projects : stage[r] \in Reconciling =>
    /\ dest[r] # r
    /\ stage[dest[r]] = "idle"
    /\ \A s \in Projects \ {r} : stage[s] \in Reconciling => dest[s] # dest[r]

CopiedOK ==
  \A p \in Projects :
    stage[p] = "deleting" => Copied(docs[p], docs[dest[p]], dest[p])

IInv == Shape /\ (\A p \in Projects : ProjectOK(p)) /\ LocksOK /\ CopiedOK

-----------------------------------------------------------------------------
(* Helpers. *)

\* A version is a positive number.
LEMMA VersionsAreNumbers == \A v \in Versions : v \in Nat /\ v # 0
<1> HIDE DEF Versions
<1> QED
  BY IngestAssumption

\* Nothing at all is a sound store, and a sound ledger that says nothing.
LEMMA NoneIsSound == Held(None) /\ Said(None) /\ DOMAIN None = {}
BY DEF Held, Said, None

LEMMA WithoutIsHeld ==
  ASSUME NEW d, Held(d), NEW S
  PROVE  Held(Without(d, S))
BY DEF Held, Without

LEMMA WithIsHeld ==
  ASSUME NEW d, Held(d), NEW f \in Files, NEW doc \in Doc
  PROVE  Held(With(d, f, doc))
BY DEF Held, With

LEMMA WithIsSaid ==
  ASSUME NEW l, Said(l), NEW f \in Files, NEW v \in Versions
  PROVE  Said(With(l, f, v))
BY DEF Said, With

\* What a file is read as is a text, and its document well formed.
LEMMA ReplacedFacts ==
  ASSUME Shape, NEW p \in Projects, Held(docs[p]), NEW f \in Files,
         disk[f] \in Versions
  PROVE  /\ Held(Replaced(p, f))
         /\ DOMAIN Replaced(p, f) = DOMAIN docs[p] \cup {f}
         /\ Replaced(p, f)[f].text = Pages[disk[f]]
         /\ \/ Replaced(p, f)[f].space \in {NULL, model[p]}
            \/ f \in DOMAIN docs[p] /\ Replaced(p, f)[f] = docs[p][f]
         /\ \A g \in DOMAIN docs[p] : g # f => Replaced(p, f)[g] = docs[p][g]
<1> DEFINE text == Pages[disk[f]]
           doc == [text |-> text, space |-> IF text = Blank THEN NULL ELSE model[p]]
<1>2. CASE f \in DOMAIN docs[p] /\ docs[p][f].text = text
  <2>1. Replaced(p, f) = docs[p]
    BY <1>2 DEF Replaced
  <2> QED
    BY <1>2, <2>1
<1>3. CASE ~(f \in DOMAIN docs[p] /\ docs[p][f].text = text)
  <2>1. Replaced(p, f) = With(docs[p], f, doc)
    BY <1>3 DEF Replaced
  <2>2. doc \in Doc
    BY DEF Doc, Texts, Shape
  <2>3. doc.text = text /\ doc.space \in {NULL, model[p]}
    OBVIOUS
  <2> HIDE DEF doc
  <2>4. Held(With(docs[p], f, doc))
    BY <2>2, WithIsHeld
  <2>5. /\ DOMAIN With(docs[p], f, doc) = DOMAIN docs[p] \cup {f}
        /\ With(docs[p], f, doc)[f] = doc
        /\ \A g \in DOMAIN docs[p] : g # f => With(docs[p], f, doc)[g] = docs[p][g]
    BY DEF With
  <2> QED
    BY <2>1, <2>3, <2>4, <2>5
<1> QED
  BY <1>2, <1>3

-----------------------------------------------------------------------------
(* Locks and stages. *)

\* A command that starts on a free store, or goes on, or ends, keeps what the locks say.
LEMMA StageOK ==
  ASSUME IInv, NEW p \in Projects, NEW new \in Stages \ {"copying"},
         new \notin {"idle", "deleting"} => ~Locked(p) \/ stage[p] \notin Reconciling \cup {"idle"},
         new = "deleting" => stage[p] = "copying",
         stage' = [stage EXCEPT ![p] = new], dest' = dest
  PROVE  LocksOK' /\ stage' \in [Projects -> Stages]
<1>1. stage' \in [Projects -> Stages] /\ stage'[p] = new
      /\ \A r \in Projects \ {p} : stage'[r] = stage[r]
  BY DEF IInv, Shape
<1>2. SUFFICES ASSUME NEW r \in Projects, stage'[r] \in Reconciling
               PROVE  /\ dest[r] # r
                      /\ stage'[dest[r]] = "idle"
                      /\ \A s \in Projects \ {r} : stage'[s] \in Reconciling => dest[s] # dest[r]
  BY <1>1 DEF LocksOK
<1>3. stage[r] \in Reconciling
  BY <1>1, <1>2 DEF Reconciling, IInv, Shape, Stages
<1>4. \A s \in Projects : stage'[s] \in Reconciling => stage[s] \in Reconciling
  BY <1>1 DEF Reconciling, IInv, Shape, Stages
<1>5. /\ dest[r] # r /\ stage[dest[r]] = "idle" /\ dest[r] \in Projects
      /\ \A s \in Projects \ {r} : stage[s] \in Reconciling => dest[s] # dest[r]
  BY <1>3 DEF IInv, LocksOK, Shape
<1>6. stage'[dest[r]] = "idle"
  <2>1. CASE dest[r] # p
    BY <1>1, <1>5, <2>1
  <2>2. CASE dest[r] = p
    <3>1. Locked(p) /\ stage[p] = "idle"
      BY <1>3, <1>5, <2>2 DEF Locked, Reconciling
    <3> QED
      BY <1>1, <2>2, <3>1 DEF Stages
  <2> QED
    BY <2>1, <2>2
<1> QED
  BY <1>4, <1>5, <1>6

\* Where a project's own state stays as it is, so does what is true of it.
LEMMA UntouchedOK ==
  ASSUME NEW r \in Projects, ProjectOK(r), disk' = disk,
         docs'[r] = docs[r], ledger'[r] = ledger[r], led'[r] = led[r],
         space'[r] = space[r], stage'[r] = stage[r], todo'[r] = todo[r],
         model'[r] = model[r]
  PROVE  ProjectOK(r)'
BY DEF ProjectOK

\* What has been copied stays in the owner's store: only the process that
\* holds a store's lock changes it, and the lock of the owner's store is held.
LEMMA StillCopied ==
  ASSUME IInv, NEW x \in Projects, NEW new \in Stages \ {"deleting"}, NEW d,
         docs' = docs \/ (stage[x] # "idle" /\ docs' = [docs EXCEPT ![x] = d]),
         stage' = [stage EXCEPT ![x] = new], dest' = dest
  PROVE  CopiedOK'
<1> SUFFICES ASSUME NEW p \in Projects, stage'[p] = "deleting"
             PROVE  Copied(docs'[p], docs'[dest[p]], dest[p])
  BY DEF CopiedOK
<1>1. p # x /\ stage[p] = "deleting"
  BY DEF IInv, Shape
<1>2. stage[dest[p]] = "idle" /\ dest[p] \in Projects
  BY <1>1 DEF IInv, Shape, LocksOK, Reconciling
<1>3. docs'[p] = docs[p] /\ docs'[dest[p]] = docs[dest[p]]
  BY <1>1, <1>2 DEF IInv, Shape
<1> QED
  BY <1>1, <1>3 DEF IInv, CopiedOK

\* A ledger that is not ahead of a file is no truer, and no less true, when
\* the file grows: what it says is done is done at an older version.
LEMMA GrowthIsCovered ==
  ASSUME NEW p \in Projects, NEW l, Said(l), NEW d, NEW s \in [Files -> Versions \cup {0}],
         NEW f \in Files, Behind(l, s), NEW t, t[f] = s[f] + 1,
         \A g \in Files \ {f} : t[g] = s[g]
  PROVE  Behind(l, t) /\ (Covers(p, l, d, s) => Covers(p, l, d, t))
<1>1. \A g \in Files : s[g] \in Nat
  BY VersionsAreNumbers
<1>2. \A g \in DOMAIN l : g \in Files /\ l[g] \in Nat
  BY VersionsAreNumbers DEF Said
<1>3. Behind(l, t)
  BY <1>1, <1>2 DEF Behind
<1>4. ASSUME NEW g \in DOMAIN l \cap Own(p), l[g] = t[g]
      PROVE  g # f /\ t[g] = s[g]
  BY <1>1, <1>2, <1>4 DEF Behind
<1>5. Covers(p, l, d, s) => Covers(p, l, d, t)
  BY <1>4 DEF Covers
<1> QED
  BY <1>3, <1>5

-----------------------------------------------------------------------------
(* The steps, one lemma for each. *)

LEMMA AppendOK ==
  ASSUME IInv, NEW f \in Files, Append(f)
  PROVE  IInv'
<1>1. Shape'
  <2>1. disk' \in [Files -> Versions \cup {0}]
    BY DEF Append, IInv, Shape
  <2> QED
    BY <2>1 DEF Append, IInv, Shape, process
<1>2. ASSUME NEW r \in Projects PROVE ProjectOK(r)'
  <2>1. ProjectOK(r) /\ disk \in [Files -> Versions \cup {0}]
    BY DEF IInv, Shape
  <2>2. /\ disk[f] + 1 \in Versions /\ disk'[f] = disk[f] + 1
        /\ \A g \in Files \ {f} : disk'[g] = disk[g]
    BY <2>1 DEF Append
  <2>3. /\ Behind(ledger[r], disk') /\ Behind(led[r], disk')
        /\ Covers(r, ledger[r], docs[r], disk')
        /\ Covers(r, led[r], docs[r], disk) => Covers(r, led[r], docs[r], disk')
    <3>1. /\ Said(ledger[r]) /\ Said(led[r]) /\ Behind(ledger[r], disk) /\ Behind(led[r], disk)
          /\ Covers(r, ledger[r], docs[r], disk)
      BY <2>1 DEF ProjectOK
    <3>2. Behind(ledger[r], disk') /\ Covers(r, ledger[r], docs[r], disk')
      BY <2>1, <2>2, <3>1, GrowthIsCovered
    <3>3. /\ Behind(led[r], disk')
          /\ Covers(r, led[r], docs[r], disk) => Covers(r, led[r], docs[r], disk')
      BY <2>1, <2>2, <3>1, GrowthIsCovered
    <3> QED
      BY <3>2, <3>3
  <2>4. \A g \in Files : disk[g] \in Versions => disk'[g] \in Versions
    BY <2>1, <2>2
  <2>5. todo[r] \subseteq Files
    BY DEF IInv, Shape
  <2> QED
    BY <2>1, <2>3, <2>4, <2>5 DEF ProjectOK, Append, process
<1>3. LocksOK' /\ CopiedOK'
  BY DEF Append, process, IInv, LocksOK, CopiedOK
<1> QED
  BY <1>1, <1>2, <1>3 DEF IInv

LEMMA BeginBuildOK ==
  ASSUME IInv, NEW p \in Projects, NEW m \in Models, BeginBuild(p, m)
  PROVE  IInv'
<1>1. LocksOK' /\ stage' \in [Projects -> Stages]
  BY StageOK DEF BeginBuild, Listed, Stages
<1>2. CopiedOK'
  BY StillCopied DEF BeginBuild, Listed, Stages
<1>3. Shape'
  BY <1>1 DEF BeginBuild, Listed, IInv, Shape
<1>4. ASSUME NEW r \in Projects, r # p PROVE ProjectOK(r)'
  BY <1>4, UntouchedOK DEF BeginBuild, Listed, IInv, Shape
<1>5. ProjectOK(p)'
  <2>1. /\ ProjectOK(p) /\ space[p] \in {NULL, m}
        /\ space'[p] = m /\ model'[p] = m /\ stage'[p] = "ingesting"
        /\ led'[p] = ledger[p] /\ docs'[p] = docs[p] /\ ledger'[p] = ledger[p] /\ disk' = disk
        /\ todo'[p] = {f \in Files : disk[f] # 0 /\ Home[f] \in Kin[p]}
    BY DEF BeginBuild, Listed, IInv, Shape
  <2>2. Fits(p, docs[p], m)
    BY <2>1 DEF ProjectOK, Fits
  <2>3. \A f \in todo'[p] : disk[f] \in Versions
    BY <2>1 DEF IInv, Shape
  <2> QED
    BY <2>1, <2>2, <2>3 DEF ProjectOK
<1> QED
  BY <1>1, <1>2, <1>3, <1>4, <1>5 DEF IInv

LEMMA BeginReembedOK ==
  ASSUME IInv, NEW p \in Projects, NEW m \in Models, BeginReembed(p, m)
  PROVE  IInv'
<1>1. LocksOK' /\ stage' \in [Projects -> Stages]
  BY StageOK DEF BeginReembed, Stages
<1>2. CopiedOK'
  BY StillCopied DEF BeginReembed, Stages
<1>3. Shape'
  <2>1. faults' \in 0 .. MaxFaults
    BY IngestAssumption DEF BeginReembed, Fault, IInv, Shape
  <2> QED
    BY <1>1, <2>1 DEF BeginReembed, IInv, Shape
<1>4. ASSUME NEW r \in Projects, r # p PROVE ProjectOK(r)'
  BY <1>4, UntouchedOK DEF BeginReembed, IInv, Shape
<1>5. ProjectOK(p)'
  <2>1. /\ ProjectOK(p) /\ space[p] \in {NULL, space'[p]}
        /\ stage'[p] = "rewiping" /\ led'[p] = led[p] /\ docs'[p] = docs[p]
        /\ ledger'[p] = None /\ disk' = disk
    BY DEF BeginReembed, IInv, Shape
  <2>2. Fits(p, docs[p], space'[p])
    BY <2>1 DEF ProjectOK, Fits
  <2>3. Said(None) /\ Behind(None, disk) /\ Covers(p, None, docs[p], disk)
    BY NoneIsSound DEF Behind, Covers
  <2> QED
    BY <2>1, <2>2, <2>3 DEF ProjectOK
<1> QED
  BY <1>1, <1>2, <1>3, <1>4, <1>5 DEF IInv

LEMMA ReembedWipeOK ==
  ASSUME IInv, NEW p \in Projects, ReembedWipe(p)
  PROVE  IInv'
<1>1. LocksOK' /\ stage' \in [Projects -> Stages]
  BY StageOK DEF ReembedWipe, Listed, Stages, Reconciling
<1>2. CopiedOK'
  BY StillCopied DEF ReembedWipe, Listed, Stages
<1>3. Shape'
  BY <1>1 DEF ReembedWipe, Listed, IInv, Shape
<1>4. ASSUME NEW r \in Projects, r # p PROVE ProjectOK(r)'
  BY <1>4, UntouchedOK DEF ReembedWipe, Listed, IInv, Shape
<1>5. ProjectOK(p)'
  <2>1. /\ ProjectOK(p) /\ ledger[p] = None
        /\ space'[p] = model[p] /\ model'[p] = model[p] /\ stage'[p] = "ingesting"
        /\ led'[p] = None /\ ledger'[p] = None /\ disk' = disk
        /\ docs'[p] = IF space[p] = model[p] THEN Without(docs[p], Own(p)) ELSE None
        /\ todo'[p] = {f \in Files : disk[f] # 0 /\ Home[f] \in Kin[p]}
    BY DEF ReembedWipe, Listed, IInv, Shape, ProjectOK
  <2>2. Held(docs'[p])
    BY <2>1, NoneIsSound, WithoutIsHeld DEF ProjectOK
  <2>3. Fits(p, docs'[p], model[p])
    <3>1. CASE space[p] = model[p]
      BY <2>1, <3>1 DEF ProjectOK, Fits, Without
    <3>2. CASE space[p] # model[p]
      BY <2>1, <3>2, NoneIsSound DEF Fits
    <3> QED
      BY <3>1, <3>2
  <2>4. Said(None) /\ Behind(None, disk) /\ Covers(p, None, docs'[p], disk)
    BY NoneIsSound DEF Behind, Covers
  <2>5. \A f \in todo'[p] : disk[f] \in Versions
    BY <2>1 DEF IInv, Shape
  <2> QED
    BY <2>1, <2>2, <2>3, <2>4, <2>5 DEF ProjectOK
<1> QED
  BY <1>1, <1>2, <1>3, <1>4, <1>5 DEF IInv

\* The visits to a file leave locks and stages as they are.
LEMMA VisitFacts ==
  ASSUME IInv, NEW p \in Projects, NEW f \in Files, Visited(p, f)
  PROVE  /\ LocksOK'
         /\ disk[f] \in Versions
         /\ ProjectOK(p) /\ space[p] = model[p] /\ Covers(p, led[p], docs[p], disk)
         /\ todo'[p] = todo[p] \ {f}
         /\ todo' \in [Projects -> SUBSET Files]
         /\ \A r \in Projects \ {p} : todo'[r] = todo[r]
         /\ \A g \in todo'[p] : disk[g] \in Versions
<1>1. LocksOK'
  BY DEF Visited, IInv, LocksOK
<1>2. /\ todo'[p] = todo[p] \ {f}
      /\ todo' \in [Projects -> SUBSET Files]
      /\ \A r \in Projects \ {p} : todo'[r] = todo[r]
  BY DEF Visited, IInv, Shape
<1> QED
  BY <1>1, <1>2 DEF Visited, IInv, ProjectOK

\* A visit that writes nothing, and checkpoints nothing.
LEMMA PassedOverOK ==
  ASSUME IInv, NEW p \in Projects, NEW f \in Files, Visited(p, f), UNCHANGED <<docs, led>>
  PROVE  IInv'
<1>1. LocksOK' /\ CopiedOK' /\ Shape'
  BY VisitFacts DEF Visited, IInv, Shape, CopiedOK
<1>2. ASSUME NEW r \in Projects, r # p PROVE ProjectOK(r)'
  BY <1>2, VisitFacts, UntouchedOK DEF Visited, IInv
<1>3. ProjectOK(p)'
  BY VisitFacts DEF Visited, ProjectOK
<1> QED
  BY <1>1, <1>2, <1>3 DEF IInv

LEMMA IngestFileOK ==
  ASSUME IInv, NEW p \in Projects, NEW f \in Files, NEW ok \in BOOLEAN, IngestFile(p, f, ok)
  PROVE  IInv'
<1> DEFINE d == Replaced(p, f)
           l == IF ok THEN With(led[p], f, disk[f]) ELSE led[p]
<1>1. /\ Visited(p, f) /\ disk' = disk /\ space' = space /\ ledger' = ledger /\ stage' = stage
      /\ model' = model /\ dest' = dest /\ faults' = faults /\ stage[p] = "ingesting"
      /\ docs' = [docs EXCEPT ![p] = d]
  BY DEF IngestFile, Visited
<1>2. led' = [led EXCEPT ![p] = l]
  <2>1. CASE ok
    BY <2>1 DEF IngestFile
  <2>2. CASE ~ok
    BY <2>2 DEF IngestFile, IInv, Shape
  <2> QED
    BY <2>1, <2>2
<1>3. /\ Held(d) /\ DOMAIN d = DOMAIN docs[p] \cup {f} /\ d[f].text = Pages[disk[f]]
      /\ d[f].space \in {NULL, model[p]} \/ (f \in DOMAIN docs[p] /\ d[f] = docs[p][f])
      /\ \A g \in DOMAIN docs[p] : g # f => d[g] = docs[p][g]
  <2>1. Shape /\ Held(docs[p]) /\ disk[f] \in Versions
    BY <1>1, VisitFacts DEF IInv, ProjectOK
  <2> QED
    BY <2>1, ReplacedFacts
<1>4. /\ DOMAIN led[p] \subseteq DOMAIN l /\ DOMAIN l \subseteq DOMAIN led[p] \cup {f}
      /\ \A g \in DOMAIN led[p] : g # f => l[g] = led[p][g]
      /\ f \in DOMAIN l => l[f] = disk[f] \/ (f \in DOMAIN led[p] /\ l[f] = led[p][f])
  BY DEF With
<1>5. Said(l)
  BY <1>1, VisitFacts, WithIsSaid DEF ProjectOK
<1> HIDE DEF d, l
<1>6. Behind(l, disk)
  <2>1. disk[f] \in Nat
    BY <1>1, VisitFacts, VersionsAreNumbers
  <2> QED
    BY <1>1, <1>4, <2>1, VisitFacts DEF ProjectOK, Behind
<1>7. Covers(p, ledger[p], d, disk)
  BY <1>1, <1>3, VisitFacts DEF ProjectOK, Covers
<1>8. Covers(p, l, d, disk)
  BY <1>1, <1>3, <1>4, VisitFacts DEF Covers
<1>9. Fits(p, d, space[p])
  BY <1>1, <1>3, VisitFacts DEF ProjectOK, Fits
<1>10. ProjectOK(p)'
  <2>1. docs'[p] = d /\ led'[p] = l
    BY <1>1, <1>2 DEF IInv, Shape
  <2> QED
    BY <1>1, <1>3, <1>5, <1>6, <1>7, <1>8, <1>9, <2>1, VisitFacts DEF ProjectOK
<1>11. ASSUME NEW r \in Projects, r # p PROVE ProjectOK(r)'
  <2>1. docs'[r] = docs[r] /\ led'[r] = led[r] /\ todo'[r] = todo[r]
    BY <1>1, <1>2, <1>11, VisitFacts DEF IInv, Shape
  <2> QED
    BY <1>1, <2>1, UntouchedOK DEF IInv
<1>12. Shape'
  BY <1>1, <1>2, VisitFacts DEF IInv, Shape
<1>13. CopiedOK'
  <2>1. stage' = [stage EXCEPT ![p] = "ingesting"]
    BY <1>1 DEF IInv, Shape
  <2> QED
    BY <1>1, <2>1, StillCopied DEF Stages
<1> QED
  BY <1>1, <1>10, <1>11, <1>12, <1>13, VisitFacts DEF IInv

LEMMA SaveLedgerOK ==
  ASSUME IInv, NEW p \in Projects, SaveLedger(p)
  PROVE  IInv'
<1>1. LocksOK' /\ stage' \in [Projects -> Stages]
  BY StageOK DEF SaveLedger, Stages
<1>2. CopiedOK'
  BY StillCopied DEF SaveLedger, Stages
<1>3. Shape'
  BY <1>1 DEF SaveLedger, IInv, Shape
<1>4. ASSUME NEW r \in Projects, r # p PROVE ProjectOK(r)'
  BY <1>4, UntouchedOK DEF SaveLedger, IInv, Shape
<1>5. ProjectOK(p)'
  <2>1. /\ ProjectOK(p) /\ stage[p] = "ingesting" /\ stage'[p] = "idle"
        /\ ledger'[p] = led[p] /\ led'[p] = None /\ docs' = docs /\ disk' = disk /\ space' = space
    BY DEF SaveLedger, IInv, Shape
  <2>2. Said(None) /\ Behind(None, disk)
    BY NoneIsSound DEF Behind
  <2> QED
    BY <2>1, <2>2 DEF ProjectOK
<1> QED
  BY <1>1, <1>2, <1>3, <1>4, <1>5 DEF IInv

LEMMA BeginClearOK ==
  ASSUME IInv, NEW p \in Projects, BeginClear(p)
  PROVE  IInv'
<1>1. LocksOK' /\ stage' \in [Projects -> Stages]
  BY StageOK DEF BeginClear, process, Stages
<1>2. CopiedOK'
  BY StillCopied DEF BeginClear, process, Stages
<1>3. Shape'
  <2>1. faults' \in 0 .. MaxFaults
    BY IngestAssumption DEF BeginClear, Fault, IInv, Shape
  <2> QED
    BY <1>1, <2>1 DEF BeginClear, process, IInv, Shape
<1>4. ASSUME NEW r \in Projects, r # p PROVE ProjectOK(r)'
  BY <1>4, UntouchedOK DEF BeginClear, process, IInv, Shape
<1>5. ProjectOK(p)'
  <2>1. /\ ProjectOK(p) /\ stage'[p] = "wiping" /\ ledger'[p] = None
        /\ docs' = docs /\ disk' = disk /\ space' = space /\ led' = led
    BY DEF BeginClear, process, IInv, Shape
  <2>2. Said(None) /\ Behind(None, disk) /\ Covers(p, None, docs[p], disk)
    BY NoneIsSound DEF Behind, Covers
  <2> QED
    BY <2>1, <2>2 DEF ProjectOK
<1> QED
  BY <1>1, <1>2, <1>3, <1>4, <1>5 DEF IInv

LEMMA ClearWipeOK ==
  ASSUME IInv, NEW p \in Projects, ClearWipe(p)
  PROVE  IInv'
<1>1. LocksOK' /\ stage' \in [Projects -> Stages]
  BY StageOK DEF ClearWipe, process, Stages
<1>2. CopiedOK'
  BY StillCopied DEF ClearWipe, process, Stages
<1>3. Shape'
  BY <1>1 DEF ClearWipe, process, IInv, Shape
<1>4. ASSUME NEW r \in Projects, r # p PROVE ProjectOK(r)'
  BY <1>4, UntouchedOK DEF ClearWipe, process, IInv, Shape
<1>5. ProjectOK(p)'
  <2>1. /\ ProjectOK(p) /\ stage[p] = "wiping" /\ stage'[p] = "idle" /\ ledger[p] = None
        /\ docs'[p] = Without(docs[p], Own(p))
        /\ disk' = disk /\ space' = space /\ led' = led /\ ledger' = ledger
    BY DEF ClearWipe, process, IInv, Shape, ProjectOK
  <2>2. Held(docs'[p])
    BY <2>1, WithoutIsHeld DEF ProjectOK
  <2>3. Fits(p, docs'[p], space[p])
    BY <2>1 DEF ProjectOK, Fits, Without
  <2>4. Covers(p, None, docs'[p], disk)
    BY NoneIsSound DEF Covers
  <2> QED
    BY <2>1, <2>2, <2>3, <2>4 DEF ProjectOK
<1> QED
  BY <1>1, <1>2, <1>3, <1>4, <1>5 DEF IInv

LEMMA BeginReconcileOK ==
  ASSUME IInv, NEW p \in Projects, NEW q \in Projects, NEW m \in Models, BeginReconcile(p, q, m)
  PROVE  IInv'
<1>1. /\ p # q /\ stage[p] = "idle" /\ stage[q] = "idle"
      /\ \A r \in Projects : stage[r] \in Reconciling => dest[r] # p /\ dest[r] # q
      /\ docs' = docs /\ disk' = disk /\ ledger' = ledger /\ led' = led
      /\ todo' = todo /\ model' = model
  BY DEF BeginReconcile, Locked, Reconciling
<1>2. /\ stage' \in [Projects -> Stages] /\ stage'[p] = "copying"
      /\ \A r \in Projects \ {p} : stage'[r] = stage[r]
      /\ dest' \in [Projects -> Projects] /\ dest'[p] = q
      /\ \A r \in Projects \ {p} : dest'[r] = dest[r]
  BY DEF BeginReconcile, IInv, Shape, Stages
<1>3. /\ space' \in [Projects -> Models \cup {NULL}]
      /\ space'[q] = space[q] \/ space[q] = NULL
      /\ \A r \in Projects \ {q} : space'[r] = space[r]
  BY DEF BeginReconcile, IInv, Shape
<1>4. Shape'
  <2>1. faults' \in 0 .. MaxFaults
    BY IngestAssumption DEF BeginReconcile, Fault, IInv, Shape
  <2> QED
    BY <1>1, <1>2, <1>3, <2>1 DEF IInv, Shape
<1>5. LocksOK'
  <2> SUFFICES ASSUME NEW r \in Projects, stage'[r] \in Reconciling
               PROVE  /\ dest'[r] # r
                      /\ stage'[dest'[r]] = "idle"
                      /\ \A s \in Projects \ {r} : stage'[s] \in Reconciling => dest'[s] # dest'[r]
    BY DEF LocksOK
  <2>1. CASE r = p
    BY <1>1, <1>2, <2>1
  <2>2. CASE r # p
    <3>1. stage[r] \in Reconciling /\ dest'[r] = dest[r] /\ dest[r] # p /\ dest[r] # q
      BY <1>1, <1>2, <2>2
    <3>2. /\ dest[r] # r /\ dest[r] \in Projects /\ stage[dest[r]] = "idle"
          /\ \A s \in Projects \ {r} : stage[s] \in Reconciling => dest[s] # dest[r]
      BY <3>1 DEF IInv, LocksOK, Shape
    <3> QED
      BY <1>2, <3>1, <3>2
  <2> QED
    BY <2>1, <2>2
<1>6. CopiedOK'
  BY <1>1, <1>2 DEF IInv, CopiedOK
<1>7. ASSUME NEW r \in Projects PROVE ProjectOK(r)'
  <2>1. ProjectOK(r)
    BY DEF IInv
  <2>2. Fits(r, docs[r], space'[r])
    BY <1>3, <2>1 DEF ProjectOK, Fits
  <2>3. stage'[r] = "ingesting" => stage[r] = "ingesting" /\ space'[r] = space[r]
    BY <1>1, <1>2, <1>3
  <2>4. stage'[r] \in {"wiping", "rewiping"} => stage[r] \in {"wiping", "rewiping"}
    BY <1>1, <1>2
  <2> QED
    BY <1>1, <2>1, <2>2, <2>3, <2>4 DEF ProjectOK
<1> QED
  BY <1>4, <1>5, <1>6, <1>7 DEF IInv

LEMMA CopyForeignOK ==
  ASSUME IInv, NEW p \in Projects, CopyForeign(p)
  PROVE  IInv'
<1> DEFINE q == dest[p]
           moved == Foreign(p, q)
           d == [f \in DOMAIN docs[q] \cup moved |->
                   IF f \in DOMAIN docs[q] THEN docs[q][f] ELSE docs[p][f]]
<1>1. /\ stage[p] = "copying" /\ q # p /\ q \in Projects /\ stage[q] = "idle"
      /\ disk' = disk /\ space' = space /\ ledger' = ledger /\ led' = led /\ todo' = todo
      /\ model' = model /\ dest' = dest /\ faults' = faults
  BY DEF CopyForeign, process, IInv, LocksOK, Shape, Reconciling
<1>2. /\ docs' = [docs EXCEPT ![q] = d]
      /\ stage' = [stage EXCEPT ![p] = "deleting"]
      /\ \A f \in moved \cap DOMAIN docs[q] : docs[q][f].text = docs[p][f].text
  BY DEF CopyForeign
<1>3. LocksOK' /\ stage' \in [Projects -> Stages]
  BY <1>1, <1>2, StageOK DEF Stages
<1>4. Shape'
  BY <1>1, <1>2, <1>3 DEF IInv, Shape
<1>5. docs'[q] = d /\ stage'[q] = "idle" /\ \A r \in Projects \ {q} : docs'[r] = docs[r]
  BY <1>1, <1>2 DEF IInv, Shape
<1>6. stage'[p] = "deleting" /\ \A r \in Projects \ {p} : stage'[r] = stage[r]
  BY <1>2 DEF IInv, Shape
<1>7. moved = DOMAIN docs[p] \cap Own(q)
  BY DEF Foreign
<1> HIDE DEF moved
<1>8. /\ DOMAIN d = DOMAIN docs[q] \cup moved
      /\ \A f \in DOMAIN docs[q] : d[f] = docs[q][f]
      /\ \A f \in moved : d[f].text = docs[p][f].text
      /\ \A f \in moved \ DOMAIN docs[q] : d[f] = docs[p][f]
  BY <1>2
<1>9. Held(d)
  <2>1. Held(docs[q]) /\ Held(docs[p])
    BY <1>1 DEF IInv, ProjectOK
  <2>2. \A f \in DOMAIN docs[q] \cup moved : f \in Files /\ d[f] \in Doc
    BY <1>7, <1>8, <2>1 DEF Held
  <2>3. d \in [DOMAIN d -> Doc]
    BY <1>8, <2>2
  <2> QED
    BY <1>8, <2>2, <2>3 DEF Held
<1> HIDE DEF d
<1>10. ASSUME NEW r \in Projects, r = q PROVE ProjectOK(r)'
  <2>1. ProjectOK(q)
    BY <1>1 DEF IInv
  <2>2. Covers(q, ledger[q], d, disk)
    BY <1>8, <2>1 DEF ProjectOK, Covers
  <2>3. Fits(q, d, space[q])
    BY <1>7, <1>8, <2>1 DEF ProjectOK, Fits
  <2> QED
    BY <1>1, <1>5, <1>9, <1>10, <2>1, <2>2, <2>3 DEF ProjectOK
<1>11. ProjectOK(p)'
  BY <1>1, <1>5, <1>6 DEF IInv, ProjectOK
<1>12. ASSUME NEW r \in Projects, r # p, r # q PROVE ProjectOK(r)'
  BY <1>1, <1>5, <1>6, <1>12, UntouchedOK DEF IInv
<1>13. CopiedOK'
  <2> SUFFICES ASSUME NEW r \in Projects, stage'[r] = "deleting"
               PROVE  Copied(docs'[r], docs'[dest[r]], dest[r])
    BY <1>1 DEF CopiedOK
  <2>1. CASE r = p
    BY <1>1, <1>5, <1>7, <1>8, <2>1 DEF Copied
  <2>2. CASE r # p
    <3>1. stage[r] = "deleting" /\ r # q
      BY <1>1, <1>6, <2>2
    <3>2. dest[r] # q /\ dest[r] \in Projects
      BY <1>1, <2>2, <3>1 DEF IInv, LocksOK, Shape, Reconciling
    <3> QED
      BY <1>5, <3>1, <3>2 DEF IInv, CopiedOK
  <2> QED
    BY <2>1, <2>2
<1> QED
  BY <1>3, <1>4, <1>10, <1>11, <1>12, <1>13 DEF IInv

\* A command that gives up or dies leaves the stores as they are.
LEMMA GiveUpOK ==
  ASSUME IInv, NEW p \in Projects, UNCHANGED stores, UNCHANGED <<model, dest>>,
         stage' = [stage EXCEPT ![p] = "idle"],
         \/ UNCHANGED <<todo, led>>
         \/ todo' = [todo EXCEPT ![p] = {}] /\ led' = [led EXCEPT ![p] = None],
         faults' \in 0 .. MaxFaults
  PROVE  IInv'
<1>1. LocksOK' /\ stage' \in [Projects -> Stages]
  BY StageOK DEF Stages
<1>2. CopiedOK'
  BY StillCopied DEF stores, Stages
<1>3. Shape'
  BY <1>1 DEF IInv, Shape, stores
<1>4. ASSUME NEW r \in Projects, r # p PROVE ProjectOK(r)'
  BY <1>4, UntouchedOK DEF IInv, Shape, stores
<1>5. ProjectOK(p)'
  <2>1. /\ ProjectOK(p) /\ stage'[p] = "idle" /\ led'[p] \in {led[p], None}
        /\ docs' = docs /\ disk' = disk /\ space' = space /\ ledger' = ledger
    BY DEF IInv, Shape, stores
  <2>2. Said(None) /\ Behind(None, disk)
    BY NoneIsSound DEF Behind
  <2> QED
    BY <2>1, <2>2 DEF ProjectOK
<1> QED
  BY <1>1, <1>2, <1>3, <1>4, <1>5 DEF IInv

LEMMA DeleteForeignOK ==
  ASSUME IInv, NEW p \in Projects, DeleteForeign(p)
  PROVE  IInv'
<1>1. /\ stage[p] = "deleting" /\ dest[p] # p /\ dest[p] \in Projects
      /\ disk' = disk /\ space' = space /\ ledger' = ledger /\ led' = led /\ todo' = todo
      /\ model' = model /\ dest' = dest /\ faults' = faults
  BY DEF DeleteForeign, process, IInv, LocksOK, Shape, Reconciling
<1>2. LocksOK' /\ stage' \in [Projects -> Stages]
  BY StageOK DEF DeleteForeign, process, Stages
<1>3. CopiedOK'
  BY StillCopied DEF DeleteForeign, process, Stages
<1>4. Shape'
  BY <1>1, <1>2 DEF DeleteForeign, IInv, Shape
<1>5. ASSUME NEW r \in Projects, r # p PROVE ProjectOK(r)'
  BY <1>1, <1>5, UntouchedOK DEF DeleteForeign, IInv, Shape
<1>6. ProjectOK(p)'
  <2>1. /\ ProjectOK(p) /\ stage'[p] = "idle"
        /\ docs'[p] = Without(docs[p], Own(dest[p]))
    BY DEF DeleteForeign, IInv, Shape
  <2>2. Held(docs'[p])
    BY <2>1, WithoutIsHeld DEF ProjectOK
  <2>3. Fits(p, docs'[p], space[p])
    BY <2>1 DEF ProjectOK, Fits, Without
  <2>4. Own(p) \cap Own(dest[p]) = {}
    BY <1>1 DEF Own
  <2>5. Covers(p, ledger[p], docs'[p], disk)
    BY <2>1, <2>4 DEF ProjectOK, Covers, Without
  <2> QED
    BY <1>1, <2>1, <2>2, <2>3, <2>5 DEF ProjectOK
<1> QED
  BY <1>2, <1>3, <1>4, <1>5, <1>6 DEF IInv

-----------------------------------------------------------------------------
(* The theorems. *)

LEMMA InitOK == Init => IInv
<1> SUFFICES ASSUME Init PROVE IInv
  OBVIOUS
<1>1. Shape
  BY IngestAssumption DEF Init, Shape, Stages
<1>2. ASSUME NEW p \in Projects PROVE ProjectOK(p)
  <2>1. /\ docs[p] = None /\ ledger[p] = None /\ led[p] = None /\ stage[p] = "idle"
    BY DEF Init
  <2> QED
    BY <2>1, NoneIsSound DEF ProjectOK, Behind, Covers, Fits
<1>3. LocksOK /\ CopiedOK
  BY DEF Init, LocksOK, CopiedOK, Reconciling
<1> QED
  BY <1>1, <1>2, <1>3 DEF IInv

LEMMA StepOK == IInv /\ [Next]_vars => IInv'
<1> SUFFICES ASSUME IInv, [Next]_vars PROVE IInv'
  OBVIOUS
<1>1. CASE \E f \in Files : Append(f)
  BY <1>1, AppendOK
<1>2. ASSUME NEW p \in Projects, Build(p) PROVE IInv'
  <2>1. CASE \E m \in Models : BeginBuild(p, m) \/ BeginReembed(p, m)
    BY <2>1, BeginBuildOK, BeginReembedOK
  <2>2. CASE ReembedWipe(p)
    BY <2>2, ReembedWipeOK
  <2>3. CASE \E f \in Files : SkipFile(p, f) \/ EmbedFails(p, f)
    BY <2>3, PassedOverOK DEF SkipFile, EmbedFails
  <2>4. CASE \E f \in Files, ok \in BOOLEAN : IngestFile(p, f, ok)
    BY <2>4, IngestFileOK
  <2>5. CASE SaveLedger(p)
    BY <2>5, SaveLedgerOK
  <2> QED
    BY <1>2, <2>1, <2>2, <2>3, <2>4, <2>5 DEF Build
<1>3. ASSUME NEW p \in Projects, Clear(p) PROVE IInv'
  BY <1>3, BeginClearOK, ClearWipeOK DEF Clear
<1>4. ASSUME NEW p \in Projects, Reconcile(p) PROVE IInv'
  <2>1. CASE \E q \in Projects, m \in Models : BeginReconcile(p, q, m)
    BY <2>1, BeginReconcileOK
  <2>2. CASE CopyForeign(p)
    BY <2>2, CopyForeignOK
  <2>3. CASE RefuseConflict(p)
    <3>1. faults' \in 0 .. MaxFaults
      BY <2>3 DEF RefuseConflict, IInv, Shape
    <3> QED
      BY <2>3, <3>1, GiveUpOK DEF RefuseConflict, process
  <2>4. CASE DeleteForeign(p)
    BY <2>4, DeleteForeignOK
  <2> QED
    BY <1>4, <2>1, <2>2, <2>3, <2>4 DEF Reconcile
<1>5. ASSUME NEW p \in Projects, Crash(p) PROVE IInv'
  <2>1. faults' \in 0 .. MaxFaults
    BY <1>5, IngestAssumption DEF Crash, Fault, IInv, Shape
  <2> QED
    BY <1>5, <2>1, GiveUpOK DEF Crash
<1>6. CASE UNCHANGED vars
  BY <1>6 DEF vars, IInv, Shape, ProjectOK, LocksOK, CopiedOK
<1> QED
  BY <1>1, <1>2, <1>3, <1>4, <1>5, <1>6 DEF Next

LEMMA SpecIInv == Spec => []IInv
BY InitOK, StepOK, PTL DEF Spec

\* Every store, ledger and process has its type, whatever commands run.
THEOREM TypeOKTheorem == Spec => []TypeOK
<1>1. IInv => TypeOK
  BY DEF IInv, Shape, ProjectOK, Held, Said, TypeOK
<1> QED
  BY <1>1, SpecIInv, PTL

\* "so the ledger never hides stale searchable text": whatever commands are
\* run on a store, and wherever they die, what its ledger says is done is there.
THEOREM OwnLedgerIsTrueTheorem == Spec => []OwnLedgerIsTrue
<1>1. IInv => OwnLedgerIsTrue
  BY DEF IInv, ProjectOK, Covers, OwnLedgerIsTrue, Current
<1> QED
  BY <1>1, SpecIInv, PTL

\* Changes of the embedding model never leave family documents in a foreign
\* vector space: a build of another model is refused or wipes all of them.
THEOREM FamilyVectorsFitTheorem == Spec => []FamilyVectorsFit
<1>1. IInv => FamilyVectorsFit
  BY DEF IInv, ProjectOK, Fits, FamilyVectorsFit
<1> QED
  BY <1>1, SpecIInv, PTL

\* No build, crash or reconciliation loses a document: one that leaves a store
\* was wiped by a clear or a re-embed, or is in its owner's store.
THEOREM OnlyWipesLoseTheorem == Spec => OnlyWipesLose
<1> DEFINE Lost(p, f) ==
      \/ stage[p] \in {"wiping", "rewiping"}
      \/ \E q \in Projects \ {p} : f \in DOMAIN docs'[q] /\ docs'[q][f].text = docs[p][f].text
<1>1. IInv /\ [Next]_vars =>
        [\A p \in Projects : \A f \in DOMAIN docs[p] \ DOMAIN docs'[p] : Lost(p, f)]_vars
  <2> SUFFICES ASSUME IInv, [Next]_vars,
                      NEW p \in Projects, NEW f \in DOMAIN docs[p] \ DOMAIN docs'[p]
               PROVE  Lost(p, f)
    OBVIOUS
  <2>1. CASE docs' = docs
    BY <2>1
  \* A visited file's document is replaced, the others stay.
  <2>2. ASSUME NEW r \in Projects, NEW g \in Files, NEW ok \in BOOLEAN, IngestFile(r, g, ok)
        PROVE  Lost(p, f)
    <3>1. Shape /\ Held(docs[r]) /\ disk[g] \in Versions
      BY <2>2, VisitFacts DEF IngestFile, IInv, ProjectOK
    <3>2. DOMAIN Replaced(r, g) = DOMAIN docs[r] \cup {g}
      BY <3>1, ReplacedFacts
    <3>3. docs'[p] = docs[p] \/ (r = p /\ docs'[p] = Replaced(r, g))
      BY <2>2 DEF IngestFile, IInv, Shape
    <3> QED
      BY <3>2, <3>3
  <2>3. ASSUME NEW r \in Projects, ReembedWipe(r) \/ ClearWipe(r)
        PROVE  Lost(p, f)
    BY <2>3 DEF ReembedWipe, ClearWipe, IInv, Shape
  <2>4. ASSUME NEW r \in Projects, CopyForeign(r)
        PROVE  Lost(p, f)
    BY <2>4 DEF CopyForeign, IInv, Shape
  \* What the source deletes, the owner's store has a copy of.
  <2>5. ASSUME NEW r \in Projects, DeleteForeign(r)
        PROVE  Lost(p, f)
    <3>1. r = p /\ f \in Own(dest[p])
      BY <2>5 DEF DeleteForeign, Without, IInv, Shape
    <3>2. /\ dest[p] \in Projects \ {p} /\ Copied(docs[p], docs[dest[p]], dest[p])
          /\ docs'[dest[p]] = docs[dest[p]]
      BY <2>5, <3>1 DEF DeleteForeign, IInv, Shape, LocksOK, CopiedOK, Reconciling
    <3> QED
      BY <3>1, <3>2 DEF Copied
  <2> QED
    BY <2>1, <2>2, <2>3, <2>4, <2>5
    DEF Next, Build, Clear, Reconcile, Append, BeginBuild, BeginReembed, SkipFile, EmbedFails,
        SaveLedger, BeginClear, BeginReconcile, RefuseConflict, Crash, stores, vars
<1> QED
  BY <1>1, SpecIInv, PTL DEF Spec, OnlyWipesLose
=============================================================================
