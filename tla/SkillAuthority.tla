---------------------------- MODULE SkillAuthority ----------------------------
(***************************************************************************)
(* The canonical document "skill:<name>" of one skill in one project's     *)
(* store, chosen among the bodies of that skill that the session files     *)
(* carry.  ingest_transcripts visits the files in no particular order; a   *)
(* file's content is read first and its mtime afterwards, and its agent    *)
(* may append in between.  Only one build runs at a time (mutation_lock).  *)
(*                                                                         *)
(* Abstracted: a body is its hash, a number; times are natural numbers.    *)
(* Files only grow, and every append sets the mtime.                       *)
(***************************************************************************)
EXTENDS Naturals

CONSTANTS
  Sources,    \* session files of the family
  Bodies,     \* hashes of the bodies of the skill
  MaxTime,    \* bound on the clock
  MaxAppends, \* bound on the appends to a file
  MaxHarms    \* bound on crashes and wipes

ASSUME AuthorityAssumption ==
  /\ Bodies \subseteq Nat
  /\ MaxTime \in Nat /\ MaxAppends \in Nat /\ MaxHarms \in Nat

VARIABLES
  body,    \* body[f]: the bodies f carries
  rev,     \* rev[f]: how often f was appended to; its digest
  mtime,   \* mtime[f]
  clock,   \* the latest mtime of all
  doc,     \* the stored skill document
  ledger,  \* the digest each file was last ingested at, on disk
  phase,   \* what the build does next
  led,     \* the build's copy of the ledger
  todo,    \* files it has still to visit
  hand,    \* the file in hand: its digest, bodies still to place, mtime
  harms

skillVars == <<body, rev, mtime, clock, doc, ledger, phase, led, todo, hand, harms>>
files == <<body, rev, mtime, clock>>

Phases == {"idle", "next", "stat", "place", "wipe"}
Unknown == 0  \* no source_mtime_ns in the metadata
NoLedger == [f \in {} |-> 0]
EmptyHand == [of |-> {}, digest |-> 0, bodies |-> {}, time |-> 0, failed |-> FALSE]

\* At most one document; one written by an earlier release may lack its
\* authority, or its vector.
Doc == [hash : Bodies, mtime : 0 .. MaxTime, complete : BOOLEAN]

SkillTypeOK ==
  /\ body \in [Sources -> SUBSET Bodies]
  /\ rev \in [Sources -> 0 .. MaxAppends]
  /\ mtime \in [Sources -> 0 .. MaxTime]
  /\ clock \in 0 .. MaxTime
  /\ doc \in {{}} \cup {{d} : d \in Doc}
  /\ \A l \in {ledger, led} :
       DOMAIN l \subseteq Sources /\ l \in [DOMAIN l -> 0 .. MaxAppends]
  /\ phase \in Phases
  /\ todo \in SUBSET Sources
  /\ hand \in [of : SUBSET Sources, digest : 0 .. MaxAppends, bodies : SUBSET Bodies,
               time : 0 .. MaxTime, failed : BOOLEAN]
  /\ harms \in 0 .. MaxHarms

-----------------------------------------------------------------------------

\* (mtime, hash) pairs in lexicographic order.
Outranks(a, b) == a.mtime > b.mtime \/ (a.mtime = b.mtime /\ a.hash > b.hash)

\* An agent appends to f, with another body or without.
Grow(f) ==
  /\ rev[f] < MaxAppends
  /\ \E S \in {{}} \cup {{b} : b \in Bodies} : body' = [body EXCEPT ![f] = @ \cup S]
  /\ rev' = [rev EXCEPT ![f] = @ + 1]
  /\ clock' \in {clock, clock + 1} \cap 1 .. MaxTime
  /\ mtime' = [mtime EXCEPT ![f] = clock']
  /\ UNCHANGED <<doc, ledger, phase, led, todo, hand, harms>>

BeginBuild ==
  /\ phase = "idle"
  /\ phase' = "next"
  /\ led' = ledger
  /\ todo' = {f \in Sources : rev[f] # 0}
  /\ UNCHANGED <<files, doc, ledger, hand, harms>>

\* A file at its ledger digest is passed over.
Skip(f) ==
  /\ phase = "next"
  /\ f \in todo
  /\ f \in DOMAIN led /\ led[f] = rev[f]
  /\ todo' = todo \ {f}
  /\ UNCHANGED <<files, doc, ledger, phase, led, hand, harms>>

\* One read gives the digest and the pages.
Read(f) ==
  /\ phase = "next"
  /\ f \in todo
  /\ ~(f \in DOMAIN led /\ led[f] = rev[f])
  /\ phase' = "stat"
  /\ todo' = todo \ {f}
  /\ hand' = [of |-> {f}, digest |-> rev[f], bodies |-> body[f], time |-> 0, failed |-> FALSE]
  /\ UNCHANGED <<files, doc, ledger, led, harms>>

\* fpath.stat(), some time after the read.
Stat(f) ==
  /\ phase = "stat"
  /\ f \in hand.of
  /\ phase' = "place"
  /\ hand' = [hand EXCEPT !.time = mtime[f]]
  /\ UNCHANGED <<files, doc, ledger, led, todo, harms>>

\* What becomes of the stored document when the file in hand offers body b:
\* an equal body only takes the candidate's authority when that is higher, a
\* complete one stays unless the candidate outranks it, and anything else is
\* replaced, which takes the embedder.
Candidate(b) == [hash |-> b, mtime |-> hand.time, complete |-> TRUE]

Kept(b) ==
  {d \in doc : d.complete /\ (d.hash = b \/ ~Outranks(Candidate(b), d))}

\* Raised mutated: an equal body never changes the recorded authority.
RaisedNever(b, d) == d

Raised(b, d) ==
  IF d.hash = b /\ Outranks(Candidate(b), d) THEN Candidate(b) ELSE d

Offer(b) ==
  /\ phase = "place"
  /\ b \in hand.bodies
  /\ UNCHANGED <<files, ledger, phase, led, todo, harms>>

Dedupe(b) ==
  /\ Offer(b)
  /\ Kept(b) # {}
  /\ doc' = {Raised(b, d) : d \in doc}
  /\ hand' = [hand EXCEPT !.bodies = @ \ {b}]

ReplaceBody(b) ==
  /\ Offer(b)
  /\ Kept(b) = {}
  /\ doc' = {Candidate(b)}
  /\ hand' = [hand EXCEPT !.bodies = @ \ {b}]

EmbedFails(b) ==
  /\ Offer(b)
  /\ Kept(b) = {}
  /\ hand' = [hand EXCEPT !.bodies = @ \ {b}, !.failed = TRUE]
  /\ UNCHANGED doc

\* FinishFile mutated: the file is checkpointed although a body failed.
FinishFileAnyway(f) ==
  /\ phase = "place"
  /\ f \in hand.of
  /\ hand.bodies = {}
  /\ phase' = "next"
  /\ led' = [g \in DOMAIN led \cup {f} |-> IF g = f THEN hand.digest ELSE led[g]]
  /\ hand' = EmptyHand
  /\ UNCHANGED <<files, doc, ledger, todo, harms>>

\* The file is checkpointed unless one of its bodies failed to embed.
FinishFile(f) ==
  /\ phase = "place"
  /\ f \in hand.of
  /\ hand.bodies = {}
  /\ phase' = "next"
  /\ led' = IF hand.failed THEN led
            ELSE [g \in DOMAIN led \cup {f} |-> IF g = f THEN hand.digest ELSE led[g]]
  /\ hand' = EmptyHand
  /\ UNCHANGED <<files, doc, ledger, todo, harms>>

SaveLedger ==
  /\ phase = "next"
  /\ todo = {}
  /\ ledger' = led
  /\ phase' = "idle"
  /\ led' = NoLedger
  /\ UNCHANGED <<files, doc, todo, hand, harms>>

Fault == harms < MaxHarms /\ harms' = harms + 1

\* clear and build --reembed: the ledger first, then the documents.
BeginWipe ==
  /\ phase = "idle"
  /\ Fault
  /\ ledger' = NoLedger
  /\ phase' = "wipe"
  /\ UNCHANGED <<files, doc, led, todo, hand>>

Wipe ==
  /\ phase = "wipe"
  /\ doc' = {}
  /\ phase' = "idle"
  /\ UNCHANGED <<files, ledger, led, todo, hand, harms>>

Crash ==
  /\ phase # "idle"
  /\ Fault
  /\ phase' = "idle"
  /\ led' = NoLedger
  /\ todo' = {}
  /\ hand' = EmptyHand
  /\ UNCHANGED <<files, doc, ledger>>

SkillInit ==
  /\ body = [f \in Sources |-> {}]
  /\ rev = [f \in Sources |-> 0]
  /\ mtime = [f \in Sources |-> 0]
  /\ clock = 0
  /\ doc \in {{}} \cup {{[hash |-> b, mtime |-> Unknown, complete |-> c]} :
                          b \in Bodies, c \in BOOLEAN}
  /\ ledger = NoLedger
  /\ phase = "idle"
  /\ led = NoLedger
  /\ todo = {}
  /\ hand = EmptyHand
  /\ harms = 0

Step ==
  \/ BeginBuild
  \/ \E f \in Sources : Skip(f) \/ Read(f) \/ Stat(f) \/ FinishFile(f)
  \/ \E b \in Bodies : Dedupe(b) \/ ReplaceBody(b) \/ EmbedFails(b)
  \/ SaveLedger
  \/ Wipe

SkillNext == Step \/ (\E f \in Sources : Grow(f)) \/ BeginWipe \/ Crash

SkillSpec == SkillInit /\ [][SkillNext]_skillVars

\* Scheduled builds recur and go on, and the embedder answers again and again.
SkillFairSpec ==
  /\ SkillSpec
  /\ WF_skillVars(Step)
  /\ \A b \in Bodies : SF_skillVars(ReplaceBody(b))

-----------------------------------------------------------------------------

Candidates ==
  UNION {{[hash |-> b, mtime |-> mtime[f], complete |-> TRUE] : b \in body[f]} : f \in Sources}

Canonical(d) == d \in Candidates /\ \A c \in Candidates : ~Outranks(c, d)

\* "re-ingesting the same transcript set in any order converges on the same
\* canonical body" (transcript_ingest.py:470): once the ledger covers every
\* file as it is, the stored body is the highest-ranked of them all, in
\* whatever order, with whatever appends, failures and crashes, it got there.
ConvergesOnCanonical ==
  (\A f \in Sources : rev[f] # 0 => f \in DOMAIN ledger /\ ledger[f] = rev[f])
  /\ Candidates # {} /\ phase # "wipe"
    => \E d \in doc : Canonical(d)

\* A body that could not be embedded is tried again until the canonical one is
\* stored for good.
EventuallyCanonical ==
  <>[](Candidates # {} => \E d \in doc : Canonical(d))
=============================================================================
