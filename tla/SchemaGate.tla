------------------------------ MODULE SchemaGate -------------------------------
(***************************************************************************)
(* Opening a braincell.db: SqliteStore.assert_schema_version, run by every *)
(* process that opens the store (MCP server, GUI, CLI), at any time, on a  *)
(* fresh file or one of an older release.                                  *)
(*                                                                         *)
(* What makes it hard: sqlite3 commits each CREATE and ALTER by itself     *)
(* until a first UPDATE opens a transaction, and what was read before that *)
(* is not read again inside it.  So a step here is what one commit makes   *)
(* visible, or one read outside of a transaction; siblings and crashes     *)
(* come in between.                                                        *)
(*                                                                         *)
(* Abstracted: a note is its identity, its lifecycle columns and the       *)
(* embedding space of its vector.  Stores of version 1 and 2 differ from   *)
(* version 3 by one more block of the same kind and are left out.  No lock *)
(* is waited for beyond the busy timeout.  Two equal rows in               *)
(* schema_version (two stamps of a fresh store) are one.  The writers are  *)
(* those of one note; merges and undo are in NoteStore, documents in       *)
(* TranscriptIngest.                                                       *)
(***************************************************************************)
EXTENDS Naturals, Sequences, FiniteSets

CONSTANTS
  Procs,    \* processes
  Spaces,   \* embedding spaces, one per configuration of the embedder
  Releases, \* the versions a store may have at first, 0 for a fresh file
  Resets,   \* does anyone run build --reembed?
  MaxNotes, \* bound on the row ids of notes
  MaxUid,   \* bound on the identities minted by writers
  MaxCrash  \* bound on the crashes

ASSUME GateAssumption ==
  /\ Releases \subseteq {0, 3, 4, 5, 6, 7}
  /\ Resets \in BOOLEAN
  /\ MaxNotes \in Nat /\ MaxUid \in Nat /\ MaxCrash \in Nat

VARIABLES
  version,      \* schema_version, 0 before the stamp
  columns,      \* the columns that releases added to the tables
  cascade,      \* has bc_note_links its ON DELETE CASCADE?
  notes,        \* memory_notes
  links,        \* bc_note_links
  fingerprints, \* embed_fingerprint, in rowid order
  nextUid,
  proc,         \* proc[p]: where p is in assert_schema_version, and its locals
  crashes

vars == <<version, columns, cascade, notes, links, fingerprints, nextUid, proc, crashes>>

NULL == 0           \* of an id
None == "none"      \* of a status or a space
Current == 6 \* MEMORY_SCHEMA_VERSION
NoteIds == 1 .. MaxNotes
Uids == 1 .. MaxUid + MaxNotes * Cardinality(Procs) \* every process may backfill once

\* The ALTERs of a migration: what it adds to stores below a version, block by
\* block; each block looks once at the columns there are.
Ladder ==
  <<[below |-> 4, adds |-> <<"note_uid", "revision", "pooled_from">>],
    [below |-> 4, adds |-> <<"documents.pooled_from">>],
    [below |-> 6, adds |-> <<"status">>]>>

AllColumns == {"note_uid", "revision", "pooled_from", "documents.pooled_from", "status"}

ColumnsOf(v) ==
  IF v < 4 THEN {} ELSE IF v < 6 THEN AllColumns \ {"status"} ELSE AllColumns

Note ==
  [uid : Uids \cup {NULL}, dead : BOOLEAN, by : NoteIds \cup {NULL},
   status : {"active", "superseded", "tombstoned", None}, space : Spaces \cup {None}]

Process ==
  [at : {"closed", "creating", "reading", "looking", "altering", "listing", "migrating",
         "stamping", "checking", "stamping space", "refused", "open"},
   space : Spaces \cup {None},
   stored : Releases \cup {0, Current}, \* the version it has read
   block : 0 .. Len(Ladder),            \* the block of the ladder it is at
   saw : SUBSET AllColumns,             \* the columns it has seen, or has added
   uidless : SUBSET NoteIds]            \* the notes without a uid that it has listed

Idle == [at |-> "closed", space |-> None, stored |-> 0, block |-> 0, saw |-> {}, uidless |-> {}]

TypeOK ==
  /\ version \in Releases \cup {Current}
  /\ columns \subseteq AllColumns
  /\ cascade \in BOOLEAN
  /\ DOMAIN notes \subseteq NoteIds /\ \A n \in DOMAIN notes : notes[n] \in Note
  /\ links \subseteq NoteIds \X NoteIds
  /\ fingerprints \in Seq(Spaces) /\ Len(fingerprints) <= Cardinality(Procs)
  /\ nextUid - 1 \in {0} \cup Uids
  /\ \A p \in Procs : proc[p] \in Process
  /\ crashes \in 0 .. MaxCrash

-----------------------------------------------------------------------------
(* assert_schema_version *)

\* A process starts, or tries again.
Open(p, s) ==
  /\ proc[p].at = "closed"
  /\ proc' = [proc EXCEPT ![p].at = "creating", ![p].space = s]
  /\ UNCHANGED <<version, columns, cascade, notes, links, fingerprints, nextUid, crashes>>

\* The CREATE IF NOT EXISTS statements.
CreateTables(p) ==
  /\ proc[p].at = "creating"
  /\ columns' = IF version = 0 THEN AllColumns ELSE columns
  /\ cascade' = (cascade \/ version = 0)
  /\ proc' = [proc EXCEPT ![p].at = "reading"]
  /\ UNCHANGED <<version, notes, links, fingerprints, nextUid, crashes>>

\* A version above the current one is refused.
ReadVersion(p) ==
  /\ proc[p].at = "reading"
  /\ \/ version = 0 /\ proc' = [proc EXCEPT ![p].at = "stamping"]
     \/ /\ 0 < version /\ version < Current
        /\ proc' = [proc EXCEPT ![p].at = "looking", ![p].stored = version,
                                ![p].block = IF version < 4 THEN 1 ELSE 3]
     \/ version = Current /\ proc' = [proc EXCEPT ![p].at = "checking"]
     \/ version > Current /\ proc' = [proc EXCEPT ![p] = Idle]
  /\ UNCHANGED <<version, columns, cascade, notes, links, fingerprints, nextUid, crashes>>

\* Look mutated: every column is taken to be missing.
LookAway(p) ==
  /\ proc[p].at = "looking"
  /\ proc' = [proc EXCEPT ![p].at = "altering", ![p].saw = {}]
  /\ UNCHANGED <<version, columns, cascade, notes, links, fingerprints, nextUid, crashes>>

\* PRAGMA table_info
Look(p) ==
  /\ proc[p].at = "looking"
  /\ proc' = [proc EXCEPT ![p].at = "altering", ![p].saw = columns]
  /\ UNCHANGED <<version, columns, cascade, notes, links, fingerprints, nextUid, crashes>>

\* The column of the block to be added next, if any is missing.
Missing(p) ==
  LET adds == Ladder[proc[p].block].adds
  IN  {adds[i] : i \in {j \in DOMAIN adds : /\ adds[j] \notin proc[p].saw
                                          /\ \A k \in 1 .. j - 1 : adds[k] \in proc[p].saw}}

\* ALTER TABLE ADD COLUMN, with its default for the rows there are.
AlterTable(p) ==
  /\ proc[p].at = "altering"
  /\ \E c \in Missing(p) :
       /\ c \notin columns
       /\ columns' = columns \cup {c}
       /\ notes' = IF c = "status"
                   THEN [n \in DOMAIN notes |-> [notes[n] EXCEPT !.status = "active"]]
                   ELSE notes
       /\ proc' = [proc EXCEPT ![p].saw = @ \cup {c}]
  /\ UNCHANGED <<version, cascade, links, fingerprints, nextUid, crashes>>

\* "duplicate column name": a sibling has added it since, and the open fails.
AlterFails(p) ==
  /\ proc[p].at = "altering"
  /\ \E c \in Missing(p) : c \in columns
  /\ proc' = [proc EXCEPT ![p] = Idle]
  /\ UNCHANGED <<version, columns, cascade, notes, links, fingerprints, nextUid, crashes>>

\* On to the next block, to the backfill, or to the transaction.
BlockDone(p) ==
  /\ proc[p].at = "altering"
  /\ Missing(p) = {}
  /\ proc' = [proc EXCEPT ![p].at = <<"looking", "listing", "migrating">>[proc[p].block],
                          ![p].block = IF @ = 1 THEN 2 ELSE 0,
                          ![p].saw = {}]
  /\ UNCHANGED <<version, columns, cascade, notes, links, fingerprints, nextUid, crashes>>

\* The SELECT of _backfill_note_uids, outside of any transaction.
ListUidless(p) ==
  /\ proc[p].at = "listing"
  /\ proc' = [proc EXCEPT ![p].at = "migrating",
                          ![p].uidless = {n \in DOMAIN notes : notes[n].uid = NULL}]
  /\ UNCHANGED <<version, columns, cascade, notes, links, fingerprints, nextUid, crashes>>

\* Derived mutated: superseded dominates.
DerivedLastFirst(note) ==
  IF note.by # NULL THEN "superseded" ELSE IF note.dead THEN "tombstoned" ELSE "active"

\* What the columns of old say of a note's status.
Derived(note) ==
  IF note.dead THEN "tombstoned" ELSE IF note.by # NULL THEN "superseded" ELSE "active"

\* _backfill_note_uids: an UPDATE for every id that was listed.
Backfilled(ns, S) ==
  [n \in DOMAIN ns |-> IF n \in S THEN [ns[n] EXCEPT !.uid = nextUid + n - 1] ELSE ns[n]]

\* _clear_dangling_supersessions
Cleared(ns) ==
  [n \in DOMAIN ns |-> [ns[n] EXCEPT !.by = IF @ \in DOMAIN ns THEN @ ELSE NULL]]

Restamped(ns) == [n \in DOMAIN ns |-> [ns[n] EXCEPT !.status = Derived(ns[n])]]

\* NewVersion mutated: as many up as the ladder had steps for p.
NewVersionCounting(p) == version + (Current - proc[p].stored)

NewVersion(p) == Current

\* The transaction from the first UPDATE to the commit of the version.
Migrate(p) ==
  LET old == proc[p].stored < 4
      S == proc[p].uidless
  IN  /\ proc[p].at = "migrating"
      /\ nextUid' = IF S = {} THEN nextUid ELSE nextUid + MaxNotes
      /\ notes' = Restamped(IF old THEN Cleared(Backfilled(notes, S)) ELSE notes)
      /\ links' = IF old /\ ~cascade
                  THEN links \cap ((DOMAIN notes) \X (DOMAIN notes)) ELSE links
      /\ cascade' = (cascade \/ old)
      /\ columns' = columns \cup {"status"}
      /\ version' = NewVersion(p)
      /\ proc' = [proc EXCEPT ![p].at = "checking", ![p].stored = 0, ![p].uidless = {}]
      /\ UNCHANGED <<fingerprints, crashes>>

\* The stamp of a fresh store.
Stamp(p) ==
  /\ proc[p].at = "stamping"
  /\ version' = Current
  /\ proc' = [proc EXCEPT ![p].at = "checking"]
  /\ UNCHANGED <<columns, cascade, notes, links, fingerprints, nextUid, crashes>>

\* The row that SELECT ... LIMIT 1 finds.
Fingerprint == Head(fingerprints)

CheckSpace(p) ==
  /\ proc[p].at = "checking"
  /\ proc' = [proc EXCEPT ![p].at =
                IF fingerprints = <<>> THEN "stamping space"
                ELSE IF Fingerprint = proc[p].space THEN "open" ELSE "refused"]
  /\ UNCHANGED <<version, columns, cascade, notes, links, fingerprints, nextUid, crashes>>

StampSpace(p) ==
  /\ proc[p].at = "stamping space"
  /\ fingerprints' = Append(fingerprints, proc[p].space)
  /\ proc' = [proc EXCEPT ![p].at = "open"]
  /\ UNCHANGED <<version, columns, cascade, notes, links, nextUid, crashes>>

\* EmbedderMismatchError ends the process,
Refuse(p) ==
  /\ proc[p].at = "refused"
  /\ proc' = [proc EXCEPT ![p] = Idle]
  /\ UNCHANGED <<version, columns, cascade, notes, links, fingerprints, nextUid, crashes>>

\* unless it is a build --reembed, which resets the space and opens again.
ResetEmbeddingSpace(p) ==
  /\ Resets
  /\ proc[p].at = "refused"
  /\ fingerprints' = <<proc[p].space>>
  /\ notes' = [n \in DOMAIN notes |-> [notes[n] EXCEPT !.space = None]]
  /\ proc' = [proc EXCEPT ![p].at = "creating"]
  /\ UNCHANGED <<version, columns, cascade, links, nextUid, crashes>>

-----------------------------------------------------------------------------
(* Processes that have the store open, each call a transaction. *)

\* INTEGER PRIMARY KEY without AUTOINCREMENT.
NewId == Cardinality({k \in NoteIds : \E m \in DOMAIN notes : k <= m}) + 1

\* _insert_note_tx: with a vector, if the embedder answered.
Inserted(p, n, vec) ==
  [m \in DOMAIN notes \cup {n} |->
     IF m = n THEN [uid |-> nextUid, dead |-> FALSE, by |-> NULL, status |-> "active",
                    space |-> IF vec THEN proc[p].space ELSE None]
     ELSE notes[m]]

\* _autolink_note: whichever notes with a vector are found near.
Autolink(ns, n) ==
  \E near \in SUBSET {m \in DOMAIN ns \ {n} :
                        /\ ns[n].space # None /\ ns[m].space # None
                        /\ ns[m].status # "tombstoned"} :
    links' = links \cup ({n} \X near) \cup (near \X {n})

\* A call that writes a new note, under the bounds on ids and identities.
Writes(p, n) ==
  /\ proc[p].at = "open"
  /\ n = NewId /\ n \in NoteIds
  /\ nextUid <= MaxUid /\ nextUid' = nextUid + 1
  /\ UNCHANGED <<version, columns, cascade, fingerprints, proc, crashes>>

Remember(p) ==
  \E n \in NoteIds, vec \in BOOLEAN :
    /\ Writes(p, n)
    /\ notes' = Inserted(p, n, vec)
    /\ Autolink(notes', n)

Supersede(p) ==
  \E old \in DOMAIN notes, n \in NoteIds, vec \in BOOLEAN :
    /\ Writes(p, n)
    /\ ~notes[old].dead /\ notes[old].by = NULL /\ notes[old].status = "active"
    /\ notes' = [Inserted(p, n, vec) EXCEPT ![old].by = n, ![old].status = "superseded"]
    /\ Autolink(notes', n)

Forget(p) ==
  \E n \in DOMAIN notes :
    /\ proc[p].at = "open"
    /\ notes[n].status # "tombstoned"
    /\ notes' = [notes EXCEPT ![n].dead = TRUE, ![n].status = "tombstoned"]
    /\ UNCHANGED <<version, columns, cascade, links, fingerprints, nextUid, proc, crashes>>

HardForget(p) ==
  \E n \in DOMAIN notes :
    /\ proc[p].at = "open"
    /\ notes' = [m \in DOMAIN notes \ {n} |->
                   IF notes[m].by # n THEN notes[m]
                   ELSE [notes[m] EXCEPT !.by = NULL,
                           !.status = IF @ = "superseded" THEN "active" ELSE @]]
    /\ links' = IF cascade THEN {l \in links : n \notin {l[1], l[2]}} ELSE links
    /\ UNCHANGED <<version, columns, cascade, fingerprints, nextUid, proc, crashes>>

Close(p) ==
  /\ proc[p].at = "open"
  /\ proc' = [proc EXCEPT ![p] = Idle]
  /\ UNCHANGED <<version, columns, cascade, notes, links, fingerprints, nextUid, crashes>>

\* A process dies; of a transaction it was in nothing stays.
Crash(p) ==
  /\ proc[p].at \notin {"closed", "open"}
  /\ crashes < MaxCrash
  /\ crashes' = crashes + 1
  /\ proc' = [proc EXCEPT ![p] = Idle]
  /\ UNCHANGED <<version, columns, cascade, notes, links, fingerprints, nextUid>>

-----------------------------------------------------------------------------

\* The notes that a release left: before version 4 without uids, and with pointers
\* at notes that are gone; from version 6 on with a status.
Left(v, S, dead, by, s) ==
  [n \in S |->
     [uid |-> IF v < 4 THEN NULL ELSE n, dead |-> n \in dead, by |-> by[n],
      status |-> IF v < 6 THEN None ELSE Derived([dead |-> n \in dead, by |-> by[n]]),
      space |-> s]]

Init ==
  /\ version \in Releases
  /\ columns = ColumnsOf(version)
  /\ cascade = (version >= 4)
  /\ \E S \in IF version = 0 THEN {{}} ELSE SUBSET NoteIds :
     \E dead \in SUBSET S, by \in [S -> NoteIds \cup {NULL}], s \in Spaces :
       /\ \A n \in S : by[n] # NULL => n < by[n] /\ (version < 4 \/ by[n] \in S)
       /\ notes = Left(version, S, dead, by, s)
       /\ fingerprints = IF version = 0 THEN <<>> ELSE <<s>>
       /\ links \in {{}, IF version < 4 THEN S \X NoteIds ELSE S \X S}
  /\ nextUid = 1 + Cardinality({n \in NoteIds : version >= 4 /\ \E m \in DOMAIN notes : n <= m})
  /\ proc = [p \in Procs |-> Idle]
  /\ crashes = 0

Step(p) ==
  \/ CreateTables(p) \/ ReadVersion(p)
  \/ Look(p) \/ AlterTable(p) \/ AlterFails(p) \/ BlockDone(p) \/ ListUidless(p)
  \/ Migrate(p) \/ Stamp(p) \/ CheckSpace(p) \/ StampSpace(p)

Next ==
  \E p \in Procs :
    \/ \E s \in Spaces : Open(p, s)
    \/ Step(p) \/ Refuse(p) \/ ResetEmbeddingSpace(p)
    \/ Remember(p) \/ Supersede(p) \/ Forget(p) \/ HardForget(p)
    \/ Close(p) \/ Crash(p)

Spec == Init /\ [][Next]_vars

\* An open goes on, and one that failed is tried again.
FairSpec ==
  Spec /\ \A p \in Procs : WF_vars(Step(p)) /\ WF_vars(\E s \in Spaces : Open(p, s))

-----------------------------------------------------------------------------

\* A process that has the store open has a whole store before it, whichever
\* siblings were opening or died at it: current, every note with an identity and a
\* status that agrees with the columns it was derived from, no pointer and no link
\* at a note that is gone.
Whole ==
  /\ version = Current /\ columns = AllColumns /\ cascade
  /\ \A n \in DOMAIN notes :
       /\ notes[n].uid # NULL
       /\ notes[n].by \in DOMAIN notes \cup {NULL}
       /\ notes[n].status = "tombstoned" <=> notes[n].dead
       /\ notes[n].status = "superseded" <=> notes[n].by # NULL /\ ~notes[n].dead
  /\ links \subseteq (DOMAIN notes) \X (DOMAIN notes)

OpenMeansWhole == \A p \in Procs : proc[p].at = "open" => Whole

\* A whole store stays whole: the migration that a sibling, who read the old
\* version, still brings to its end does no harm to what was written since.
WholeStaysWhole == [][Whole => Whole']_vars

\* A store of no later release that a crash, or a sibling, left half migrated can be
\* opened: whoever keeps trying gets in, or as far as the refusal that only a whole
\* store of another embedding space earns.
EventuallyOpens ==
  version <= Current => \A p \in Procs : <>(proc[p].at \in {"open", "refused"})
=============================================================================
