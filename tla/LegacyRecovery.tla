---------------------------- MODULE LegacyRecovery ----------------------------
(***************************************************************************)
(* legacy_recovery.py: the rows of a retired shared database go back to    *)
(* the projects they came from.  A user looks at a preview and approves    *)
(* its digest; apply then                                                  *)
(*                                                                         *)
(*   1. copies the source, previews the copy, and refuses if the digest    *)
(*      is not the approved one, if a project has no rows or a conflict;   *)
(*   2. takes the next project's mutation lock, and gives up if it is busy;*)
(*   3. creates the project's store if there is none;                      *)
(*   4. takes SQLite's writer lock and copies a store that existed;        *)
(*   5. copies the rows, compares them all, commits;                       *)
(*   6. or, if anything raises in 4 or 5, rolls back, and removes the      *)
(*      store if it did not exist before 3.                                *)
(*                                                                         *)
(* Servers write to the same stores meanwhile, a retired server may write  *)
(* to the source, projects are registered, and the process may die.        *)
(*                                                                         *)
(* Abstracted: a note's uid stands for its text and for the columns that   *)
(* nothing edits in place, so the conflict check on a note's text never    *)
(* fires; status, pointer, embedding and revision are edited, deleted_at   *)
(* goes with the status.  `born` stands for a document's columns but its   *)
(* hash; chunks and indexes go with their document.  A store of another    *)
(* schema, or a WAL that cannot be read, is one of the errors.             *)
(***************************************************************************)
EXTENDS Integers, FiniteSets

CONSTANTS
  Projects,   \* project ids; apply takes them in order
  Legacies,   \* the contents of the shared database, one after the other
  Stores,     \* Stores[p]: what p's store may hold at the beginning
  Locals,     \* uids of the notes that servers write
  Hashes,     \* contents of the documents that servers ingest
  MaxEdits,   \* bound on the edits of the servers
  MaxFaults   \* bound on errors, deaths and locks that are busy

None == "none"  \* a column there is not
Null == 0
Absent == [here |-> FALSE, notes |-> [n \in {} |-> None], links |-> {},
           docs |-> [k \in {} |-> None],
           merges |-> {}]  \* those that can be undone: note and synthesis
EmptyStore == [Absent EXCEPT !.here = TRUE]

VARIABLES
  file,       \* file[p]: p's store, as committed
  backup,     \* backup[p]: the latest copy that apply made of it
  lock,       \* lock[p]: who holds p's mutation lock
  source,     \* which of Legacies the shared database holds
  registered, \* the ids in the path registry
  approved,   \* the report whose digest the user has approved
  job,        \* where apply is
  draft,      \* what the writer's transaction has made of its store
  edits,
  faults

recoveryVars == <<file, backup, lock, source, registered, approved, job, draft, edits, faults>>
world == <<source, registered, edits>>

Contents == DOMAIN Legacies

\* A store of a project, or none.
IsStore(f) ==
  /\ f = [here |-> f.here, notes |-> f.notes, links |-> f.links, docs |-> f.docs,
          merges |-> f.merges]
  /\ f.here \in BOOLEAN
  /\ f.notes = [n \in DOMAIN f.notes |-> f.notes[n]]
  /\ \A n \in DOMAIN f.notes :
       f.notes[n] = [uid |-> f.notes[n].uid, status |-> f.notes[n].status, sb |-> f.notes[n].sb,
                     vec |-> f.notes[n].vec, rev |-> f.notes[n].rev]
  /\ f.here \/ f = Absent

ASSUME LegacyAssumption ==
  /\ Projects \subseteq Nat \ {Null} /\ Contents = 1 .. Cardinality(Contents) /\ 1 \in Contents
  /\ DOMAIN Stores = Projects
  /\ \A p \in Projects : \A f \in Stores[p] : IsStore(f)
  /\ \A v \in Contents : \A r \in DOMAIN Legacies[v].notes : Legacies[v].notes[r].uid \notin Locals
  /\ MaxEdits \in Nat /\ MaxFaults \in Nat

NoReport == [source |-> 0, registered |-> {}, conflicts |-> {}]
Idle == [at |-> "idle", sel |-> {}, todo |-> {}, source |-> 0, ids |-> {}, now |-> 0,
         existed |-> FALSE]

Put(f, x, y) == [z \in DOMAIN f \cup {x} |-> IF z = x THEN y ELSE f[z]]
Least(S) == CHOOSE x \in S : \A y \in S : x <= y
Top(S) == IF S = {} THEN 0 ELSE CHOOSE x \in S : \A y \in S : y <= x

-----------------------------------------------------------------------------
(* The preview. *)

\* The project a row goes back to, if that is not ambiguous.
Route(row, ids) ==
  IF row.pooled \notin {Null, row.owner} \/ row.owner \notin ids THEN Null ELSE row.owner

Selected(rows, p, ids) == {r \in DOMAIN rows : Route(rows[r], ids) = p}
NotesOf(v, p, ids) == Selected(Legacies[v].notes, p, ids)
DocsOf(v, p, ids) == Selected(Legacies[v].docs, p, ids)

Attributable(v, ids) == {p \in Projects : NotesOf(v, p, ids) \cup DocsOf(v, p, ids) # {}}

Conflicts(v, p, ids) ==
  {<<p, Legacies[v].docs[r].key>> : r \in
     {d \in DocsOf(v, p, ids) : LET row == Legacies[v].docs[d]
                                IN  /\ row.key \in DOMAIN file[p].docs
                                    /\ file[p].docs[row.key].hash # row.hash}}

\* What the approval digest is the digest of.
Report(v) ==
  [source |-> v, registered |-> registered,
   conflicts |-> UNION {Conflicts(v, p, registered) : p \in Attributable(v, registered)}]

Preview ==
  /\ job.at = "idle"
  /\ approved' = Report(source)
  /\ approved' # approved
  /\ UNCHANGED <<file, backup, lock, job, draft, faults, world>>

-----------------------------------------------------------------------------
(* The copy of one project and its verification. *)

IdsOf(f, uid) == {n \in DOMAIN f.notes : f.notes[n].uid = uid}

\* Where the selected rows of a legacy table are, or will be, in the destination.
Images(f, rows, sel) ==
  LET missing == {r \in sel : IdsOf(f, rows[r].uid) = {}}
      top == Top(DOMAIN f.notes)
  IN  [r \in sel |-> IF r \notin missing THEN Least(IdsOf(f, rows[r].uid))
                     ELSE top + Cardinality({q \in missing : q <= r})]

\* A column the legacy release did not have gets its default.
StatusOf(row) == IF row.status = None THEN "active" ELSE row.status
RevOf(row) == IF row.rev = Null THEN 1 ELSE row.rev

LinksAmong(v, sel) == {l \in Legacies[v].links : l[1] \in sel /\ l[2] \in sel}

\* KeptRow mutated: a note that is there is overwritten.
Overwritten(there, row) == [there EXCEPT !.status = StatusOf(row)]

\* A note that is there keeps its row.
KeptRow(there, row) == there

\* Pointer mutated: pointers are translated while the rows arrive.
PointerSoFar(at, n, sb) == IF sb \in DOMAIN at /\ at[sb] < n THEN at[sb] ELSE Null

Pointer(at, n, sb) == IF sb \in DOMAIN at THEN at[sb] ELSE Null

\* What a note is replaced by is rewritten in any case, to nothing if the replacement
\* is not selected.
Copied(f, v, p, ids) ==
  LET rows == Legacies[v].notes
      sel == NotesOf(v, p, ids)
      at == Images(f, rows, sel)
      from == [n \in {at[r] : r \in sel} |-> rows[CHOOSE r \in sel : at[r] = n]]
      docs == [d \in DocsOf(v, p, ids) |-> Legacies[v].docs[d]]
      Arrived(row) == [uid |-> row.uid, status |-> StatusOf(row), sb |-> Null,
                       vec |-> row.vec, rev |-> RevOf(row)]
      Doc(k) == CHOOSE d \in DOMAIN docs : docs[d].key = k
  IN  [f EXCEPT
         !.notes = [n \in DOMAIN f.notes \cup DOMAIN from |->
                      IF n \notin DOMAIN from THEN f.notes[n]
                      ELSE [IF n \in DOMAIN f.notes THEN KeptRow(f.notes[n], from[n])
                            ELSE Arrived(from[n]) EXCEPT !.sb = Pointer(at, n, from[n].sb)]],
         !.links = @ \cup {<<at[l[1]], at[l[2]]>> : l \in LinksAmong(v, sel)},
         !.docs = [k \in DOMAIN f.docs \cup {docs[d].key : d \in DOMAIN docs} |->
                     IF k \in DOMAIN f.docs THEN f.docs[k]
                     ELSE [hash |-> docs[Doc(k)].hash, born |-> docs[Doc(k)].born]]]

\* Every selected row, its pointer and the links among them, column by column: a
\* column that the legacy release did not have is compared with nothing.
Verified(f, v, p, ids) ==
  LET rows == Legacies[v].notes
      sel == NotesOf(v, p, ids)
      at == Images(f, rows, sel)
      images == {at[r] : r \in sel}
  IN  /\ \A d \in DocsOf(v, p, ids) :
           LET row == Legacies[v].docs[d]
           IN  row.key \in DOMAIN f.docs /\ f.docs[row.key] = [hash |-> row.hash, born |-> row.born]
      /\ images \subseteq DOMAIN f.notes
      /\ \A r \in sel : /\ f.notes[at[r]].status = rows[r].status
                        /\ f.notes[at[r]].vec = rows[r].vec /\ f.notes[at[r]].rev = rows[r].rev
                        /\ f.notes[at[r]].sb = IF rows[r].sb \in sel THEN at[rows[r].sb] ELSE Null
      /\ {l \in f.links : l[1] \in images /\ l[2] \in images} =
           {<<at[l[1]], at[l[2]]>> : l \in LinksAmong(v, sel)}

-----------------------------------------------------------------------------
(* apply *)

StartApply(sel) ==
  /\ job.at = "idle"
  /\ approved # NoReport
  /\ job' = [Idle EXCEPT !.at = "checking", !.sel = sel, !.source = source]
  /\ UNCHANGED <<file, backup, lock, approved, draft, faults, world>>

\* Preflight mutated: the digest of the live source is compared, not the copy's.
PreflightLive ==
  /\ job.at = "checking"
  /\ job' = IF /\ approved.source = job.source
               /\ job.sel \subseteq Attributable(job.source, registered)
            THEN [job EXCEPT !.at = "next", !.todo = job.sel, !.ids = registered]
            ELSE Idle
  /\ UNCHANGED <<file, backup, lock, approved, draft, faults, world>>

\* The report on the copy must be the approved one.
Approves(v, sel) ==
  /\ sel \subseteq Attributable(v, registered)
  /\ approved = Report(v)
  /\ \A p \in sel : Conflicts(v, p, registered) = {}

\* A refused copy is removed.
Preflight ==
  /\ job.at = "checking"
  /\ \/ /\ job' = [job EXCEPT !.at = "next", !.todo = job.sel, !.ids = registered]
        /\ Approves(job.source, job.sel)
     \/ job' = Idle /\ ~Approves(job.source, job.sel)
  /\ UNCHANGED <<file, backup, lock, approved, draft, faults, world>>

TakeLock ==
  /\ job.at = "next" /\ job.todo # {}
  /\ lock[Least(job.todo)] = "free"
  /\ lock' = [lock EXCEPT ![Least(job.todo)] = "recovery"]
  /\ job' = [job EXCEPT !.at = "preparing", !.now = Least(job.todo)]
  /\ UNCHANGED <<file, backup, approved, draft, faults, world>>

\* MutationBusyError: the projects that are done stay done.
FindBusy ==
  /\ job.at = "next" /\ job.todo # {}
  /\ lock[Least(job.todo)] # "free"
  /\ job' = Idle
  /\ UNCHANGED <<file, backup, lock, approved, draft, faults, world>>

Created(s) == [s EXCEPT !.here = TRUE]

Prepare ==
  /\ job.at = "preparing"
  /\ job' = [job EXCEPT !.at = "beginning", !.existed = file[job.now].here]
  /\ file' = [file EXCEPT ![job.now] = Created(@)]
  /\ UNCHANGED <<backup, lock, approved, draft, faults, world>>

\* BEGIN IMMEDIATE: from here on no server writes.
Begin ==
  /\ job.at = "beginning"
  /\ job' = [job EXCEPT !.at = "saving"]
  /\ UNCHANGED <<file, backup, lock, approved, draft, faults, world>>

Save ==
  /\ job.at = "saving"
  /\ backup' = IF job.existed THEN [backup EXCEPT ![job.now] = file[job.now]] ELSE backup
  /\ job' = [job EXCEPT !.at = "copying"]
  /\ UNCHANGED <<file, lock, approved, draft, faults, world>>

Writing(p) == job.now = p /\ job.at \in {"saving", "copying", "verifying"}

\* A document may have changed since the preflight.
Copy ==
  /\ job.at = "copying"
  /\ \/ /\ job' = [job EXCEPT !.at = "verifying"]
        /\ Conflicts(job.source, job.now, job.ids) = {}
        /\ draft' = Copied(file[job.now], job.source, job.now, job.ids)
     \/ /\ job' = [job EXCEPT !.at = "restoring"]
        /\ Conflicts(job.source, job.now, job.ids) # {}
        /\ draft' = draft
  /\ UNCHANGED <<file, backup, lock, approved, faults, world>>

Commit ==
  /\ job.at = "verifying"
  /\ job' = [job EXCEPT !.at = "next", !.todo = @ \ {job.now}, !.now = 0]
  /\ Verified(draft, job.source, job.now, job.ids)
  /\ file' = [file EXCEPT ![job.now] = draft]
  /\ draft' = Absent
  /\ lock' = [lock EXCEPT ![job.now] = "free"]
  /\ UNCHANGED <<backup, approved, faults, world>>

\* Rolled back, and SQLite's writer lock is free again.
Reject ==
  /\ job.at = "verifying"
  /\ job' = [job EXCEPT !.at = "restoring"]
  /\ ~Verified(draft, job.source, job.now, job.ids)
  /\ draft' = Absent
  /\ UNCHANGED <<file, backup, lock, approved, faults, world>>

\* Restore mutated: it forgets whether the store existed.
RestoreByRemoval ==
  /\ job.at = "restoring"
  /\ file' = [file EXCEPT ![job.now] = Absent]
  /\ lock' = [lock EXCEPT ![job.now] = "free"]
  /\ job' = Idle
  /\ UNCHANGED <<backup, approved, draft, faults, world>>

\* A store that this apply created is unlinked, whatever is in it by now.
Restore ==
  /\ job.at = "restoring"
  /\ file' = IF job.existed THEN file ELSE [file EXCEPT ![job.now] = Absent]
  /\ lock' = [lock EXCEPT ![job.now] = "free"]
  /\ job' = Idle
  /\ UNCHANGED <<backup, approved, draft, faults, world>>

Finish ==
  /\ job.at = "next" /\ job.todo = {}
  /\ job' = Idle
  /\ UNCHANGED <<file, backup, lock, approved, draft, faults, world>>

\* Anything raises: a store of another schema, a writer that holds SQLite's lock, a
\* full disk.
Fail ==
  /\ faults < MaxFaults /\ faults' = faults + 1
  /\ \/ /\ job.at = "preparing"
        /\ job' = Idle /\ lock' = [lock EXCEPT ![job.now] = "free"]
     \/ /\ job.at \in {"beginning", "saving", "copying", "verifying"}
        /\ job' = [job EXCEPT !.at = "restoring"] /\ lock' = lock
  /\ UNCHANGED <<file, backup, approved, world>>
  /\ draft' = Absent

\* Die mutated: the lock is a file that its holder has to remove.
DieHolding ==
  /\ faults < MaxFaults /\ faults' = faults + 1
  /\ job.at # "idle"
  /\ job' = Idle
  /\ UNCHANGED <<file, backup, lock, approved, world>>
  /\ draft' = Absent

Die ==
  /\ faults < MaxFaults /\ faults' = faults + 1
  /\ job.at # "idle"
  /\ job' = Idle
  /\ lock' = [p \in Projects |-> IF lock[p] = "recovery" THEN "free" ELSE lock[p]]
  /\ UNCHANGED <<file, backup, approved, world>>
  /\ draft' = Absent

-----------------------------------------------------------------------------
(* The others. *)

Edit(p, f) ==
  /\ edits < MaxEdits /\ edits' = edits + 1
  /\ ~Writing(p)
  /\ file' = [file EXCEPT ![p] = f]
  /\ UNCHANGED <<backup, lock, source, registered, approved, job, draft, faults>>

\* A server creates the store if there is none; a note with an embedding is linked with
\* the others that have one.
Remembered(s, uid, vec) ==
  LET id == Top(DOMAIN s.notes) + 1
      similar == {n \in DOMAIN s.notes : /\ s.notes[n].status # "tombstoned"
                                         /\ None \notin {vec, s.notes[n].vec}}
  IN  [s EXCEPT !.here = TRUE,
         !.notes = Put(@, id, [uid |-> uid, status |-> "active", sb |-> Null,
                               vec |-> vec, rev |-> 1]),
         !.links = @ \cup {<<n, id>> : n \in similar} \cup {<<id, n>> : n \in similar}]

Dead(row) == [row EXCEPT !.status = "tombstoned"]
Forgotten(s, n) == [s EXCEPT !.notes[n] = Dead(@)]

\* A new note in the place of note n, which a supersede keeps and a merge tombstones.
Behind(row, id, status) == [row EXCEPT !.sb = id, !.status = status, !.rev = @ + 1]
Replaced(s, n, status, uid, vec) ==
  Remembered([s EXCEPT !.notes[n] = Behind(@, Top(DOMAIN s.notes) + 1, status)], uid, vec)

Merged(s, n, uid) ==
  [Replaced(s, n, "tombstoned", uid, None) EXCEPT !.merges = @ \cup {<<n, Top(DOMAIN s.notes) + 1>>}]

\* The undo of the merge of n into m gives back status and pointer, not the revision.
Revived(row) ==
  IF row.status = "tombstoned" THEN [row EXCEPT !.status = "active", !.sb = Null] ELSE row
Unmerged(s, n, m) ==
  [s EXCEPT !.notes = [k \in DOMAIN @ |->
                         IF k = n THEN Revived(@[k]) ELSE IF k = m THEN Dead(@[k]) ELSE @[k]],
            !.merges = @ \ {<<n, m>>}]

\* reembed_notes, and the wipe of build --reembed.
Embedded(row) == IF row.vec = None THEN [row EXCEPT !.vec = "own"] ELSE row
Reembedded(s) == [s EXCEPT !.here = TRUE, !.notes = [k \in DOMAIN @ |-> Embedded(@[k])]]

Bare(row) == [row EXCEPT !.vec = None]
Wiped(s) ==
  [s EXCEPT !.here = TRUE, !.notes = [k \in DOMAIN @ |-> Bare(@[k])], !.docs = Absent.docs]

\* A row that pointed at note n, which is gone, points nowhere.
Unpointed(row, n) ==
  IF row.sb # n THEN row
  ELSE [row EXCEPT !.sb = Null, !.status = IF @ = "superseded" THEN "active" ELSE @]

Purged(s, n) ==
  [s EXCEPT !.notes = [m \in DOMAIN @ \ {n} |-> Unpointed(@[m], n)],
            !.links = {l \in @ : n \notin {l[1], l[2]}}]

Ingested(s, key, hash) ==
  [s EXCEPT !.here = TRUE, !.docs = Put(@, key, [hash |-> hash, born |-> "here"])]

Remember(p, uid, vec) ==
  /\ \A q \in Projects : IdsOf(file[q], uid) = {}
  /\ Edit(p, Remembered(file[p], uid, vec))

Forget(p, n) ==
  /\ file[p].notes[n].status # "tombstoned"
  /\ Edit(p, Forgotten(file[p], n))

HardForget(p, n) == Edit(p, Purged(file[p], n))

Supersede(p, n, uid, vec) ==
  /\ file[p].notes[n].status = "active" /\ file[p].notes[n].sb = Null
  /\ \A q \in Projects : IdsOf(file[q], uid) = {}
  /\ Edit(p, Replaced(file[p], n, "superseded", uid, vec))

\* consolidate, of the cluster's representative; the other members are forgotten.
Merge(p, n, uid) ==
  /\ file[p].notes[n].status = "active"
  /\ \A q \in Projects : IdsOf(file[q], uid) = {}
  /\ Edit(p, Merged(file[p], n, uid))

UndoMerge(p, n, m) ==
  /\ <<n, m>> \in file[p].merges
  /\ Edit(p, Unmerged(file[p], n, m))

Reembed(p) == Edit(p, Reembedded(file[p]))

WipeSpace(p) == Edit(p, Wiped(file[p]))

\* A document is replaced, or only its metadata.
Ingest(p, key, hash) ==
  /\ hash \in Hashes \/ (key \in DOMAIN file[p].docs /\ hash = file[p].docs[key].hash)
  /\ Edit(p, Ingested(file[p], key, hash))

Serve(p) ==
  \/ \E uid \in Locals, vec \in {None, "own"} :
       Remember(p, uid, vec) \/ \E n \in DOMAIN file[p].notes : Supersede(p, n, uid, vec)
  \/ \E n \in DOMAIN file[p].notes :
       Forget(p, n) \/ HardForget(p, n) \/ \E uid \in Locals : Merge(p, n, uid)
  \/ \E t \in file[p].merges : UndoMerge(p, t[1], t[2])
  \/ Reembed(p) \/ WipeSpace(p)
  \/ \E d, e \in DOMAIN Legacies[1].docs, h \in Hashes :
       Ingest(p, Legacies[1].docs[d].key, h) \/ Ingest(p, Legacies[1].docs[d].key, Legacies[1].docs[e].hash)

\* A retired server writes once more to the shared database.
SourceChanges ==
  /\ source + 1 \in Contents
  /\ source' = source + 1
  /\ UNCHANGED <<file, backup, lock, registered, approved, job, draft, edits, faults>>

Register(p) ==
  /\ p \notin registered
  /\ registered' = registered \cup {p}
  /\ UNCHANGED <<file, backup, lock, source, approved, job, draft, edits, faults>>

\* Another maintenance command holds the mutation lock for a while.
Maintain(p) ==
  /\ faults < MaxFaults /\ faults' = faults + 1
  /\ lock[p] = "free" /\ lock' = [lock EXCEPT ![p] = "maintenance"]
  /\ UNCHANGED <<file, backup, approved, job, draft, world>>

EndMaintenance(p) ==
  /\ lock[p] = "maintenance" /\ lock' = [lock EXCEPT ![p] = "free"]
  /\ UNCHANGED <<file, backup, approved, job, draft, faults, world>>

-----------------------------------------------------------------------------

RecoveryInit ==
  /\ file \in [Projects -> UNION {Stores[p] : p \in Projects}]
  /\ \A p \in Projects : file[p] \in Stores[p]
  /\ backup = [p \in Projects |-> Absent]
  /\ lock = [p \in Projects |-> "free"]
  /\ source = 1
  /\ registered \in {Projects, Projects \ {Least(Projects)}}
  /\ approved = NoReport
  /\ job = Idle /\ draft = Absent
  /\ edits = 0 /\ faults = 0

Apply ==
  \/ Preflight \/ TakeLock \/ FindBusy \/ Prepare \/ Begin \/ Save \/ Copy \/ Commit \/ Reject
  \/ Restore \/ Finish

Start == \E sel \in (SUBSET Projects) \ {{}} : StartApply(sel)

Recover == Preview \/ Start \/ Apply \/ Fail \/ Die

RecoveryNext ==
  \/ Recover
  \/ SourceChanges
  \/ \E p \in Projects : Serve(p) \/ Register(p) \/ Maintain(p) \/ EndMaintenance(p)

RecoverySpec == RecoveryInit /\ [][RecoveryNext]_recoveryVars

\* The process goes on; the user, who wants a project back, looks at the preview again
\* when it has changed, and goes on applying it to that project.
RecoveryFairSpec ==
  /\ RecoverySpec
  /\ WF_recoveryVars(Apply) /\ SF_recoveryVars(Preview)
  /\ \A p \in Projects : SF_recoveryVars(StartApply({p}))

-----------------------------------------------------------------------------

LegacyUids == UNION {{Legacies[v].notes[r].uid : r \in DOMAIN Legacies[v].notes} : v \in Contents}
UidsIn(f) == {f.notes[n].uid : n \in DOMAIN f.notes}

\* What is in the destination differs from what the shared database says of it, in any
\* column that the verification compares.
SameNote(there, row) ==
  there.status = StatusOf(row) /\ there.vec = row.vec /\ there.rev = RevOf(row)

Diverged(p, v, ids) ==
  LET f == file[p]
      rows == Legacies[v].notes
      sel == NotesOf(v, p, ids)
  IN  \/ \E r \in sel : \E n \in IdsOf(f, rows[r].uid) : ~SameNote(f.notes[n], rows[r])
      \/ \E d \in DocsOf(v, p, ids) :
           LET row == Legacies[v].docs[d]
           IN  /\ row.key \in DOMAIN f.docs
               /\ f.docs[row.key] # [hash |-> row.hash, born |-> row.born]

Recovered(p) ==
  /\ \A r \in NotesOf(source, p, registered) : Legacies[source].notes[r].uid \in UidsIn(file[p])
  /\ \A d \in DocsOf(source, p, registered) : Legacies[source].docs[d].key \in DOMAIN file[p].docs

\* "Previewing and copying the same file closes the live-source/WAL/registry
\* attribution race"
\* (legacy_recovery.py:439): what a commit adds to a project is in the report that the
\* user approved, though the source, the registry and the stores went on changing.
OnlyApprovedRowsArrive ==
  [][\A p \in Projects : job.at = "verifying" /\ job'.at = "next" /\ job.now = p =>
       /\ UidsIn(file'[p]) \ UidsIn(file[p]) \subseteq
            {Legacies[approved.source].notes[r].uid :
               r \in {q \in DOMAIN Legacies[approved.source].notes :
                        LET row == Legacies[approved.source].notes[q]
                        IN  /\ row.owner = p /\ p \in approved.registered
                            /\ row.pooled \in {Null, p}}}
       /\ ~\E c \in approved.conflicts : c[1] = p]_recoveryVars

\* Recovery may be retried, after any failure and after users have gone on working: no
\* step of it makes a tombstone a note again, takes back an embedding, a revision or what
\* was ingested, or removes a note from a store that stays.
RetrySparesEdits ==
  [][edits' = edits => \A p \in Projects : file'[p].here =>
       /\ \A n \in DOMAIN file[p].notes :
            /\ n \in DOMAIN file'[p].notes
            /\ file'[p].notes[n].uid = file[p].notes[n].uid
            /\ file'[p].notes[n].status = file[p].notes[n].status
            /\ file'[p].notes[n].vec = file[p].notes[n].vec
            /\ file'[p].notes[n].rev = file[p].notes[n].rev
       /\ \A k \in DOMAIN file[p].docs : k \in DOMAIN file'[p].docs /\ file'[p].docs[k] = file[p].docs[k]]_recoveryVars

\* "Completed Projects remain recovered" (legacy_recovery.py:36): the failure of one
\* project takes no legacy note from any store.
CompletedRemain ==
  [][edits' = edits => \A p \in Projects :
       UidsIn(file[p]) \cap LegacyUids \subseteq UidsIn(file'[p])]_recoveryVars

\* The copy of an existing destination is what it was when the rows were added,
\* though servers write up to that moment.
BackupIsTheBefore ==
  [][\A p \in Projects : job.now = p /\ job.existed /\ file'[p] # file[p] /\ job'.at = "next" =>
       backup[p] = file[p]]_recoveryVars

\* What a failed recovery can be undone to: no store loses what was recovered in it
\* before, and the copy beside a changed one is what it was.
RecoveredIsSafe == CompletedRemain /\ BackupIsTheBefore

\* What OnlyDivergenceRejects needs of the shared database and of the stores, as they are
\* created: unique keys, and links that no server deletes from notes that stay.  A store
\* has the links between legacy notes that the shared database had, by contents v or before.
LinkUids(notes, l) == <<notes[l[1]].uid, notes[l[2]].uid>>
LegacyLinks(v) == {LinkUids(Legacies[v].notes, l) : l \in Legacies[v].links}

Coherent(f, v) ==
  LET ids == DOMAIN f.notes
  IN  /\ ids \subseteq Nat \ {0} /\ \E b \in ids \cup {0} : \A n \in ids : n <= b
      /\ \A n, m \in ids : f.notes[n].uid = f.notes[m].uid => n = m
      /\ \A l \in f.links :
           /\ l = <<l[1], l[2]>> /\ l[1] \in ids /\ l[2] \in ids
           /\ f.notes[l[1]].uid \in LegacyUids /\ f.notes[l[2]].uid \in LegacyUids =>
                \E w \in Contents : w <= v /\ LinkUids(f.notes, l) \in LegacyLinks(w)

\* A release with a status and a revision column, at each of its contents.
WholeDatabase(v) ==
  LET rows == Legacies[v].notes
      ids == DOMAIN rows
      papers == Legacies[v].docs
  IN  /\ IsFiniteSet(ids) /\ ids \subseteq Nat
      /\ \A r \in ids : rows[r].status # None /\ rows[r].rev # Null
      /\ \A r, q \in ids : rows[r].uid = rows[q].uid => r = q
      /\ \A d, e \in DOMAIN papers :
           papers[d].owner = papers[e].owner /\ papers[d].key = papers[e].key => d = e

LegacyIsWhole ==
  /\ Contents \subseteq Nat /\ \A v \in Contents : WholeDatabase(v)
  /\ \A v, w \in Contents : v <= w =>
       \A r, q \in DOMAIN Legacies[w].notes :
         LinkUids(Legacies[w].notes, <<r, q>>) \in LegacyLinks(v) => <<r, q>> \in Legacies[w].links
  /\ \A p \in Projects : \A f \in Stores[p] : Coherent(f, 1)

\* The copy and its verification agree: a project fails only if its store says otherwise
\* of a row that is recovered.
\* "so this one-time migration can read old databases" (legacy_recovery.py:5).
OnlyDivergenceRejects ==
  [][job.at = "verifying" /\ job'.at = "restoring" /\ faults' = faults =>
       Diverged(job.now, job.source, job.ids)]_recoveryVars

\* Whatever deaths, errors and busy locks there were, a registered project whose store
\* does not contradict the shared database, and is left to recovery by other commands,
\* gets its rows.
EventuallyRecovered ==
  \A p \in Projects :
    <>[](/\ p \in registered /\ ~Diverged(p, source, registered)
         /\ lock[p] # "maintenance") => <>Recovered(p)
=============================================================================
