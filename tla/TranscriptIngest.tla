--------------------------- MODULE TranscriptIngest ---------------------------
(***************************************************************************)
(* The transcript documents of the projects: tables bc_documents and       *)
(* bc_chunks of each project's braincell.db, the ingest ledger beside it,  *)
(* and the commands that write them: build, build --reembed, clear, and    *)
(* the reconciliation that moves foreign documents to their owner's store. *)
(*                                                                         *)
(* A command is a process holding the mutation lock of its store (a        *)
(* reconciliation holds two).  Its transactions and file writes are        *)
(* separate steps; it may die between any two of them.  Agents append to   *)
(* the session files all the while.                                        *)
(*                                                                         *)
(* Abstracted: a session file is its version number; Pages says what text  *)
(* survives extraction, compaction and the secret scan at each version.    *)
(* The digest of a file is its version, the content hash of a document its *)
(* text.  Skill documents are in SkillAuthority.                           *)
(***************************************************************************)
EXTENDS Naturals

CONSTANTS
  Projects,
  Files,     \* session files, each under a path of one registered project
  Home,      \* Home[f]: the project f is attributed to
  Kin,       \* Kin[p]: the family of p, p included
  Pages,     \* Pages[v]: the text of version v, Blank when nothing is left
  Models,    \* embedding fingerprints
  Dim,       \* Dim[m]: the dimension of m's vectors
  MaxFaults  \* bound on crashes, clears, re-embeds and reconciliations

Blank == 0
NULL == "none"
Versions == DOMAIN Pages
Texts == {Pages[v] : v \in Versions} \cup {Blank}

ASSUME IngestAssumption ==
  /\ NULL \notin Models
  /\ Home \in [Files -> Projects]
  /\ Kin \in [Projects -> SUBSET Projects]
  /\ \A p \in Projects : p \in Kin[p]
  /\ Pages \in [Versions -> Nat]
  /\ Versions \subseteq Nat \ {0}
  /\ Dim \in [Models -> Nat]
  /\ MaxFaults \in Nat

VARIABLES
  disk,    \* disk[f]: the version of f, 0 when there is no such file yet
  docs,    \* docs[p]: the documents in p's store, as a function of their file
  space,   \* space[p]: the fingerprint stamped in p's store
  ledger,  \* ledger[p]: the version each file was last ingested at
  stage,   \* stage[p]: what the process holding p's mutation lock does next
  todo,    \* files the build has still to visit
  led,     \* the build's copy of the ledger
  model,   \* the fingerprint the process was started with
  dest,    \* the owner a reconciliation moves documents to
  faults   \* how many crashes, clears, re-embeds and reconciliations there were

vars == <<disk, docs, space, ledger, stage, todo, led, model, dest, faults>>
stores == <<disk, docs, space, ledger>>
process == <<todo, led, model, dest>>

Stages == {"idle", "wiping", "rewiping", "ingesting", "copying", "deleting"}
Doc == [text: Texts, space: Models \cup {NULL}]
None == [f \in {} |-> 0]

TypeOK ==
  /\ disk \in [Files -> Versions \cup {0}]
  /\ \A p \in Projects :
       /\ DOMAIN docs[p] \subseteq Files /\ docs[p] \in [DOMAIN docs[p] -> Doc]
       /\ DOMAIN ledger[p] \subseteq Files
       /\ ledger[p] \in [DOMAIN ledger[p] -> Versions]
       /\ DOMAIN led[p] \subseteq Files /\ led[p] \in [DOMAIN led[p] -> Versions]
  /\ space \in [Projects -> Models \cup {NULL}]
  /\ stage \in [Projects -> Stages]
  /\ todo \in [Projects -> SUBSET Files]
  /\ model \in [Projects -> Models]
  /\ dest \in [Projects -> Projects]
  /\ faults \in 0 .. MaxFaults

-----------------------------------------------------------------------------

\* mutation_lock is held: by p's own command, or by a reconciliation into p.
Locked(p) ==
  stage[p] # "idle" \/ \E r \in Projects : stage[r] \in {"copying", "deleting"} /\ dest[r] = p

With(fun, f, value) ==
  [g \in DOMAIN fun \cup {f} |-> IF g = f THEN value ELSE fun[g]]

Without(fun, S) == [g \in DOMAIN fun \ S |-> fun[g]]

Own(p) == {f \in Files : Home[f] = p}

Fault == faults < MaxFaults /\ faults' = faults + 1

\* An agent starts a session file or appends to one.
Append(f) ==
  /\ disk[f] + 1 \in Versions
  /\ disk' = [disk EXCEPT ![f] = @ + 1]
  /\ UNCHANGED <<docs, space, ledger, stage, process, faults>>

-----------------------------------------------------------------------------
(* build *)

\* The ledger loaded, and the candidate files of the family listed.
Listed(p, kept) ==
  /\ stage' = [stage EXCEPT ![p] = "ingesting"]
  /\ led' = [led EXCEPT ![p] = kept]
  /\ todo' = [todo EXCEPT ![p] = {f \in Files : disk[f] # 0 /\ Home[f] \in Kin[p]}]

\* BeginBuild mutated: the stamped fingerprint is not compared.
BeginBuildUnchecked(p, m) ==
  /\ ~Locked(p)
  /\ space' = [space EXCEPT ![p] = m]
  /\ model' = [model EXCEPT ![p] = m]
  /\ Listed(p, ledger[p])
  /\ UNCHANGED <<disk, docs, ledger, dest, faults>>

\* assert_schema_version stamps a new store and refuses another fingerprint;
\* _embed_dim_guard refuses when own documents have another dimension.
BeginBuild(p, m) ==
  /\ ~Locked(p)
  /\ space[p] \in {NULL, m}
  /\ \A f \in DOMAIN docs[p] \cap Own(p) :
       docs[p][f].space # NULL => Dim[docs[p][f].space] = Dim[m]
  /\ space' = [space EXCEPT ![p] = m]
  /\ model' = [model EXCEPT ![p] = m]
  /\ Listed(p, ledger[p])
  /\ UNCHANGED <<disk, docs, ledger, dest, faults>>

\* --reembed: the ledger is unlinked before the documents are wiped.
BeginReembed(p, m) ==
  /\ ~Locked(p)
  /\ Fault
  /\ space' = IF space[p] = NULL THEN [space EXCEPT ![p] = m] ELSE space
  /\ ledger' = [ledger EXCEPT ![p] = None]
  /\ stage' = [stage EXCEPT ![p] = "rewiping"]
  /\ model' = [model EXCEPT ![p] = m]
  /\ UNCHANGED <<disk, docs, todo, led, dest>>

\* reset_embedding_space when the fingerprint changed: every document goes.
\* wipe_project_embeddings otherwise: the project's own documents go.
ReembedWipe(p) ==
  /\ stage[p] = "rewiping"
  /\ docs' = [docs EXCEPT ![p] =
                IF space[p] = model[p] THEN Without(@, Own(p)) ELSE None]
  /\ space' = [space EXCEPT ![p] = model[p]]
  /\ Listed(p, ledger[p])
  /\ UNCHANGED <<disk, ledger, model, dest, faults>>

\* What the store holds of f after replace_document: nothing is written when
\* document_is_current, which compares texts but not vector spaces.
Replaced(p, f) ==
  LET text == Pages[disk[f]]
  IN  IF f \in DOMAIN docs[p] /\ docs[p][f].text = text
      THEN docs[p]
      ELSE With(docs[p], f,
                [text |-> text, space |-> IF text = Blank THEN NULL ELSE model[p]])

Visited(p, f) ==
  /\ stage[p] = "ingesting"
  /\ f \in todo[p]
  /\ todo' = [todo EXCEPT ![p] = @ \ {f}]
  /\ UNCHANGED <<disk, space, ledger, stage, model, dest, faults>>

Checkpointed(p, f) == f \in DOMAIN led[p] /\ led[p][f] = disk[f]

SkipFile(p, f) ==
  /\ Visited(p, f)
  /\ Checkpointed(p, f)
  /\ UNCHANGED <<docs, led>>

\* The document is replaced in one transaction, then checkpointed in memory
\* unless one of the file's skills failed to embed.
IngestFile(p, f, skillsEmbedded) ==
  /\ Visited(p, f)
  /\ ~Checkpointed(p, f)
  /\ docs' = [docs EXCEPT ![p] = Replaced(p, f)]
  /\ led' = IF skillsEmbedded THEN [led EXCEPT ![p] = With(@, f, disk[f])] ELSE led

\* EmbedFails mutated: the file is checkpointed all the same.
EmbedFailsCheckpointed(p, f) ==
  /\ Visited(p, f)
  /\ ~Checkpointed(p, f)
  /\ Replaced(p, f) # docs[p]
  /\ led' = [led EXCEPT ![p] = With(@, f, disk[f])]
  /\ UNCHANGED docs

\* The embedder is out: no document, no checkpoint.
EmbedFails(p, f) ==
  /\ Visited(p, f)
  /\ ~Checkpointed(p, f)
  /\ Replaced(p, f) # docs[p]
  /\ Pages[disk[f]] # Blank
  /\ UNCHANGED <<docs, led>>

\* _save_ledger, once at the end of the run.
SaveLedger(p) ==
  /\ stage[p] = "ingesting"
  /\ todo[p] = {}
  /\ ledger' = [ledger EXCEPT ![p] = led[p]]
  /\ led' = [led EXCEPT ![p] = None]
  /\ stage' = [stage EXCEPT ![p] = "idle"]
  /\ UNCHANGED <<disk, docs, space, todo, model, dest, faults>>

-----------------------------------------------------------------------------
(* clear *)

\* BeginClear mutated: the ledger survives.
BeginClearKeepingLedger(p) ==
  /\ ~Locked(p)
  /\ Fault
  /\ stage' = [stage EXCEPT ![p] = "wiping"]
  /\ UNCHANGED <<disk, docs, space, ledger, process>>

BeginClear(p) ==
  /\ ~Locked(p)
  /\ Fault
  /\ ledger' = [ledger EXCEPT ![p] = None]
  /\ stage' = [stage EXCEPT ![p] = "wiping"]
  /\ UNCHANGED <<disk, docs, space, process>>

ClearWipe(p) ==
  /\ stage[p] = "wiping"
  /\ docs' = [docs EXCEPT ![p] = Without(@, Own(p))]
  /\ stage' = [stage EXCEPT ![p] = "idle"]
  /\ UNCHANGED <<disk, space, ledger, process, faults>>

-----------------------------------------------------------------------------
(* apply_foreign_document_migration: from p's store to owner q's *)

Foreign(p, q) == DOMAIN docs[p] \cap Own(q)

\* Both locks are taken, or the command is refused.  A missing destination is
\* created, which stamps the configured fingerprint; of an existing one only
\* the schema version is checked.
BeginReconcile(p, q, m) ==
  /\ p # q
  /\ ~Locked(p) /\ ~Locked(q)
  /\ Foreign(p, q) # {}
  /\ Fault
  /\ dest' = [dest EXCEPT ![p] = q]
  /\ stage' = [stage EXCEPT ![p] = "copying"]
  /\ space' = IF space[q] = NULL THEN [space EXCEPT ![q] = m] ELSE space
  /\ UNCHANGED <<disk, docs, ledger, todo, led, model>>

\* The destination's transaction; a document there with another text refuses it.
CopyForeign(p) ==
  LET q == dest[p]
      moved == Foreign(p, q)
  IN  /\ stage[p] = "copying"
      /\ \A f \in moved \cap DOMAIN docs[q] : docs[q][f].text = docs[p][f].text
      /\ docs' = [docs EXCEPT ![q] =
                    [f \in DOMAIN @ \cup moved |-> IF f \in DOMAIN @ THEN @[f] ELSE docs[p][f]]]
      /\ stage' = [stage EXCEPT ![p] = "deleting"]
      /\ UNCHANGED <<disk, space, ledger, process, faults>>

RefuseConflict(p) ==
  LET q == dest[p]
  IN  /\ stage[p] = "copying"
      /\ \E f \in Foreign(p, q) \cap DOMAIN docs[q] : docs[q][f].text # docs[p][f].text
      /\ stage' = [stage EXCEPT ![p] = "idle"]
      /\ UNCHANGED <<stores, process, faults>>

\* DeleteForeign mutated: the source commits without waiting for the copy.
DeleteForeignEarly(p) ==
  /\ stage[p] \in {"copying", "deleting"}
  /\ docs' = [docs EXCEPT ![p] = Without(@, Own(dest[p]))]
  /\ stage' = [stage EXCEPT ![p] = "idle"]
  /\ UNCHANGED <<disk, space, ledger, process, faults>>

\* The source's transaction, after the destination's has committed.
DeleteForeign(p) ==
  /\ stage[p] = "deleting"
  /\ docs' = [docs EXCEPT ![p] = Without(@, Own(dest[p]))]
  /\ stage' = [stage EXCEPT ![p] = "idle"]
  /\ UNCHANGED <<disk, space, ledger, process, faults>>

-----------------------------------------------------------------------------

\* The process dies: its locks are released, its memory is lost.
Crash(p) ==
  /\ stage[p] # "idle"
  /\ Fault
  /\ stage' = [stage EXCEPT ![p] = "idle"]
  /\ todo' = [todo EXCEPT ![p] = {}]
  /\ led' = [led EXCEPT ![p] = None]
  /\ UNCHANGED <<stores, model, dest>>

Init ==
  /\ disk = [f \in Files |-> 0]
  /\ docs = [p \in Projects |-> None]
  /\ space = [p \in Projects |-> NULL]
  /\ ledger = [p \in Projects |-> None]
  /\ stage = [p \in Projects |-> "idle"]
  /\ todo = [p \in Projects |-> {}]
  /\ led = [p \in Projects |-> None]
  /\ model \in [Projects -> Models]
  /\ dest = [p \in Projects |-> p]
  /\ faults = 0

Build(p) ==
  \/ \E m \in Models : BeginBuild(p, m) \/ BeginReembed(p, m)
  \/ ReembedWipe(p)
  \/ \E f \in Files :
       \/ SkipFile(p, f)
       \/ \E ok \in BOOLEAN : IngestFile(p, f, ok)
       \/ EmbedFails(p, f)
  \/ SaveLedger(p)

Clear(p) == BeginClear(p) \/ ClearWipe(p)

Reconcile(p) ==
  \/ \E q \in Projects, m \in Models : BeginReconcile(p, q, m)
  \/ CopyForeign(p)
  \/ RefuseConflict(p)
  \/ DeleteForeign(p)

Next ==
  \/ \E f \in Files : Append(f)
  \/ \E p \in Projects : Build(p) \/ Clear(p) \/ Reconcile(p) \/ Crash(p)

Spec == Init /\ [][Next]_vars

\* Scheduled builds recur, a command that lives goes on, and the embedder
\* answers again and again; nothing obliges users, agents or crashes.
Fairness ==
  \A p \in Projects :
    /\ WF_vars(\E m \in Models : BeginBuild(p, m))
    /\ WF_vars(ReembedWipe(p) \/ ClearWipe(p) \/ SaveLedger(p))
    /\ WF_vars(CopyForeign(p) \/ RefuseConflict(p) \/ DeleteForeign(p))
    /\ WF_vars(\E f \in Files :
                 SkipFile(p, f) \/ EmbedFails(p, f) \/ \E ok \in BOOLEAN : IngestFile(p, f, ok))
    /\ \A f \in Files : SF_vars(IngestFile(p, f, TRUE))

FairSpec == Spec /\ Fairness

-----------------------------------------------------------------------------

Current(p, f) == f \in DOMAIN docs[p] /\ docs[p][f].text = Pages[disk[f]]

\* "so the ledger never hides stale searchable text" (transcript_ingest.py:397):
\* a file its own project's ledger says is done has its present text in the
\* store, after any crash of a build, a clear, a re-embed or a reconciliation.
OwnLedgerIsTrue ==
  \A p \in Projects : \A f \in DOMAIN ledger[p] \cap Own(p) :
    ledger[p][f] = disk[f] => Current(p, f)

\* A document leaves a store only by a wipe of that store, or when the owner's
\* store holds the same text: no crash of a reconciliation loses one.
OnlyWipesLose ==
  [][\A p \in Projects : \A f \in DOMAIN docs[p] \ DOMAIN docs'[p] :
       \/ stage[p] \in {"wiping", "rewiping"}
       \/ \E q \in Projects \ {p} : f \in DOMAIN docs'[q] /\ docs'[q][f].text = docs[p][f].text
    ]_vars

\* The vectors of the documents a project ingested for its family are in the
\* vector space stamped in its store, whatever model later processes started with.
FamilyVectorsFit ==
  \A p \in Projects : \A f \in DOMAIN docs[p] \ Own(p) :
    docs[p][f].space \in {NULL, space[p]}

\* What a reconciliation can do to its destination: it stamps a new store with the
\* configured model and copies vectors of another dimension into it.  No model can build
\* there any more, one is not the stamped one and the other has not the dimension, until
\* somebody clears or re-embeds the project.
Stranded(p) ==
  \E f \in DOMAIN docs[p] \cap Own(p) :
    docs[p][f].space # NULL /\ space[p] # NULL /\ Dim[docs[p][f].space] # Dim[space[p]]

\* Checkpoint on success: a file whose embedding failed, or whose run died, is
\* retried, so in the end every file is searchable in its project's store, unless a
\* reconciliation has left the project stranded.
EventuallySearchable ==
  \A f \in Files : <>[](disk[f] # 0 /\ ~Stranded(Home[f]) => Current(Home[f], f))
=============================================================================
