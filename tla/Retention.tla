------------------------------- MODULE Retention -------------------------------
(***************************************************************************)
(* Storage retention and the hard prune: what a project's history and the  *)
(* snapshot files of the namespace lose, and what is written down of it.   *)
(*                                                                         *)
(* A job holds its project's mutation lock from its plan to its end; the   *)
(* plan looks at the snapshot files of every project.  The servers forget, *)
(* delete and insert notes meanwhile, without a lock.  The history expires *)
(* in one transaction, the files are unlinked one by one afterwards; a     *)
(* hard prune writes its audit around them.  Any step may raise, and the   *)
(* process may die between any two.                                        *)
(*                                                                         *)
(* Abstracted: an operation is named by the snapshot that was taken before *)
(* it, and a snapshot's number is the order of its mtime.  A note is its   *)
(* row id and its status, with the age of a tombstone; what points at it   *)
(* is in NoteStore.  One Age makes all there is of a project old.  The     *)
(* compaction after the files changes nothing that is modelled, and the    *)
(* confirmation phrase is typed right.                                     *)
(***************************************************************************)
EXTENDS Naturals, FiniteSets

CONSTANTS
  Projects,
  Pruners,  \* those of them that are pruned too
  Notes,    \* Notes[p]: the row ids of notes in p's database
  Policies, \* the retention options people use; who does not limit the snapshots
            \* keeps MaxSnaps
  MaxSnaps, \* bound on the snapshots ever taken
  MaxRuns   \* bound on the hard prunes that get as far as their audit

None == "none"

ASSUME RetentionAssumption ==
  /\ Pruners \subseteq Projects /\ DOMAIN Notes = Projects
  /\ MaxSnaps \in Nat /\ MaxRuns \in Nat
  /\ Policies \subseteq [keep : Nat, ops : BOOLEAN, tombs : BOOLEAN]

VARIABLES
  notes,    \* notes[p][n]: absent, live, fresh (a new tombstone), aged (an old one)
  ops,      \* ops[p][k]: the operation of snapshot k and the notes it retired
  snaps,    \* snaps[k]: the project in whose directory the file lies
  taken,    \* how many snapshots have been taken
  job,      \* job[p]: what the holder of p's mutation lock is at
  audit,    \* audit[r]: what the audit says of hard prune r
  recovery  \* recovery[r]: the operations that r's recovery copy holds

vars == <<notes, ops, snaps, taken, job, audit, recovery>>

Snaps == 1 .. MaxSnaps
Runs == 1 .. MaxRuns
AllNotes == UNION {Notes[p] : p \in Projects}
Plans == [notes : SUBSET AllNotes, ops : SUBSET Snaps, files : SUBSET Snaps]
NoPlan == [notes |-> {}, ops |-> {}, files |-> {}]

Idle == [at |-> "idle", prune |-> FALSE, copy |-> FALSE, plan |-> NoPlan,
         left |-> {}, run |-> 0]

TypeOK ==
  /\ DOMAIN notes = Projects
  /\ \A p \in Projects :
       /\ notes[p] \in [Notes[p] -> {"absent", "live", "fresh", "aged"}]
       /\ DOMAIN ops[p] \subseteq Snaps
       /\ \A k \in DOMAIN ops[p] : 
            ops[p][k] \in [old : BOOLEAN, undone : BOOLEAN, notes : SUBSET Notes[p]]
       /\ job[p] \in [at : {"idle", "beginning", "merging", "auditing", "copying",
                            "expiring", "unlinking", "closing", "failing"},
                      prune : BOOLEAN, copy : BOOLEAN, plan : Plans, left : SUBSET Snaps,
                      run : 0 .. MaxRuns]
  /\ DOMAIN snaps \subseteq 1 .. taken /\ \A k \in DOMAIN snaps : snaps[k] \in Projects
  /\ taken \in 0 .. MaxSnaps
  /\ DOMAIN audit \subseteq Runs
  /\ \A r \in DOMAIN audit :
       audit[r] \in [project : Projects, plan : Plans, end : {None, "completed", "failed"}]
  /\ DOMAIN recovery \subseteq DOMAIN audit
  /\ \A r \in DOMAIN recovery : recovery[r] \subseteq Snaps

Put(f, x, y) == [z \in DOMAIN f \cup {x} |-> IF z = x THEN y ELSE f[z]]
Without(f, S) == [x \in DOMAIN f \ S |-> f[x]]

-----------------------------------------------------------------------------
(* What else happens to a project. *)

\* The calls of a server, which take no lock.  A row id that was freed is used
\* again; what operations recorded of a deleted row stays, and names the new one.
Remember(p, n) ==
  /\ notes[p][n] = "absent"
  /\ notes' = [notes EXCEPT ![p][n] = "live"]

Forget(p, n) ==
  /\ notes[p][n] = "live"
  /\ notes' = [notes EXCEPT ![p][n] = "fresh"]

HardForget(p, n) ==
  /\ notes[p][n] # "absent"
  /\ notes' = [notes EXCEPT ![p][n] = "absent"]

Serve(p) ==
  /\ \E n \in Notes[p] : Remember(p, n) \/ Forget(p, n) \/ HardForget(p, n)
  /\ UNCHANGED <<ops, snaps, taken, job, audit, recovery>>

Age(p) ==
  /\ notes' = [notes EXCEPT ![p] = [n \in Notes[p] |-> IF @[n] = "fresh" THEN "aged" ELSE @[n]]]
  /\ ops' = [ops EXCEPT ![p] = [k \in DOMAIN @ |-> [@[k] EXCEPT !.old = TRUE]]]
  /\ UNCHANGED <<snaps, taken, job, audit, recovery>>

\* A maintenance command takes its snapshot before anything else; a clear or a
\* build --reembed leaves it at that, a merge opens an operation that names it.
TakeSnapshot(p) ==
  /\ job[p].at = "idle"
  /\ taken < MaxSnaps
  /\ taken' = taken + 1
  /\ snaps' = Put(snaps, taken', p)
  /\ \E merge \in BOOLEAN :
       job' = [job EXCEPT ![p].at = IF merge THEN "beginning" ELSE "idle",
                          ![p].left = IF merge THEN {taken'} ELSE {}]
  /\ UNCHANGED <<notes, ops, audit, recovery>>

BeginOperation(p) ==
  /\ job[p].at = "beginning"
  /\ \E k \in job[p].left :
       ops' = [ops EXCEPT ![p] = Put(@, k, [old |-> FALSE, undone |-> FALSE, notes |-> {}])]
  /\ job' = [job EXCEPT ![p].at = "merging"]
  /\ UNCHANGED <<notes, snaps, taken, audit, recovery>>

\* It retires notes; an operation that retired none is dropped when it is finalised.
Merge(p) ==
  /\ job[p].at = "merging"
  /\ \E S \in SUBSET {n \in Notes[p] : notes[p][n] = "live"}, k \in job[p].left :
       /\ ops' = [ops EXCEPT ![p] =
                    IF S = {} THEN Without(@, {k}) ELSE [@ EXCEPT ![k].notes = S]]
       /\ notes' = [notes EXCEPT ![p] = [n \in Notes[p] |-> IF n \in S THEN "fresh" ELSE @[n]]]
  /\ job' = [job EXCEPT ![p] = Idle]
  /\ UNCHANGED <<snaps, taken, audit, recovery>>

\* It revives what is still as the merge left it.
Undo(p, k) ==
  /\ job[p].at = "idle"
  /\ k \in DOMAIN ops[p] /\ ~ops[p][k].undone
  /\ notes' = [notes EXCEPT ![p] =
                 [n \in Notes[p] |-> IF n \in ops[p][k].notes /\ @[n] \in {"fresh", "aged"}
                                  THEN "live" ELSE @[n]]]
  /\ ops' = [ops EXCEPT ![p][k].undone = TRUE]
  /\ UNCHANGED <<snaps, taken, job, audit, recovery>>

-----------------------------------------------------------------------------
(* The plan. *)

\* Snapshots and notes that the recorded operations of a project refer to.
Referenced(p) ==
  [NoPlan EXCEPT !.files = DOMAIN ops[p],
                 !.notes = UNION {ops[p][k].notes : k \in DOMAIN ops[p]}]

\* Protected mutated: what only expiring operations refer to is free at once.
ProtectedByTheRest(p, pol) ==
  LET rest == {k \in DOMAIN ops[p] : ~(pol.ops /\ ops[p][k].old)}
  IN  [NoPlan EXCEPT !.files = rest, !.notes = UNION {ops[p][k].notes : k \in rest}]

Protected(p, pol) == Referenced(p)

\* The snapshots that `keep` newer ones in their directory make superfluous.
Surplus(keep) ==
  {k \in DOMAIN snaps :
     Cardinality({j \in DOMAIN snaps : snaps[j] = snaps[k] /\ j > k}) >= keep}

Plan(p, pol) ==
  [files |-> Surplus(pol.keep) \ Protected(p, pol).files,
   ops   |-> IF pol.ops THEN {k \in DOMAIN ops[p] : ops[p][k].old} ELSE {},
   notes |-> IF pol.tombs
             THEN {n \in Notes[p] : notes[p][n] = "aged"} \ Protected(p, pol).notes ELSE {}]

-----------------------------------------------------------------------------
(* Its execution. *)

Planned(p, pol, at, prune, copy) ==
  /\ job[p].at = "idle"
  /\ job' = [job EXCEPT ![p] =
               [Idle EXCEPT !.at = at, !.prune = prune, !.copy = copy,
                            !.plan = Plan(p, pol)]]
  /\ UNCHANGED <<notes, ops, snaps, taken, audit, recovery>>

ApplyRetention(p, pol) == Planned(p, pol, "expiring", FALSE, FALSE)

\* The digest that was approved must be that of the plan as it is now, and the plan
\* not empty; with any other digest nothing happens.
ExecuteHardPrune(p, pol, copy) ==
  /\ p \in Pruners /\ Cardinality(DOMAIN audit) < MaxRuns
  /\ Plan(p, pol) # NoPlan
  /\ Planned(p, pol, "auditing", TRUE, copy)

StartAudit(p, r) ==
  /\ job[p].at = "auditing"
  /\ r = Cardinality(DOMAIN audit) + 1
  /\ audit' = Put(audit, r, [project |-> p, plan |-> job[p].plan, end |-> None])
  /\ job' = [job EXCEPT ![p].at = IF job[p].copy THEN "copying" ELSE "expiring", ![p].run = r]
  /\ UNCHANGED <<notes, ops, snaps, taken, recovery>>

EndAudit(p, at, end) ==
  /\ job[p].at = at
  /\ audit' = [audit EXCEPT ![job[p].run].end = end]
  /\ job' = [job EXCEPT ![p] = Idle]
  /\ UNCHANGED <<notes, ops, snaps, taken, recovery>>

\* VACUUM INTO the recovery copy.
CopyDatabase(p) ==
  /\ job[p].at = "copying"
  /\ recovery' = Put(recovery, job[p].run, DOMAIN ops[p])
  /\ job' = [job EXCEPT ![p].at = "expiring"]
  /\ UNCHANGED <<notes, ops, snaps, taken, audit>>

\* Purged mutated: the row is deleted by its id alone.
PurgedById(status) == "absent"

\* DELETE ... AND status='tombstoned'
Purged(status) == IF status \in {"fresh", "aged"} THEN "absent" ELSE status

\* ExpireHistory mutated: it plans once more.
ExpireHistoryReplanned(p) ==
  LET plan == Plan(p, [keep |-> MaxSnaps, ops |-> TRUE, tombs |-> TRUE])
  IN  /\ job[p].at = "expiring"
      /\ notes' = [notes EXCEPT ![p] =
                     [n \in Notes[p] |-> IF n \in plan.notes THEN Purged(@[n]) ELSE @[n]]]
      /\ ops' = [ops EXCEPT ![p] = Without(@, plan.ops)]
      /\ job' = [job EXCEPT ![p].at = "unlinking", ![p].left = job[p].plan.files]
      /\ UNCHANGED <<snaps, taken, audit, recovery>>

\* _apply_history_expiry: one transaction.
ExpireHistory(p) ==
  LET plan == job[p].plan
  IN  /\ job[p].at = "expiring"
      /\ notes' = [notes EXCEPT ![p] =
                     [n \in Notes[p] |-> IF n \in plan.notes THEN Purged(@[n]) ELSE @[n]]]
      /\ ops' = [ops EXCEPT ![p] = Without(@, plan.ops)]
      /\ job' = [job EXCEPT ![p].at = "unlinking", ![p].left = plan.files]
      /\ UNCHANGED <<snaps, taken, audit, recovery>>

\* One file, if it is still there and nothing in the project's history refers to
\* it (a reference that appeared since the plan would refuse the rest).
Unlink(p, k) ==
  /\ job[p].at = "unlinking"
  /\ k \in job[p].left
  /\ k \notin Referenced(p).files
  /\ snaps' = Without(snaps, {k})
  /\ job' = [job EXCEPT ![p].left = @ \ {k}]
  /\ UNCHANGED <<notes, ops, taken, audit, recovery>>

Finish(p) ==
  /\ job[p].at = "unlinking"
  /\ job[p].left = {}
  /\ job' = [job EXCEPT ![p] = IF @.prune THEN [@ EXCEPT !.at = "closing"] ELSE Idle]
  /\ UNCHANGED <<notes, ops, snaps, taken, audit, recovery>>

\* A copy, a transaction, an unlink or the integrity check raises.
Fail(p) ==
  /\ job[p].at \in {"copying", "expiring", "unlinking", "closing"}
  /\ job' = [job EXCEPT ![p] = IF @.prune THEN [@ EXCEPT !.at = "failing"] ELSE Idle]
  /\ UNCHANGED <<notes, ops, snaps, taken, audit, recovery>>

\* The process dies, or cannot write its audit.
Die(p) ==
  /\ job[p].at # "idle"
  /\ job' = [job EXCEPT ![p] = Idle]
  /\ UNCHANGED <<notes, ops, snaps, taken, audit, recovery>>

-----------------------------------------------------------------------------

Init ==
  /\ notes = [p \in Projects |-> [n \in Notes[p] |-> "live"]]
  /\ ops = [p \in Projects |-> [k \in {} |-> NoPlan]]
  /\ snaps = [k \in {} |-> None]
  /\ taken = 0
  /\ job = [p \in Projects |-> Idle]
  /\ audit = [r \in {} |-> NoPlan]
  /\ recovery = [r \in {} |-> {}]

Execute(p) ==
  \/ \E r \in Runs : StartAudit(p, r)
  \/ CopyDatabase(p) \/ ExpireHistory(p)
  \/ \E k \in Snaps : Unlink(p, k)
  \/ Finish(p) \/ Fail(p) \/ Die(p)
  \/ EndAudit(p, "closing", "completed") \/ EndAudit(p, "failing", "failed")

Next ==
  \E p \in Projects :
    \/ Serve(p) \/ Age(p) \/ TakeSnapshot(p) \/ BeginOperation(p) \/ Merge(p)
    \/ \E k \in Snaps : Undo(p, k)
    \/ \E pol \in Policies :
         \/ ApplyRetention(p, pol)
         \/ \E copy \in BOOLEAN : ExecuteHardPrune(p, pol, copy)
    \/ Execute(p)

Spec == Init /\ [][Next]_vars
-----------------------------------------------------------------------------

Expiring(p) == job[p].at = "expiring" /\ job'[p].at = "unlinking"
Unlinking(p) == job[p].at = "unlinking" /\ job'[p].left # job[p].left

LostNotes(p) == {n \in Notes[p] : notes[p][n] # "absent" /\ notes'[p][n] = "absent"}
LostOps(p) == DOMAIN ops[p] \ DOMAIN ops'[p]
LostFiles == DOMAIN snaps \ DOMAIN snaps'

\* "Curated memory (active/superseded notes, ...) is never touched"
\* (storage_accounting.py:14): also not when a planned row was deleted since and its
\* id is a live note's.
LiveNotesStay ==
  [][\A p \in Projects : Expiring(p) =>
       \A n \in Notes[p] : notes[p][n] = "live" => notes'[p][n] = "live"]_vars

\* "expiring both in one run never unprotects mid-run" (storage_accounting.py:335):
\* what any operation referred to when the run planned, the run does not remove, even
\* if it has removed that operation by then.
NothingUnprotectedMidRun ==
  [][\A p \in Projects :
       /\ Expiring(p) => LostNotes(p) \cap Referenced(p).notes = {}
       /\ Unlinking(p) => LostFiles \cap (Referenced(p).files \cup job[p].plan.ops) = {}]_vars

\* Whatever a hard prune removes is named in a durable entry of the audit before it
\* is removed, wherever the prune fails or dies later.
AuditNamesAll ==
  [][\A p \in Projects : job[p].prune /\ (Expiring(p) \/ Unlinking(p)) =>
       \E r \in DOMAIN audit :
         /\ r = job[p].run /\ audit[r].project = p
         /\ LostNotes(p) \subseteq audit[r].plan.notes
         /\ LostOps(p) \subseteq audit[r].plan.ops
         /\ LostFiles \subseteq audit[r].plan.files]_vars

\* "a failed requested snapshot aborts before deletion" (storage_accounting.py:894):
\* with a recovery copy asked for, the history that goes is in the copy.
CopyComesFirst ==
  [][\A p \in Projects : job[p].copy /\ Expiring(p) =>
       \E r \in DOMAIN recovery : r = job[p].run /\ LostOps(p) \subseteq recovery[r]]_vars

\* An audit that says completed is right: no operation and no file of the plan is
\* left, whatever other projects' retention did to the same files meanwhile.
CompletedIsDone ==
  \A r \in DOMAIN audit : audit[r].end = "completed" =>
    /\ audit[r].plan.ops \cap DOMAIN ops[audit[r].project] = {}
    /\ audit[r].plan.files \cap DOMAIN snaps = {}

\* The audit can be relied on: it names what goes before it goes, with its copy made,
\* and its end is what happened.
AuditIsTrue == AuditNamesAll /\ CopyComesFirst /\ []CompletedIsDone

(* What the module docstring says and some behaviour of the code contradicts. *)

\* "a snapshot referenced by undo/operation history is never deleted"
\* (storage_accounting.py:11).
ReferencedSnapshotsStay == \A p \in Projects : DOMAIN ops[p] \subseteq DOMAIN snaps
=============================================================================
