---------------------------- MODULE RetentionProofs ----------------------------
(***************************************************************************)
(* For any number of projects, notes and snapshots: a run removes nothing  *)
(* that is live, nothing that the history referred to when it planned, and *)
(* nothing its audit does not name; and an audit that says completed stays *)
(* right.                                                                  *)
(*                                                                         *)
(* The invariant follows one job from its plan to its end (JobOK): what it *)
(* has planned is apart from what the history refers to until the history  *)
(* expires, is what the audit says from StartAudit on, and is gone by the  *)
(* time it closes.  It stays gone because a new snapshot and a new         *)
(* operation have numbers no plan names (AuditsOK).                        *)
(***************************************************************************)
EXTENDS Retention, FiniteSetTheorems, TLAPS

Status == {"absent", "live", "fresh", "aged"}
History(p) == [old : BOOLEAN, undone : BOOLEAN, notes : SUBSET Notes[p]]
Stages == {"idle", "beginning", "merging", "auditing", "copying",
           "expiring", "unlinking", "closing", "failing"}
Job == [at : Stages, prune : BOOLEAN, copy : BOOLEAN, plan : Plans,
        left : SUBSET Snaps, run : 0 .. MaxRuns]
Entry == [project : Projects, plan : Plans, end : {None, "completed", "failed"}]

NotesShape ==
  DOMAIN notes = Projects /\ \A p \in Projects : notes[p] \in [Notes[p] -> Status]

OpsShape ==
  /\ DOMAIN ops = Projects
  /\ \A p \in Projects :
       DOMAIN ops[p] \subseteq 1 .. taken /\ \A k \in DOMAIN ops[p] : ops[p][k] \in History(p)

SnapsShape ==
  /\ DOMAIN snaps \subseteq 1 .. taken /\ \A k \in DOMAIN snaps : snaps[k] \in Projects
  /\ taken \in 0 .. MaxSnaps

AuditShape ==
  /\ \E m \in 0 .. MaxRuns : DOMAIN audit = 1 .. m
  /\ \A r \in DOMAIN audit : audit[r] \in Entry
  /\ DOMAIN recovery \subseteq DOMAIN audit
  /\ \A r \in DOMAIN recovery : recovery[r] \subseteq Snaps

Shape == NotesShape /\ OpsShape /\ job \in [Projects -> Job] /\ SnapsShape /\ AuditShape

\* The audit's entry is that of p's run.
Audited(p, j) ==
  j.run \in DOMAIN audit /\ audit[j.run].project = p /\ audit[j.run].plan = j.plan

JobOK(p) ==
  /\ job[p].at = "idle" => job[p] = Idle
  /\ job[p].plan.ops \subseteq 1 .. taken /\ job[p].plan.files \subseteq 1 .. taken
  /\ job[p].plan.ops \cap job[p].plan.files = {}
  /\ job[p].at = "beginning" => \A k \in job[p].left :
       /\ k \in 1 .. taken /\ k \notin DOMAIN ops[p]
       /\ \A r \in DOMAIN audit : audit[r].project = p => k \notin audit[r].plan.ops
  /\ job[p].at \in {"auditing", "copying", "closing", "failing"} => job[p].prune
  /\ job[p].at \in {"auditing", "copying", "expiring"} =>
       job[p].plan.notes \cap Referenced(p).notes = {}
  /\ job[p].at = "unlinking" =>
       /\ job[p].left \subseteq job[p].plan.files
       /\ (job[p].plan.files \ job[p].left) \cap DOMAIN snaps = {}
  /\ job[p].at \in {"unlinking", "closing"} => job[p].plan.ops \cap DOMAIN ops[p] = {}
  /\ job[p].at = "closing" => job[p].plan.files \cap DOMAIN snaps = {}
  /\ job[p].prune /\ job[p].at \in {"copying", "expiring", "unlinking", "closing", "failing"} =>
       Audited(p, job[p])
  /\ job[p].copy /\ job[p].at = "expiring" =>
       /\ job[p].prune /\ job[p].run \in DOMAIN recovery
       /\ DOMAIN ops[p] \subseteq recovery[job[p].run]

AuditsOK ==
  /\ \A r \in DOMAIN audit :
       audit[r].plan.ops \subseteq 1 .. taken /\ audit[r].plan.files \subseteq 1 .. taken
  /\ CompletedIsDone

IInv == Shape /\ (\A p \in Projects : JobOK(p)) /\ AuditsOK

-----------------------------------------------------------------------------
(* The operators the actions are built from. *)

LEMMA ReferencedFacts ==
  ASSUME NEW p \in Projects
  PROVE  /\ Referenced(p).files = DOMAIN ops[p]
         /\ Referenced(p).notes = UNION {ops[p][k].notes : k \in DOMAIN ops[p]}
BY DEF Referenced, NoPlan

LEMMA IdleIsJob == Idle \in Job /\ Idle.plan = NoPlan /\ Idle.at = "idle" /\ Idle.left = {}
                     /\ ~Idle.prune /\ ~Idle.copy
BY RetentionAssumption DEF Idle, Job, Stages, Plans, NoPlan

LEMMA NoPlanFacts == NoPlan \in Plans /\ NoPlan.ops = {} /\ NoPlan.files = {} /\ NoPlan.notes = {}
BY DEF NoPlan, Plans

\* An idle job is as good as any.
LEMMA IdleOK ==
  ASSUME NEW p \in Projects, job'[p] = Idle
  PROVE  JobOK(p)'
BY IdleIsJob, NoPlanFacts DEF JobOK

\* A job is untouched by what the others do: they give new numbers to what
\* they add, and write their own entries of the audit.
LEMMA JobFrame ==
  ASSUME NEW q \in Projects, JobOK(q), job'[q] = job[q],
         taken \in Nat, taken' \in Nat, taken <= taken',
         DOMAIN ops'[q] = DOMAIN ops[q], Referenced(q).notes' = Referenced(q).notes,
         \A k \in DOMAIN snaps' : k \in DOMAIN snaps \/ k > taken,
         DOMAIN audit \subseteq DOMAIN audit',
         \A r \in DOMAIN audit :
           audit'[r].project = audit[r].project /\ audit'[r].plan = audit[r].plan,
         \A r \in DOMAIN audit' \ DOMAIN audit :
           audit'[r].project # q \/ audit'[r].plan.ops \cap job[q].left = {},
         job[q].prune /\ job[q].at = "expiring" /\ job[q].run \in DOMAIN recovery =>
           job[q].run \in DOMAIN recovery' /\ recovery'[job[q].run] = recovery[job[q].run]
  PROVE  JobOK(q)'
<1>1. /\ job'[q].plan.ops \subseteq 1 .. taken' /\ job'[q].plan.files \subseteq 1 .. taken'
      /\ \A k \in job[q].plan.files : k <= taken
  BY DEF JobOK
<1>2. job'[q].at = "beginning" => \A k \in job'[q].left :
       /\ k \in 1 .. taken' /\ k \notin DOMAIN ops'[q]
       /\ \A r \in DOMAIN audit' : audit'[r].project = q => k \notin audit'[r].plan.ops
  BY DEF JobOK
<1>3. \A k \in DOMAIN snaps' : k \in job[q].plan.files => k \in DOMAIN snaps
  BY <1>1
<1>4. job'[q].prune /\ job'[q].at \in {"copying", "expiring", "unlinking", "closing", "failing"} =>
       Audited(q, job[q])'
  BY DEF JobOK, Audited
<1> QED
  BY <1>1, <1>2, <1>3, <1>4 DEF JobOK

\* The audit stays true when it is not written: what is gone stays gone.
LEMMA AuditsFrame ==
  ASSUME AuditsOK, UNCHANGED audit, \A r \in DOMAIN audit : audit[r].project \in Projects,
         taken \in Nat, taken' \in Nat, taken <= taken',
         \A k \in DOMAIN snaps' : k \in DOMAIN snaps \/ k > taken,
         \A q \in Projects : \A k \in DOMAIN ops'[q] :
           \/ k \in DOMAIN ops[q]
           \/ \A r \in DOMAIN audit : audit[r].project = q => k \notin audit[r].plan.ops
  PROVE  AuditsOK'
BY DEF AuditsOK, CompletedIsDone

\* The history refers to the notes it did when its records of them are unchanged.
LEMMA SameReferences ==
  ASSUME NEW q \in Projects, DOMAIN ops'[q] = DOMAIN ops[q],
         \A k \in DOMAIN ops[q] : ops'[q][k].notes = ops[q][k].notes
  PROVE  Referenced(q).notes' = Referenced(q).notes
<1>1. UNION {ops'[q][k].notes : k \in DOMAIN ops'[q]} = UNION {ops[q][k].notes : k \in DOMAIN ops[q]}
  OBVIOUS
<1> QED
  BY <1>1 DEF Referenced, NoPlan

\* Steps that write neither the audit nor the recovery copies: only the jobs
\* that move or whose history changes need a look.
LEMMA StepFrame ==
  ASSUME IInv, UNCHANGED <<audit, recovery>>, taken' \in Nat, taken <= taken',
         \A k \in DOMAIN snaps' : k \in DOMAIN snaps \/ k > taken,
         NEW p \in Projects, \A q \in Projects \ {p} : job'[q] = job[q] /\ ops'[q] = ops[q]
  PROVE  \A q \in Projects \ {p} : JobOK(q)'
<1> SUFFICES ASSUME NEW q \in Projects \ {p} PROVE JobOK(q)'
  OBVIOUS
<1>1. job'[q] = job[q] /\ ops'[q] = ops[q] /\ JobOK(q) /\ taken \in Nat
  BY RetentionAssumption DEF IInv, Shape, SnapsShape
<1>2. Referenced(q).notes' = Referenced(q).notes
  BY <1>1, SameReferences
<1> QED
  BY <1>1, <1>2, JobFrame

LEMMA UnloggedFrame ==
  ASSUME IInv, UNCHANGED <<audit, recovery>>, taken' \in Nat, taken <= taken',
         \A k \in DOMAIN snaps' : k \in DOMAIN snaps \/ k > taken,
         \A q \in Projects : DOMAIN ops'[q] \subseteq DOMAIN ops[q]
  PROVE  AuditsOK' /\ AuditShape'
<1>1. /\ AuditsOK /\ AuditShape /\ taken \in Nat
      /\ \A r \in DOMAIN audit : audit[r].project \in Projects
  BY RetentionAssumption DEF IInv, Shape, SnapsShape, AuditShape, Entry
<1>2. AuditShape'
  BY <1>1 DEF AuditShape
<1>3. AuditsOK'
  BY <1>1, AuditsFrame
<1> QED
  BY <1>2, <1>3

\* Steps that keep the history's references and leave the job where it is.
LEMMA RowsFrame ==
  ASSUME IInv, UNCHANGED <<snaps, taken, job, audit, recovery>>, NotesShape', OpsShape',
         \A q \in Projects :
           /\ DOMAIN ops'[q] = DOMAIN ops[q]
           /\ \A k \in DOMAIN ops[q] : ops'[q][k].notes = ops[q][k].notes
  PROVE  IInv'
<1>1. taken \in Nat
  BY RetentionAssumption DEF IInv, Shape, SnapsShape
<1>2. ASSUME NEW q \in Projects PROVE JobOK(q)'
  <2>1. Referenced(q).notes' = Referenced(q).notes
    BY SameReferences
  <2> QED
    BY <1>1, <2>1, JobFrame DEF IInv
<1>3. AuditsOK' /\ AuditShape'
  BY <1>1, UnloggedFrame
<1>4. Shape'
  BY <1>3 DEF IInv, Shape, SnapsShape
<1> QED
  BY <1>2, <1>3, <1>4 DEF IInv

LEMMA ServeOK ==
  ASSUME IInv, NEW p \in Projects, Serve(p)
  PROVE  IInv'
<1>1. PICK n \in Notes[p], s \in Status : notes' = [notes EXCEPT ![p][n] = s]
  BY DEF Serve, Remember, Forget, HardForget, Status
<1>2. NotesShape'
  BY <1>1 DEF IInv, Shape, NotesShape
<1>3. OpsShape' /\ UNCHANGED ops /\ UNCHANGED <<snaps, taken, job, audit, recovery>>
  BY DEF IInv, Shape, OpsShape, Serve, History
<1> QED
  BY <1>2, <1>3, RowsFrame

LEMMA AgeOK ==
  ASSUME IInv, NEW p \in Projects, Age(p)
  PROVE  IInv'
<1>1. NotesShape'
  BY DEF IInv, Shape, NotesShape, Age, Status
<1>2. /\ DOMAIN ops = Projects /\ DOMAIN ops' = Projects
      /\ ops'[p] = [k \in DOMAIN ops[p] |-> [ops[p][k] EXCEPT !.old = TRUE]]
      /\ \A q \in Projects \ {p} : ops'[q] = ops[q]
  BY DEF IInv, Shape, OpsShape, Age
<1>3. ASSUME NEW k \in DOMAIN ops[p]
      PROVE  ops'[p][k] \in History(p) /\ ops'[p][k].notes = ops[p][k].notes
  <2>1. ops[p][k] \in History(p)
    BY DEF IInv, Shape, OpsShape
  <2> QED
    BY <1>2, <2>1 DEF History
<1>4. /\ UNCHANGED <<snaps, taken, job, audit, recovery>>
      /\ \A q \in Projects : DOMAIN ops'[q] = DOMAIN ops[q]
  BY <1>2 DEF Age
<1>5. OpsShape'
  BY <1>2, <1>3, <1>4 DEF IInv, Shape, OpsShape, History
<1> QED
  BY <1>1, <1>2, <1>3, <1>4, <1>5, RowsFrame

LEMMA UndoOK ==
  ASSUME IInv, NEW p \in Projects, NEW k \in Snaps, Undo(p, k)
  PROVE  IInv'
<1>1. NotesShape'
  BY DEF IInv, Shape, NotesShape, Undo, Status
<1>2. /\ DOMAIN ops = Projects /\ k \in DOMAIN ops[p] /\ ops[p][k] \in History(p)
      /\ ops' = [ops EXCEPT ![p][k].undone = TRUE]
      /\ UNCHANGED <<snaps, taken, job, audit, recovery>>
  BY DEF IInv, Shape, OpsShape, Undo
<1>3. /\ DOMAIN ops' = Projects /\ DOMAIN ops'[p] = DOMAIN ops[p]
      /\ ops'[p][k] = [ops[p][k] EXCEPT !.undone = TRUE]
      /\ \A i \in DOMAIN ops[p] \ {k} : ops'[p][i] = ops[p][i]
      /\ \A q \in Projects \ {p} : ops'[q] = ops[q]
  BY <1>2
<1>4. ops'[p][k] \in History(p) /\ ops'[p][k].notes = ops[p][k].notes
  BY <1>2, <1>3 DEF History
<1>5. OpsShape'
  BY <1>2, <1>3, <1>4 DEF IInv, Shape, OpsShape, History
<1>6. \A q \in Projects :
           /\ DOMAIN ops'[q] = DOMAIN ops[q]
           /\ \A i \in DOMAIN ops[q] : ops'[q][i].notes = ops[q][i].notes
  BY <1>3, <1>4
<1> QED
  BY <1>1, <1>2, <1>5, <1>6, RowsFrame

\* A step of p's job that adds nothing to the history.
LEMMA MovedFrame ==
  ASSUME IInv, UNCHANGED <<audit, recovery>>, SnapsShape', taken <= taken',
         \A k \in DOMAIN snaps' : k \in DOMAIN snaps \/ k > taken,
         NEW p \in Projects, JobOK(p)', job' \in [Projects -> Job],
         \A q \in Projects \ {p} : job'[q] = job[q] /\ ops'[q] = ops[q],
         DOMAIN ops'[p] \subseteq DOMAIN ops[p], NotesShape', OpsShape'
  PROVE  IInv'
<1>1. taken' \in Nat
  BY RetentionAssumption DEF SnapsShape
<1>3. \A q \in Projects \ {p} : JobOK(q)'
  BY <1>1, StepFrame
<1>4. AuditsOK' /\ AuditShape'
  BY <1>1, UnloggedFrame
<1>5. \A q \in Projects : JobOK(q)'
  BY <1>3
<1> QED
  BY <1>4, <1>5 DEF IInv, Shape

\* The same when nothing but the job changes.
LEMMA JobFrameOnly ==
  ASSUME IInv, UNCHANGED <<notes, ops, snaps, taken, audit, recovery>>,
         NEW p \in Projects, NEW j \in Job, job' = [job EXCEPT ![p] = j], JobOK(p)'
  PROVE  IInv'
<1>1. SnapsShape' /\ NotesShape' /\ OpsShape'
  BY DEF IInv, Shape, SnapsShape, NotesShape, OpsShape, History
<1>2. taken <= taken'
  BY RetentionAssumption DEF IInv, Shape, SnapsShape
<1>3. job' \in [Projects -> Job] /\ \A q \in Projects \ {p} : job'[q] = job[q]
  BY DEF IInv, Shape
<1> QED
  BY <1>1, <1>2, <1>3, MovedFrame

LEMMA TakeSnapshotOK ==
  ASSUME IInv, NEW p \in Projects, TakeSnapshot(p)
  PROVE  IInv'
<1>1. PICK merge \in BOOLEAN :
        job' = [job EXCEPT ![p].at = IF merge THEN "beginning" ELSE "idle",
                           ![p].left = IF merge THEN {taken'} ELSE {}]
  BY DEF TakeSnapshot
<1> DEFINE j == [Idle EXCEPT !.at = IF merge THEN "beginning" ELSE "idle",
                             !.left = IF merge THEN {taken'} ELSE {}]
<1>2. /\ job[p] = Idle /\ job \in [Projects -> Job] /\ taken \in Nat
      /\ taken' = taken + 1 /\ taken' \in 1 .. MaxSnaps /\ taken' \in 0 .. MaxSnaps
      /\ UNCHANGED <<notes, ops, audit, recovery>>
  BY RetentionAssumption DEF IInv, Shape, SnapsShape, JobOK, TakeSnapshot
<1>3. job' = [job EXCEPT ![p] = j] /\ job'[p] = j
  BY <1>1, <1>2
<1>4. /\ j \in Job /\ j.plan = NoPlan /\ ~j.prune /\ ~j.copy
      /\ merge => j.at = "beginning" /\ j.left = {taken'}
      /\ ~merge => j = Idle
  <2>1. /\ Idle \in Job /\ Idle.plan = NoPlan /\ Idle.at = "idle" /\ Idle.left = {}
        /\ ~Idle.prune /\ ~Idle.copy
    BY IdleIsJob
  <2>2. CASE merge
    <3>1. j = [Idle EXCEPT !.at = "beginning", !.left = {taken'}] /\ taken' \in Snaps
      BY <1>2, <2>2 DEF Snaps
    <3> QED
      BY <2>1, <2>2, <3>1 DEF Job, Stages
  <2>3. CASE ~merge
    <3>1. j = [Idle EXCEPT !.at = "idle", !.left = {}]
      BY <2>3
    <3>2. j = Idle
      BY <2>1, <3>1 DEF Job
    <3> QED
      BY <2>1, <2>3, <3>2
  <2> QED
    BY <2>2, <2>3
<1> HIDE DEF j
<1>5. /\ DOMAIN snaps' = DOMAIN snaps \cup {taken'} /\ snaps'[taken'] = p
      /\ \A k \in DOMAIN snaps \ {taken'} : snaps'[k] = snaps[k]
  BY DEF TakeSnapshot, Put
<1>6. SnapsShape' /\ \A k \in DOMAIN snaps' : k \in DOMAIN snaps \/ k > taken
  BY <1>2, <1>5 DEF IInv, Shape, SnapsShape
<1>7. JobOK(p)'
  <2>1. CASE merge
    <3>1. /\ taken' \notin DOMAIN ops'[p]
          /\ \A r \in DOMAIN audit : taken' \notin audit[r].plan.ops
      BY <1>2 DEF IInv, Shape, OpsShape, AuditsOK
    <3> QED
      BY <1>2, <1>3, <1>4, <2>1, <3>1, NoPlanFacts DEF JobOK
  <2>2. CASE ~merge
    BY <1>3, <1>4, <2>2, IdleOK
  <2> QED
    BY <2>1, <2>2
<1>8. NotesShape' /\ OpsShape'
  BY <1>2 DEF IInv, Shape, NotesShape, OpsShape, History
<1>9. /\ job' \in [Projects -> Job] /\ taken <= taken'
      /\ \A q \in Projects \ {p} : job'[q] = job[q] /\ ops'[q] = ops[q]
      /\ UNCHANGED <<audit, recovery>> /\ DOMAIN ops'[p] \subseteq DOMAIN ops[p]
  BY <1>2, <1>3, <1>4
<1> QED
  BY <1>6, <1>7, <1>8, <1>9, MovedFrame

LEMMA BeginOperationOK ==
  ASSUME IInv, NEW p \in Projects, BeginOperation(p)
  PROVE  IInv'
<1>1. PICK k \in job[p].left :
       ops' = [ops EXCEPT ![p] = Put(@, k, [old |-> FALSE, undone |-> FALSE, notes |-> {}])]
  BY DEF BeginOperation
<1> DEFINE j == [job[p] EXCEPT !.at = "merging"]
<1>2. /\ job' = [job EXCEPT ![p] = j] /\ job[p] \in Job /\ job[p].at = "beginning" /\ job'[p] = j
      /\ job' \in [Projects -> Job] /\ JobOK(p) /\ taken \in Nat
      /\ DOMAIN ops = Projects /\ DOMAIN ops[p] \subseteq 1 .. taken
      /\ UNCHANGED <<notes, snaps, taken, audit, recovery>>
  BY RetentionAssumption DEF BeginOperation, IInv, Shape, OpsShape, SnapsShape, Job, Stages
<1>3. /\ k \in 1 .. taken
      /\ \A r \in DOMAIN audit : audit[r].project = p => k \notin audit[r].plan.ops
  BY <1>2 DEF JobOK
<1>4. j.at = "merging" /\ j.plan = job[p].plan
  BY <1>2 DEF Job
<1>5. JobOK(p)'
  BY <1>2, <1>4 DEF JobOK
<1> DEFINE h == ops'[p]
           new == [old |-> FALSE, undone |-> FALSE, notes |-> {}]
<1>6. h = Put(ops[p], k, new) /\ \A q \in Projects \ {p} : ops'[q] = ops[q]
  BY <1>1, <1>2
<1>7. DOMAIN h = DOMAIN ops[p] \cup {k} /\ h[k] = new /\ \A i \in DOMAIN ops[p] \ {k} : h[i] = ops[p][i]
  BY <1>6 DEF Put
<1>8. OpsShape'
  <2>1. DOMAIN ops' = Projects
    BY <1>1, <1>2
  <2>2. new \in History(p)
    BY DEF History
  <2>3. ASSUME NEW q \in Projects
        PROVE  DOMAIN ops'[q] \subseteq 1 .. taken' /\ \A i \in DOMAIN ops'[q] : ops'[q][i] \in History(q)
    <3>1. OpsShape /\ taken' = taken
      BY <1>2 DEF IInv, Shape
    <3>2. CASE q = p
      BY <1>3, <1>7, <2>2, <3>1, <3>2 DEF OpsShape
    <3>3. CASE q # p
      BY <1>6, <3>1, <3>3 DEF OpsShape
    <3> QED
      BY <3>2, <3>3
  <2> QED
    BY <2>1, <2>3 DEF OpsShape
<1>9. \A q \in Projects \ {p} : JobOK(q)'
  BY <1>2, <1>6, StepFrame
<1>10. AuditsOK'
  <2>1. AuditsOK /\ \A r \in DOMAIN audit : audit[r].project \in Projects
    BY DEF IInv, Shape, AuditShape, Entry
  <2>2. \A q \in Projects : \A i \in DOMAIN ops'[q] :
           \/ i \in DOMAIN ops[q]
           \/ \A r \in DOMAIN audit : audit[r].project = q => i \notin audit[r].plan.ops
    BY <1>3, <1>6, <1>7
  <2> QED
    BY <1>2, <2>1, <2>2, AuditsFrame
<1>11. NotesShape' /\ SnapsShape' /\ AuditShape'
  BY <1>2 DEF IInv, Shape, NotesShape, SnapsShape, AuditShape
<1> QED
  BY <1>2, <1>5, <1>8, <1>9, <1>10, <1>11 DEF IInv, Shape

LEMMA MergeOK ==
  ASSUME IInv, NEW p \in Projects, Merge(p)
  PROVE  IInv'
<1>1. PICK S \in SUBSET {n \in Notes[p] : notes[p][n] = "live"}, k \in job[p].left :
       /\ ops' = [ops EXCEPT ![p] =
                    IF S = {} THEN Without(@, {k}) ELSE [@ EXCEPT ![k].notes = S]]
       /\ notes' = [notes EXCEPT ![p] = [n \in Notes[p] |-> IF n \in S THEN "fresh" ELSE @[n]]]
  BY DEF Merge
<1>2. /\ job' = [job EXCEPT ![p] = Idle] /\ job'[p] = Idle /\ DOMAIN ops = Projects
      /\ UNCHANGED <<snaps, taken, audit, recovery>>
      /\ SnapsShape /\ taken \in Nat
  BY RetentionAssumption DEF Merge, IInv, Shape, OpsShape, SnapsShape
<1>3. NotesShape' /\ SnapsShape'
  BY <1>1, <1>2 DEF IInv, Shape, NotesShape, SnapsShape, Status
<1>4. /\ DOMAIN ops' = Projects /\ \A q \in Projects \ {p} : ops'[q] = ops[q]
      /\ ops'[p] = IF S = {} THEN Without(ops[p], {k}) ELSE [ops[p] EXCEPT ![k].notes = S]
  BY <1>1, <1>2
<1>5. /\ DOMAIN ops'[p] \subseteq DOMAIN ops[p]
      /\ \A i \in DOMAIN ops'[p] : ops'[p][i] \in History(p)
  <2>1. CASE S = {}
    <3>1. ops'[p] = Without(ops[p], {k})
      BY <1>4, <2>1
    <3> QED
      BY <3>1 DEF Without, IInv, Shape, OpsShape
  <2>2. CASE S # {}
    <3>1. ops'[p] = [ops[p] EXCEPT ![k].notes = S]
      BY <1>4, <2>2
    <3>2. DOMAIN ops'[p] = DOMAIN ops[p] /\ \A i \in DOMAIN ops[p] : 
            ops'[p][i] = IF i = k THEN [ops[p][i] EXCEPT !.notes = S] ELSE ops[p][i]
      BY <3>1
    <3>3. \A i \in DOMAIN ops[p] : ops[p][i] \in History(p)
      BY DEF IInv, Shape, OpsShape
    <3>4. \A row \in History(p) : [row EXCEPT !.notes = S] \in History(p)
      BY DEF History
    <3> QED
      BY <3>2, <3>3, <3>4
  <2> QED
    BY <2>1, <2>2
<1>6. OpsShape'
  BY <1>2, <1>4, <1>5 DEF IInv, Shape, OpsShape, History
<1>7. JobOK(p)'
  BY <1>2, IdleOK
<1>8. /\ job' \in [Projects -> Job] /\ taken <= taken'
      /\ \A q \in Projects \ {p} : job'[q] = job[q]
      /\ UNCHANGED <<snaps, audit, recovery>>
  BY <1>2, IdleIsJob DEF IInv, Shape
<1> QED
  BY <1>3, <1>4, <1>5, <1>6, <1>7, <1>8, MovedFrame

\* A plan is apart from what the history refers to.
LEMMA PlanFacts ==
  ASSUME IInv, NEW p \in Projects, NEW pol \in Policies
  PROVE  /\ Plan(p, pol) \in Plans
         /\ Plan(p, pol).ops \subseteq 1 .. taken /\ Plan(p, pol).files \subseteq 1 .. taken
         /\ Plan(p, pol).ops \cap Plan(p, pol).files = {}
         /\ Plan(p, pol).notes \cap Referenced(p).notes = {}
<1>1. /\ DOMAIN ops[p] \subseteq 1 .. taken /\ DOMAIN snaps \subseteq 1 .. taken
      /\ 1 .. taken \subseteq Snaps /\ Notes[p] \subseteq AllNotes
  BY RetentionAssumption DEF IInv, Shape, OpsShape, SnapsShape, Snaps, AllNotes
<1>2. Referenced(p).files = DOMAIN ops[p]
  BY ReferencedFacts
<1>3. /\ Plan(p, pol).files = Surplus(pol.keep) \ DOMAIN ops[p]
      /\ Plan(p, pol).ops \subseteq DOMAIN ops[p]
      /\ Plan(p, pol).notes \subseteq Notes[p] \ Referenced(p).notes
      /\ Plan(p, pol) = [files |-> Plan(p, pol).files, ops |-> Plan(p, pol).ops,
                         notes |-> Plan(p, pol).notes]
  BY <1>2 DEF Plan, Protected
<1>4. Surplus(pol.keep) \subseteq DOMAIN snaps
  BY DEF Surplus
<1>5. /\ Plan(p, pol).files \in SUBSET Snaps /\ Plan(p, pol).ops \in SUBSET Snaps
      /\ Plan(p, pol).notes \in SUBSET AllNotes
  BY <1>1, <1>3, <1>4
<1>6. Plan(p, pol) \in Plans
  BY <1>3, <1>5 DEF Plans
<1> QED
  BY <1>1, <1>3, <1>4, <1>6

LEMMA PlannedOK ==
  ASSUME IInv, NEW p \in Projects, NEW pol \in Policies, NEW at \in {"auditing", "expiring"},
         NEW prune \in BOOLEAN, NEW copy \in BOOLEAN, at = "auditing" <=> prune, copy => prune,
         Planned(p, pol, at, prune, copy)
  PROVE  IInv'
<1> DEFINE plan == Plan(p, pol)
           j == [Idle EXCEPT !.at = at, !.prune = prune, !.copy = copy, !.plan = plan]
<1>1. /\ job' = [job EXCEPT ![p] = j] /\ job \in [Projects -> Job]
      /\ UNCHANGED <<notes, ops, snaps, taken, audit, recovery>>
  BY DEF Planned, IInv, Shape
<1>2. /\ plan \in Plans /\ plan.ops \subseteq 1 .. taken /\ plan.files \subseteq 1 .. taken
      /\ plan.ops \cap plan.files = {} /\ plan.notes \cap Referenced(p).notes = {}
  BY PlanFacts
<1> HIDE DEF plan
<1>3. /\ j \in Job /\ j.at = at /\ j.prune = prune /\ j.copy = copy /\ j.plan = plan
  BY <1>2, IdleIsJob DEF Job, Stages
<1> HIDE DEF j
<1>4. job'[p] = j
  BY <1>1
<1>5. Referenced(p).notes' = Referenced(p).notes
  BY <1>1, SameReferences
<1>6. JobOK(p)'
  BY <1>1, <1>2, <1>3, <1>4, <1>5 DEF JobOK
<1> QED
  BY <1>1, <1>3, <1>6, JobFrameOnly

\* The next number of an audit is free.
LEMMA NextRunIsFree ==
  ASSUME AuditShape
  PROVE  LET r == Cardinality(DOMAIN audit) + 1
         IN  r \notin DOMAIN audit /\ r \in Nat \ {0} /\ DOMAIN audit \cup {r} = 1 .. r
<1>1. PICK m \in 0 .. MaxRuns : DOMAIN audit = 1 .. m
  BY DEF AuditShape
<1>2. m \in Nat
  BY <1>1, RetentionAssumption
<1>3. Cardinality(1 .. m) = m
  BY <1>2, FS_Interval
<1> QED
  BY <1>1, <1>2, <1>3

LEMMA StartAuditOK ==
  ASSUME IInv, NEW p \in Projects, NEW r \in Runs, StartAudit(p, r)
  PROVE  IInv'
<1> DEFINE entry == [project |-> p, plan |-> job[p].plan, end |-> None]
           at == IF job[p].copy THEN "copying" ELSE "expiring"
           j == [job[p] EXCEPT !.at = at, !.run = r]
<1>1. /\ job[p].at = "auditing" /\ r = Cardinality(DOMAIN audit) + 1
      /\ audit' = Put(audit, r, entry)
      /\ UNCHANGED <<notes, ops, snaps, taken, recovery>>
      /\ job[p] \in Job /\ JobOK(p) /\ taken \in Nat
      /\ job \in [Projects -> Job] /\ job' = [job EXCEPT ![p].at = at, ![p].run = r]
  BY RetentionAssumption DEF StartAudit, IInv, Shape, SnapsShape
<1>2. r \notin DOMAIN audit /\ DOMAIN audit \cup {r} = 1 .. r /\ r \in 0 .. MaxRuns
  BY <1>1, NextRunIsFree, RetentionAssumption DEF IInv, Shape, Runs
<1>3. /\ DOMAIN audit' = DOMAIN audit \cup {r} /\ audit'[r] = entry
      /\ \A i \in DOMAIN audit : audit'[i] = audit[i]
  BY <1>1, <1>2 DEF Put
<1>4. /\ entry \in Entry /\ entry.project = p /\ entry.plan = job[p].plan
      /\ entry.end = None
  BY <1>1 DEF Entry, Job
<1>5. /\ j \in Job /\ j.at = at /\ j.run = r /\ j.plan = job[p].plan /\ j.prune = job[p].prune
      /\ j.copy = job[p].copy
  BY <1>1, <1>2 DEF Job, Stages
<1>6. job'[p] = j /\ job' \in [Projects -> Job] /\ \A q \in Projects \ {p} : job'[q] = job[q]
  <2>1. DOMAIN job' = Projects /\ job' = [q \in Projects |-> IF q = p THEN j ELSE job[q]]
    BY <1>1
  <2> HIDE DEF j
  <2> QED
    BY <1>1, <1>5, <2>1
<1> HIDE DEF entry, j
<1>7. Referenced(p).notes' = Referenced(p).notes
  BY <1>1, SameReferences
<1>8. JobOK(p)'
  <2>1. Audited(p, job[p])'
    BY <1>3, <1>4, <1>5, <1>6 DEF Audited
  <2>2. j.at \in {"copying", "expiring"} /\ (j.copy => j.at # "expiring") /\ j.prune
    BY <1>1, <1>5 DEF JobOK
  <2> QED
    BY <1>1, <1>5, <1>6, <1>7, <2>1, <2>2 DEF JobOK
<1>9. ASSUME NEW q \in Projects \ {p} PROVE JobOK(q)'
  <2>1. Referenced(q).notes' = Referenced(q).notes
    BY <1>1, SameReferences
  <2> QED
    BY <1>1, <1>3, <1>4, <1>6, <2>1, JobFrame DEF IInv
<1>10. AuditShape'
  BY <1>1, <1>2, <1>3, <1>4 DEF IInv, Shape, AuditShape
<1>11. AuditsOK'
  <2>1. /\ \A i \in DOMAIN audit' : i \in DOMAIN audit \/ i = r
        /\ entry.plan.ops \subseteq 1 .. taken /\ entry.plan.files \subseteq 1 .. taken
    BY <1>1, <1>3, <1>4 DEF JobOK
  <2> QED
    BY <1>1, <1>3, <1>4, <2>1 DEF IInv, AuditsOK, CompletedIsDone, None
<1>12. NotesShape' /\ OpsShape' /\ SnapsShape'
  BY <1>1 DEF IInv, Shape, NotesShape, OpsShape, SnapsShape, History
<1> QED
  BY <1>6, <1>8, <1>9, <1>10, <1>11, <1>12 DEF IInv, Shape

LEMMA EndAuditOK ==
  ASSUME IInv, NEW p \in Projects, NEW at, NEW end, EndAudit(p, at, end),
         (at = "closing" /\ end = "completed") \/ (at = "failing" /\ end = "failed")
  PROVE  IInv'
<1> DEFINE r == job[p].run
           entry == [audit[r] EXCEPT !.end = end]
<1>1. /\ job[p].at = at /\ audit' = [audit EXCEPT ![r].end = end]
      /\ UNCHANGED <<notes, ops, snaps, taken, recovery>>
      /\ job[p] \in Job /\ JobOK(p) /\ taken \in Nat /\ job' = [job EXCEPT ![p] = Idle]
  BY RetentionAssumption DEF EndAudit, IInv, Shape, SnapsShape
<1>2. r \in DOMAIN audit /\ audit[r].project = p /\ audit[r].plan = job[p].plan
  BY <1>1 DEF JobOK, Audited
<1>3. /\ DOMAIN audit' = DOMAIN audit /\ audit'[r] = entry
      /\ \A i \in DOMAIN audit \ {r} : audit'[i] = audit[i]
  BY <1>1, <1>2
<1>4. /\ entry \in Entry /\ entry.project = p /\ entry.plan = job[p].plan
      /\ entry.end = end
  BY <1>2 DEF Entry, IInv, Shape, AuditShape
<1> HIDE DEF r, entry
<1>5. job'[p] = Idle /\ job' \in [Projects -> Job] /\ \A q \in Projects \ {p} : job'[q] = job[q]
  BY <1>1, IdleIsJob DEF IInv, Shape
<1>6. JobOK(p)'
  BY <1>5, IdleOK
<1>7. \A i \in DOMAIN audit :
        audit'[i].project = audit[i].project /\ audit'[i].plan = audit[i].plan
  BY <1>2, <1>3, <1>4
<1>8. ASSUME NEW q \in Projects \ {p} PROVE JobOK(q)'
  <2>1. Referenced(q).notes' = Referenced(q).notes
    BY <1>1, SameReferences
  <2> QED
    BY <1>1, <1>3, <1>5, <1>7, <2>1, JobFrame DEF IInv
<1>9. AuditShape'
  BY <1>1, <1>3, <1>4 DEF IInv, Shape, AuditShape
<1>10. AuditsOK'
  <2>1. end = "completed" =>
          /\ entry.plan.ops \cap DOMAIN ops[p] = {} /\ entry.plan.files \cap DOMAIN snaps = {}
    BY <1>1, <1>4 DEF JobOK
  <2>2. AuditsOK
    BY DEF IInv
  <2>3. \A i \in DOMAIN audit' :
          audit'[i].plan.ops \subseteq 1 .. taken' /\ audit'[i].plan.files \subseteq 1 .. taken'
    BY <1>1, <1>3, <1>7, <2>2 DEF AuditsOK
  <2>4. ASSUME NEW i \in DOMAIN audit', audit'[i].end = "completed"
        PROVE  /\ audit'[i].plan.ops \cap DOMAIN ops'[audit'[i].project] = {}
               /\ audit'[i].plan.files \cap DOMAIN snaps' = {}
    <3>1. CASE i = r
      BY <1>1, <1>3, <1>4, <2>1, <2>4, <3>1
    <3>2. CASE i # r
      BY <1>1, <1>3, <2>2, <2>4, <3>2 DEF AuditsOK, CompletedIsDone
    <3> QED
      BY <3>1, <3>2
  <2> QED
    BY <2>3, <2>4 DEF AuditsOK, CompletedIsDone
<1>11. NotesShape' /\ OpsShape' /\ SnapsShape'
  BY <1>1 DEF IInv, Shape, NotesShape, OpsShape, SnapsShape, History
<1> QED
  BY <1>5, <1>6, <1>8, <1>9, <1>10, <1>11 DEF IInv, Shape

LEMMA CopyDatabaseOK ==
  ASSUME IInv, NEW p \in Projects, CopyDatabase(p)
  PROVE  IInv'
<1> DEFINE r == job[p].run
           j == [job[p] EXCEPT !.at = "expiring"]
<1>1. /\ job[p].at = "copying" /\ recovery' = Put(recovery, r, DOMAIN ops[p])
      /\ UNCHANGED <<notes, ops, snaps, taken, audit>>
      /\ job[p] \in Job /\ JobOK(p) /\ taken \in Nat
      /\ job \in [Projects -> Job] /\ job' = [job EXCEPT ![p].at = "expiring"]
  BY RetentionAssumption DEF CopyDatabase, IInv, Shape, SnapsShape
<1>2. /\ r \in DOMAIN audit /\ audit[r].project = p /\ audit[r].plan = job[p].plan
      /\ job[p].prune
  BY <1>1 DEF JobOK, Audited
<1>3. /\ DOMAIN recovery' = DOMAIN recovery \cup {r} /\ recovery'[r] = DOMAIN ops[p]
      /\ \A i \in DOMAIN recovery \ {r} : recovery'[i] = recovery[i]
  BY <1>1 DEF Put
<1>4. /\ j \in Job /\ j.at = "expiring" /\ j.run = r /\ j.plan = job[p].plan
      /\ j.prune = job[p].prune /\ j.copy = job[p].copy
  BY <1>1 DEF Job, Stages
<1>5. job'[p] = j /\ job' \in [Projects -> Job] /\ \A q \in Projects \ {p} : job'[q] = job[q]
  <2>1. DOMAIN job' = Projects /\ job' = [q \in Projects |-> IF q = p THEN j ELSE job[q]]
    BY <1>1
  <2> HIDE DEF j
  <2> QED
    BY <1>1, <1>4, <2>1
<1> HIDE DEF r, j
<1>6. Referenced(p).notes' = Referenced(p).notes
  BY <1>1, SameReferences
<1>7. JobOK(p)'
  <2>1. Audited(p, job[p])'
    <3>1. audit' = audit /\ job'[p].run = r /\ job'[p].plan = job[p].plan
      BY <1>1, <1>4, <1>5
    <3> QED
      BY <1>2, <3>1 DEF Audited
  <2>2. job'[p].run \in DOMAIN recovery' /\ DOMAIN ops'[p] \subseteq recovery'[job'[p].run]
    BY <1>1, <1>3, <1>4, <1>5
  <2> QED
    BY <1>1, <1>2, <1>4, <1>5, <1>6, <2>1, <2>2 DEF JobOK
<1>8. ASSUME NEW q \in Projects \ {p} PROVE JobOK(q)'
  <2>1. Referenced(q).notes' = Referenced(q).notes
    BY <1>1, SameReferences
  <2>2. JobOK(q)
    BY DEF IInv
  <2>3. job[q].prune /\ job[q].at = "expiring" => job[q].run # r
    BY <1>2, <2>2 DEF JobOK, Audited
  <2> QED
    BY <1>1, <1>3, <1>5, <2>1, <2>2, <2>3, JobFrame
<1>9. AuditShape'
  <2>1. DOMAIN ops[p] \subseteq Snaps
    BY RetentionAssumption DEF IInv, Shape, OpsShape, SnapsShape, Snaps
  <2> QED
    BY <1>1, <1>2, <1>3, <2>1 DEF IInv, Shape, AuditShape
<1>10. AuditsOK'
  BY <1>1 DEF IInv, AuditsOK, CompletedIsDone
<1>11. NotesShape' /\ OpsShape' /\ SnapsShape'
  BY <1>1 DEF IInv, Shape, NotesShape, OpsShape, SnapsShape, History
<1> QED
  BY <1>5, <1>7, <1>8, <1>9, <1>10, <1>11 DEF IInv, Shape

LEMMA ExpireHistoryOK ==
  ASSUME IInv, NEW p \in Projects, ExpireHistory(p)
  PROVE  IInv'
<1> DEFINE plan == job[p].plan
           j == [job[p] EXCEPT !.at = "unlinking", !.left = plan.files]
<1>1. /\ job[p].at = "expiring" /\ UNCHANGED <<snaps, taken, audit, recovery>>
      /\ ops' = [ops EXCEPT ![p] = Without(@, plan.ops)]
      /\ notes' = [notes EXCEPT ![p] =
                     [n \in Notes[p] |-> IF n \in plan.notes THEN Purged(@[n]) ELSE @[n]]]
      /\ job[p] \in Job /\ JobOK(p) /\ taken \in Nat /\ DOMAIN ops = Projects
      /\ job \in [Projects -> Job]
      /\ job' = [job EXCEPT ![p].at = "unlinking", ![p].left = plan.files]
  BY RetentionAssumption DEF ExpireHistory, IInv, Shape, SnapsShape, OpsShape
<1>2. /\ j \in Job /\ j.at = "unlinking" /\ j.left = plan.files /\ j.plan = plan
      /\ j.prune = job[p].prune /\ j.copy = job[p].copy /\ j.run = job[p].run
  BY <1>1 DEF Job, Stages, Plans
<1>3. job'[p] = j /\ job' \in [Projects -> Job] /\ \A q \in Projects \ {p} : job'[q] = job[q]
  <2>1. DOMAIN job' = Projects /\ job' = [q \in Projects |-> IF q = p THEN j ELSE job[q]]
    BY <1>1
  <2> HIDE DEF j
  <2> QED
    BY <1>1, <1>2, <2>1
<1>4. /\ DOMAIN ops' = Projects /\ DOMAIN ops'[p] = DOMAIN ops[p] \ plan.ops
      /\ \A k \in DOMAIN ops'[p] : ops'[p][k] = ops[p][k]
      /\ \A q \in Projects \ {p} : ops'[q] = ops[q]
  BY <1>1 DEF Without
<1> HIDE DEF j, plan
<1>5. JobOK(p)'
  <2>1. job[p].prune => Audited(p, job[p])'
    BY <1>1, <1>2, <1>3 DEF JobOK, Audited, plan
  <2> QED
    BY <1>1, <1>2, <1>3, <1>4, <2>1 DEF JobOK, plan
<1>6. NotesShape'
  <2>1. \A st \in Status : Purged(st) \in Status
    BY DEF Purged, Status
  <2> QED
    BY <1>1, <2>1 DEF IInv, Shape, NotesShape
<1>7. OpsShape' /\ SnapsShape'
  BY <1>1, <1>4 DEF IInv, Shape, OpsShape, SnapsShape, History
<1>8. taken <= taken' /\ DOMAIN ops'[p] \subseteq DOMAIN ops[p]
  BY <1>1, <1>4
<1> QED
  BY <1>1, <1>3, <1>4, <1>5, <1>6, <1>7, <1>8, MovedFrame

LEMMA UnlinkOK ==
  ASSUME IInv, NEW p \in Projects, NEW k \in Snaps, Unlink(p, k)
  PROVE  IInv'
<1> DEFINE j == [job[p] EXCEPT !.left = @ \ {k}]
<1>1. /\ job[p].at = "unlinking" /\ UNCHANGED <<notes, ops, taken, audit, recovery>>
      /\ snaps' = Without(snaps, {k})
      /\ job[p] \in Job /\ JobOK(p) /\ taken \in Nat
      /\ job \in [Projects -> Job] /\ job' = [job EXCEPT ![p].left = @ \ {k}]
  BY RetentionAssumption DEF Unlink, IInv, Shape, SnapsShape
<1>2. /\ j \in Job /\ j.at = "unlinking" /\ j.left = job[p].left \ {k} /\ j.plan = job[p].plan
      /\ j.prune = job[p].prune /\ j.copy = job[p].copy /\ j.run = job[p].run
  BY <1>1 DEF Job
<1>3. job'[p] = j /\ job' \in [Projects -> Job] /\ \A q \in Projects \ {p} : job'[q] = job[q]
  <2>1. DOMAIN job' = Projects /\ job' = [q \in Projects |-> IF q = p THEN j ELSE job[q]]
    BY <1>1
  <2> HIDE DEF j
  <2> QED
    BY <1>1, <1>2, <2>1
<1>4. DOMAIN snaps' = DOMAIN snaps \ {k} /\ \A i \in DOMAIN snaps' : snaps'[i] = snaps[i]
  BY <1>1 DEF Without
<1> HIDE DEF j
<1>5. JobOK(p)'
  <2>1. job[p].prune => Audited(p, job[p])'
    BY <1>1, <1>2, <1>3 DEF JobOK, Audited
  <2> QED
    BY <1>1, <1>2, <1>3, <1>4, <2>1 DEF JobOK
<1>6. NotesShape' /\ OpsShape' /\ SnapsShape'
  BY <1>1, <1>4 DEF IInv, Shape, NotesShape, OpsShape, SnapsShape, History
<1>7. /\ taken <= taken' /\ UNCHANGED <<audit, recovery>>
      /\ \A i \in DOMAIN snaps' : i \in DOMAIN snaps \/ i > taken
      /\ \A q \in Projects \ {p} : ops'[q] = ops[q]
      /\ DOMAIN ops'[p] \subseteq DOMAIN ops[p]
  BY <1>1, <1>4
<1> QED
  BY <1>3, <1>5, <1>6, <1>7, MovedFrame

\* A job that stops: it is idle, or a hard prune that has still to say so.
LEMMA StoppingOK ==
  ASSUME IInv, NEW p \in Projects, Finish(p) \/ Fail(p) \/ Die(p)
  PROVE  IInv'
<1> DEFINE j(at) == [job[p] EXCEPT !.at = at]
<1>1. PICK at \in {"closing", "failing"} :
        /\ job' = [job EXCEPT ![p] = j(at)] \/ job' = [job EXCEPT ![p] = Idle]
        /\ job' # [job EXCEPT ![p] = Idle] =>
             /\ job[p].prune /\ job[p].at \in {"copying", "expiring", "unlinking", "closing"}
             /\ at = "closing" => job[p].at = "unlinking" /\ job[p].left = {}
  BY DEF Finish, Fail, Die
<1>2. /\ UNCHANGED <<notes, ops, snaps, taken, audit, recovery>>
      /\ job[p] \in Job /\ JobOK(p) /\ job \in [Projects -> Job]
  BY DEF Finish, Fail, Die, IInv, Shape
<1>3. CASE job' = [job EXCEPT ![p] = Idle]
  <2>1. job'[p] = Idle
    BY <1>2, <1>3
  <2> QED
    BY <1>2, <1>3, <2>1, IdleOK, IdleIsJob, JobFrameOnly
<1>4. CASE job' # [job EXCEPT ![p] = Idle]
  <2>1. /\ j(at) \in Job /\ j(at).at = at /\ j(at).plan = job[p].plan
        /\ j(at).prune = job[p].prune /\ j(at).copy = job[p].copy /\ j(at).run = job[p].run
    BY <1>2 DEF Job, Stages
  <2>2. job'[p] = j(at)
    BY <1>1, <1>2, <1>4
  <2>3. /\ job[p].prune /\ job[p].at \in {"copying", "expiring", "unlinking", "closing"}
        /\ at = "closing" => job[p].at = "unlinking" /\ job[p].left = {}
    BY <1>1, <1>4
  <2> HIDE DEF j
  <2>4. Audited(p, job[p])'
    BY <1>2, <2>1, <2>2, <2>3 DEF JobOK, Audited
  <2>5. JobOK(p)'
    BY <1>2, <2>1, <2>2, <2>3, <2>4 DEF JobOK
  <2>6. job' = [job EXCEPT ![p] = j(at)]
    BY <1>1, <1>4
  <2> QED
    BY <1>2, <2>1, <2>5, <2>6, JobFrameOnly
<1> QED
  BY <1>1, <1>3, <1>4

-----------------------------------------------------------------------------

LEMMA InitOK == Init => IInv
<1> SUFFICES ASSUME Init PROVE IInv
  OBVIOUS
<1>1. NotesShape /\ OpsShape
  BY DEF Init, NotesShape, OpsShape, Status
<1>2. job \in [Projects -> Job]
  BY IdleIsJob DEF Init
<1>3. SnapsShape
  BY RetentionAssumption DEF Init, SnapsShape
<1>4. DOMAIN audit = 1 .. 0 /\ DOMAIN audit = {} /\ DOMAIN recovery = {}
  BY DEF Init
<1>5. AuditShape /\ AuditsOK
  <2>1. 0 \in 0 .. MaxRuns
    BY RetentionAssumption
  <2> QED
    BY <1>4, <2>1 DEF AuditShape, AuditsOK, CompletedIsDone
<1>6. \A p \in Projects : job[p] = Idle
  BY DEF Init
<1>7. \A p \in Projects : JobOK(p)
  BY <1>6, IdleIsJob, NoPlanFacts DEF JobOK
<1> QED
  BY <1>1, <1>2, <1>3, <1>5, <1>7 DEF IInv, Shape

LEMMA NextOK == IInv /\ [Next]_vars => IInv'
<1> SUFFICES ASSUME IInv, [Next]_vars PROVE IInv'
  OBVIOUS
<1>1. CASE Next
  <2>1. PICK p \in Projects :
          \/ Serve(p) \/ Age(p) \/ TakeSnapshot(p) \/ BeginOperation(p) \/ Merge(p)
          \/ \E k \in Snaps : Undo(p, k)
          \/ \E pol \in Policies :
               \/ ApplyRetention(p, pol)
               \/ \E copy \in BOOLEAN : ExecuteHardPrune(p, pol, copy)
          \/ Execute(p)
    BY <1>1 DEF Next
  <2>2. CASE Serve(p) \/ Age(p) \/ TakeSnapshot(p) \/ BeginOperation(p) \/ Merge(p)
    BY <2>2, ServeOK, AgeOK, TakeSnapshotOK, BeginOperationOK, MergeOK
  <2>3. CASE \E k \in Snaps : Undo(p, k)
    BY <2>3, UndoOK
  <2>4. ASSUME NEW pol \in Policies, ApplyRetention(p, pol) PROVE IInv'
    BY <2>4, PlannedOK DEF ApplyRetention
  <2>5. ASSUME NEW pol \in Policies, NEW copy \in BOOLEAN, ExecuteHardPrune(p, pol, copy)
        PROVE  IInv'
    BY <2>5, PlannedOK DEF ExecuteHardPrune
  <2>6. CASE Execute(p)
    BY <2>6, StartAuditOK, CopyDatabaseOK, ExpireHistoryOK, UnlinkOK, StoppingOK,
       EndAuditOK DEF Execute
  <2> QED
    BY <2>1, <2>2, <2>3, <2>4, <2>5, <2>6
<1>2. CASE UNCHANGED vars
  <2>1. UNCHANGED <<snaps, taken, job, audit, recovery, notes, ops>>
    BY <1>2 DEF vars
  <2>2. NotesShape' /\ OpsShape'
    BY <2>1 DEF IInv, Shape, NotesShape, OpsShape, History
  <2> QED
    BY <2>1, <2>2, RowsFrame
<1> QED
  BY <1>1, <1>2

LEMMA Invariance == Spec => []IInv
<1>1. Init => IInv
  BY InitOK
<1>2. IInv /\ [Next]_vars => IInv'
  BY NextOK
<1> QED
  BY <1>1, <1>2, PTL DEF Spec

-----------------------------------------------------------------------------
(* What a step that removes something is. *)

\* Who works on one project leaves the jobs of the others alone.
LEMMA OthersKeepTheirJobs ==
  ASSUME IInv, NEW q \in Projects, NEW p \in Projects, p # q,
         \/ Serve(q) \/ Age(q) \/ TakeSnapshot(q) \/ BeginOperation(q) \/ Merge(q)
         \/ \E k \in Snaps : Undo(q, k)
         \/ \E pol \in Policies :
              \/ ApplyRetention(q, pol)
              \/ \E copy \in BOOLEAN : ExecuteHardPrune(q, pol, copy)
         \/ Execute(q)
  PROVE  job'[p] = job[p]
<1>1. DOMAIN job = Projects
  BY DEF IInv, Shape
<1>2. CASE \/ Serve(q) \/ Age(q) \/ TakeSnapshot(q) \/ BeginOperation(q) \/ Merge(q)
           \/ \E k \in Snaps : Undo(q, k)
  BY <1>1, <1>2 DEF Serve, Age, TakeSnapshot, BeginOperation, Merge, Undo
<1>3. CASE \E pol \in Policies :
              \/ ApplyRetention(q, pol)
              \/ \E copy \in BOOLEAN : ExecuteHardPrune(q, pol, copy)
  BY <1>1, <1>3 DEF ApplyRetention, ExecuteHardPrune, Planned
<1>4. CASE Execute(q)
  BY <1>1, <1>4 DEF Execute, StartAudit, CopyDatabase, ExpireHistory, Unlink, Finish, Fail,
     Die, EndAudit
<1> QED
  BY <1>2, <1>3, <1>4

\* What is new when a project's own job changes.
LEMMA OwnStep ==
  ASSUME IInv, Next, NEW p \in Projects, job'[p] # job[p]
  PROVE  \/ TakeSnapshot(p) \/ BeginOperation(p) \/ Merge(p)
         \/ \E pol \in Policies :
              \/ ApplyRetention(p, pol)
              \/ \E copy \in BOOLEAN : ExecuteHardPrune(p, pol, copy)
         \/ Execute(p)
<1>1. PICK q \in Projects :
         \/ Serve(q) \/ Age(q) \/ TakeSnapshot(q) \/ BeginOperation(q) \/ Merge(q)
         \/ \E k \in Snaps : Undo(q, k)
         \/ \E pol \in Policies :
              \/ ApplyRetention(q, pol)
              \/ \E copy \in BOOLEAN : ExecuteHardPrune(q, pol, copy)
         \/ Execute(q)
  BY DEF Next
<1>2. q = p
  BY <1>1, OthersKeepTheirJobs
<1>3. ~Serve(p) /\ ~Age(p) /\ ~\E k \in Snaps : Undo(p, k)
  BY DEF Serve, Age, Undo
<1> QED
  BY <1>1, <1>2, <1>3

LEMMA ExpiringIsExpireHistory ==
  ASSUME IInv, Next, NEW p \in Projects, Expiring(p)
  PROVE  ExpireHistory(p)
<1>1. /\ job[p].at = "expiring" /\ job'[p].at = "unlinking" /\ DOMAIN job = Projects
      /\ job[p] \in Job /\ job'[p] # job[p]
  BY DEF Expiring, IInv, Shape
<1>2. Execute(p)
  BY <1>1, OwnStep DEF TakeSnapshot, BeginOperation, Merge, ApplyRetention, ExecuteHardPrune,
     Planned
<1>3. \A k \in Snaps : ~Unlink(p, k)
  BY <1>1 DEF Unlink
<1>4. ~CopyDatabase(p) /\ ~EndAudit(p, "closing", "completed") /\ ~EndAudit(p, "failing", "failed")
      /\ ~Finish(p) /\ \A r \in Runs : ~StartAudit(p, r)
  BY <1>1 DEF CopyDatabase, EndAudit, Finish, StartAudit
<1>5. ~Fail(p) /\ ~Die(p)
  <2>1. [job[p] EXCEPT !.at = "failing"].at = "failing"
    BY <1>1 DEF Job
  <2> QED
    BY <1>1, <2>1, IdleIsJob DEF Fail, Die
<1> QED
  BY <1>2, <1>3, <1>4, <1>5 DEF Execute

LEMMA UnlinkingIsUnlink ==
  ASSUME IInv, Next, NEW p \in Projects, Unlinking(p), LostFiles # {}
  PROVE  \E k \in Snaps : Unlink(p, k)
<1>1. /\ job[p].at = "unlinking" /\ job'[p] # job[p] /\ snaps' # snaps
  BY DEF Unlinking, LostFiles
<1>2. Execute(p)
  BY <1>1, OwnStep DEF TakeSnapshot, BeginOperation, Merge, ApplyRetention, ExecuteHardPrune,
     Planned
<1> QED
  BY <1>1, <1>2 DEF Execute, StartAudit, CopyDatabase, ExpireHistory, Finish, Fail, Die, EndAudit

\* What the expiry removes of a project.
LEMMA ExpiryLoses ==
  ASSUME IInv, NEW p \in Projects, ExpireHistory(p)
  PROVE  /\ \A n \in Notes[p] : notes[p][n] = "live" => notes'[p][n] = "live"
         /\ LostNotes(p) \subseteq job[p].plan.notes
         /\ LostOps(p) \subseteq job[p].plan.ops
         /\ LostFiles = {} /\ JobOK(p)
<1>1. /\ notes[p] \in [Notes[p] -> Status] /\ p \in DOMAIN notes /\ p \in DOMAIN ops
  BY DEF IInv, Shape, NotesShape, OpsShape
<1>2. /\ notes'[p] = [n \in Notes[p] |-> IF n \in job[p].plan.notes THEN Purged(notes[p][n])
                                        ELSE notes[p][n]]
      /\ ops'[p] = Without(ops[p], job[p].plan.ops) /\ snaps' = snaps
  BY <1>1 DEF ExpireHistory
<1>3. Purged("live") = "live"
  BY DEF Purged
<1> QED
  BY <1>1, <1>2, <1>3 DEF LostNotes, LostOps, LostFiles, Without, IInv

\* What an unlink removes of the namespace.
LEMMA UnlinkLoses ==
  ASSUME IInv, NEW p \in Projects, NEW k \in Snaps, Unlink(p, k)
  PROVE  /\ LostFiles \subseteq {k} /\ k \notin DOMAIN ops[p]
         /\ k \in job[p].plan.files /\ k \notin job[p].plan.ops
         /\ LostNotes(p) = {} /\ LostOps(p) = {}
BY ReferencedFacts DEF Unlink, LostFiles, LostNotes, LostOps, Without, IInv, JobOK

-----------------------------------------------------------------------------
(* The theorems. *)

\* Notes, operations, snapshot files, jobs, audit and recovery copies keep their
\* shapes under every step of retention and of what goes on beside it.
THEOREM TypeOKTheorem == Spec => []TypeOK
<1>1. IInv => TypeOK
  <2> SUFFICES ASSUME IInv PROVE TypeOK
    OBVIOUS
  <2>1. DOMAIN ops = Projects /\ taken \in 0 .. MaxSnaps /\ 1 .. taken \subseteq Snaps
    BY RetentionAssumption DEF IInv, Shape, OpsShape, SnapsShape, Snaps
  <2>2. \A p \in Projects :
          /\ DOMAIN ops[p] \subseteq Snaps
          /\ \A k \in DOMAIN ops[p] : ops[p][k] \in History(p)
    BY <2>1 DEF IInv, Shape, OpsShape
  <2>3. DOMAIN audit \subseteq Runs
    BY RetentionAssumption DEF IInv, Shape, AuditShape, Runs
  <2>4. \A p \in Projects : job[p] \in Job /\ notes[p] \in [Notes[p] -> Status]
    BY DEF IInv, Shape, NotesShape
  <2> QED
    BY <2>1, <2>2, <2>3, <2>4 DEF TypeOK, IInv, Shape, NotesShape, SnapsShape, AuditShape,
       History, Job, Stages, Entry, Status
<1> QED
  BY <1>1, Invariance, PTL

\* "Curated memory is never touched": the expiry of a run leaves every note alone
\* that is live when it deletes, planned or not.
THEOREM LiveNotesStayTheorem == Spec => LiveNotesStay
<1> DEFINE A == \A p \in Projects : Expiring(p) =>
                  \A n \in Notes[p] : notes[p][n] = "live" => notes'[p][n] = "live"
<1>1. IInv /\ [Next]_vars => [A]_vars
  BY ExpiringIsExpireHistory, ExpiryLoses
<1> QED
  BY <1>1, Invariance, PTL DEF Spec, LiveNotesStay

\* "Expiring both in one run never unprotects mid-run": neither a note nor a file
\* that an operation referred to when the run planned goes in that run.
THEOREM NothingUnprotectedMidRunTheorem == Spec => NothingUnprotectedMidRun
<1> DEFINE A == \A p \in Projects :
                  /\ Expiring(p) => LostNotes(p) \cap Referenced(p).notes = {}
                  /\ Unlinking(p) => LostFiles \cap (Referenced(p).files \cup job[p].plan.ops) = {}
<1>1. IInv /\ [Next]_vars => [A]_vars
  <2> SUFFICES ASSUME IInv, Next, NEW p \in Projects
               PROVE  /\ Expiring(p) => LostNotes(p) \cap Referenced(p).notes = {}
                      /\ Unlinking(p) =>
                           LostFiles \cap (Referenced(p).files \cup job[p].plan.ops) = {}
    OBVIOUS
  <2>1. ASSUME Expiring(p) PROVE LostNotes(p) \cap Referenced(p).notes = {}
    <3>1. job[p].at = "expiring" /\ JobOK(p) /\ LostNotes(p) \subseteq job[p].plan.notes
      BY <2>1, ExpiringIsExpireHistory, ExpiryLoses DEF Expiring
    <3>2. job[p].plan.notes \cap Referenced(p).notes = {}
      BY <3>1 DEF JobOK
    <3> QED
      BY <3>1, <3>2
  <2>2. ASSUME Unlinking(p), LostFiles # {}
        PROVE  LostFiles \cap (Referenced(p).files \cup job[p].plan.ops) = {}
    <3>1. PICK k \in Snaps : Unlink(p, k)
      BY <2>2, UnlinkingIsUnlink
    <3> QED
      BY <3>1, UnlinkLoses, ReferencedFacts
  <2> QED
    BY <2>1, <2>2
<1> QED
  BY <1>1, Invariance, PTL DEF Spec, NothingUnprotectedMidRun

\* The audit of a hard prune names whatever goes before it goes, the copy that was
\* asked for holds the history that goes, and "completed" is said only of what is gone.
THEOREM AuditIsTrueTheorem == Spec => AuditIsTrue
<1> DEFINE Named(p) == \E r \in DOMAIN audit :
                         /\ r = job[p].run /\ audit[r].project = p
                         /\ LostNotes(p) \subseteq audit[r].plan.notes
                         /\ LostOps(p) \subseteq audit[r].plan.ops
                         /\ LostFiles \subseteq audit[r].plan.files
           Copied(p) == \E r \in DOMAIN recovery :
                          r = job[p].run /\ LostOps(p) \subseteq recovery[r]
           A == \A p \in Projects : job[p].prune /\ (Expiring(p) \/ Unlinking(p)) => Named(p)
           B == \A p \in Projects : job[p].copy /\ Expiring(p) => Copied(p)
<1>1. IInv /\ [Next]_vars => [A]_vars
  <2> SUFFICES ASSUME IInv, Next, NEW p \in Projects, job[p].prune, Expiring(p) \/ Unlinking(p)
               PROVE  Named(p)
    OBVIOUS
  <2>1. Audited(p, job[p])
    BY DEF IInv, JobOK, Expiring, Unlinking
  <2>2. CASE Expiring(p)
    BY <2>1, <2>2, ExpiringIsExpireHistory, ExpiryLoses DEF Audited
  <2>3. CASE Unlinking(p)
    <3>1. LostNotes(p) = {} /\ LostOps(p) = {} /\ LostFiles \subseteq job[p].plan.files
      <4>1. Execute(p)
        BY <2>3, OwnStep DEF Unlinking, TakeSnapshot, BeginOperation, Merge, ApplyRetention,
           ExecuteHardPrune, Planned
      <4>2. (\E k \in Snaps : Unlink(p, k)) \/ Finish(p) \/ Fail(p) \/ Die(p)
        BY <2>3, <4>1 DEF Execute, Unlinking, StartAudit, CopyDatabase, ExpireHistory, EndAudit
      <4>3. CASE \E k \in Snaps : Unlink(p, k)
        BY <4>3, UnlinkLoses
      <4>4. CASE Finish(p) \/ Fail(p) \/ Die(p)
        BY <4>4 DEF Finish, Fail, Die, LostNotes, LostOps, LostFiles
      <4> QED
        BY <4>2, <4>3, <4>4
    <3> QED
      BY <2>1, <3>1 DEF Audited
  <2> QED
    BY <2>2, <2>3
<1>2. IInv /\ [Next]_vars => [B]_vars
  <2> SUFFICES ASSUME IInv, Next, NEW p \in Projects, job[p].copy, Expiring(p)
               PROVE  Copied(p)
    OBVIOUS
  <2>1. job[p].at = "expiring" /\ JobOK(p)
    BY DEF IInv, Expiring
  <2>2. job[p].run \in DOMAIN recovery /\ DOMAIN ops[p] \subseteq recovery[job[p].run]
    BY <2>1 DEF JobOK
  <2> QED
    BY <2>2 DEF LostOps
<1>3. IInv => CompletedIsDone
  BY DEF IInv, AuditsOK
<1>4. Spec => AuditNamesAll
  BY <1>1, Invariance, PTL DEF Spec, AuditNamesAll
<1>5. Spec => CopyComesFirst
  BY <1>2, Invariance, PTL DEF Spec, CopyComesFirst
<1>6. Spec => []CompletedIsDone
  BY <1>3, Invariance, PTL
<1> QED
  BY <1>4, <1>5, <1>6 DEF AuditIsTrue
=============================================================================
