-------------------------------- MODULE GuiJobs --------------------------------
(***************************************************************************)
(* The jobs of a Memory Map server: builds run as child processes, the     *)
(* maintenance jobs, clear and undo run in worker threads; all of them     *)
(* take the server's mutation lease (GuiMutationCoordinator) first and the *)
(* cross-process mutation lock of the database after.  A scheduler         *)
(* coroutine starts builds for the entries of gui-schedules.json, which    *)
(* other servers write too.                                                *)
(*                                                                         *)
(* A step is what the event loop does between two suspensions, a step of a *)
(* child or a thread, or the death of a process.                           *)
(*                                                                         *)
(* Abstracted: one database.  A time stamp is its age in ticks of          *)
(* _SCHED_TICK_S, saturated where the entry is due; of an entry's two      *)
(* stamps the one that schedule_due compares is kept.                      *)
(***************************************************************************)
EXTENDS Naturals, Sequences

CONSTANTS
  Platforms, \* a subset of {"linux", "darwin", "win32"}
  Routes,    \* requests that work in a thread: clear, memory-undo
  Paths,     \* the projects that can be scheduled
  Intervals, \* what the user may schedule, in ticks
  Retry      \* _SCHED_FAILURE_RETRY_S, in ticks

NULL == "none"
Workers == Routes \cup {"maintenance"}

ASSUME JobsAssumption ==
  /\ Platforms \subseteq {"linux", "darwin", "win32"}
  /\ Intervals \subseteq Nat \ {0} /\ Intervals # {} /\ Retry \in Nat \ {0}
  /\ Routes \cap {NULL, "maintenance", "ingest", "other"} = {} /\ NULL \notin Paths

VARIABLES
  platform,
  gui,       \* the server: up, closing (in its shutdown), closed, dead
  owner,     \* the holder of the lease
  job,       \* state of the last build job
  run,       \* where its coroutine is: none, spawning, attached (reads output)
  child,     \* the build process: none, alive, locked, ok, failed
  guard,     \* what kills the child with the server: none yet, held, refused, released
  cancelled, \* whether the scheduler's cancellation reached the coroutine
  worker,    \* worker[k]: none, claimed, locked, ended
  lock,      \* who holds the mutation lock of the database
  sched,     \* the scheduler: asleep, awake, fired, waiting
  fired,     \* the path it builds
  waited,    \* how the job it waits for went
  seen,      \* the catalog as it read it when it fired
  schedule   \* the catalog: the entries in their order

vars == <<platform, gui, owner, job, run, child, guard, cancelled, worker, lock,
          sched, fired, waited, seen, schedule>>
build == <<job, run, child, guard, cancelled>>
scheduler == <<sched, fired, waited, seen, schedule>>

Entry == [path : Paths, interval : Intervals, failed : BOOLEAN, age : Nat]

TypeOK ==
  /\ platform \in Platforms
  /\ gui \in {"up", "closing", "closed", "dead"}
  /\ owner \in {NULL, "ingest"} \cup Workers
  /\ job \in {NULL, "running", "done", "error"}
  /\ run \in {NULL, "spawning", "attached"}
  /\ child \in {NULL, "alive", "locked", "ok", "failed"}
  /\ guard \in {"none", "held", "refused", "released"} /\ cancelled \in BOOLEAN
  /\ worker \in [Workers -> {NULL, "claimed", "locked", "ended"}]
  /\ lock \in {NULL, "ingest", "other"} \cup Workers
  /\ sched \in {"asleep", "awake", "fired", "waiting"}
  /\ fired \in {NULL} \cup Paths
  /\ waited \in {NULL, "running", "done", "error"}
  /\ seen \in Seq(Entry) /\ schedule \in Seq(Entry)
  /\ \A i, j \in DOMAIN schedule : schedule[i].path = schedule[j].path => i = j

-----------------------------------------------------------------------------

Loop == gui \in {"up", "closing"} /\ sched # "fired"
Running == child \in {"alive", "locked"}
Busy == job = "running"

\* What a killed child leaves: its exit status, and the lock.
Killed ==
  /\ child' = IF Running THEN "failed" ELSE child
  /\ lock' = IF lock = "ingest" THEN NULL ELSE lock

\* The scheduler waits for the build that ends in this step.
Noticed(state) ==
  waited' = IF sched = "waiting" /\ waited = "running" THEN state ELSE waited

-----------------------------------------------------------------------------
(* builds *)

\* IngestManager.start
Started ==
  /\ ~Busy
  /\ owner = NULL
  /\ owner' = "ingest"
  /\ job' = "running"
  /\ run' = "spawning"
  /\ child' = NULL
  /\ guard' = "none"
  /\ UNCHANGED <<platform, gui, cancelled, worker, lock>>

StartIngest ==
  /\ gui = "up" /\ Loop
  /\ Started
  /\ UNCHANGED scheduler

\* Fork mutated: the child is not yet tied to the server's life.
ForkUnguarded ==
  /\ Loop
  /\ run = "spawning" /\ child = NULL
  /\ child' = "alive"
  /\ UNCHANGED <<platform, gui, owner, job, run, guard, cancelled, worker, lock, scheduler>>

\* On Linux the child arms PR_SET_PDEATHSIG before it executes the build; what
\* goes wrong there is ignored.
Fork ==
  /\ Loop
  /\ run = "spawning" /\ child = NULL
  /\ child' = "alive"
  /\ guard' \in IF platform = "linux" THEN {"held", "refused"} ELSE {"none"}
  /\ UNCHANGED <<platform, gui, owner, job, run, cancelled, worker, lock, scheduler>>

\* SpawnFails mutated: the lease is returned by finished builds only.
SpawnFailsKeepingLease ==
  /\ Loop
  /\ run = "spawning" /\ child = NULL
  /\ run' = NULL
  /\ job' = "error"
  /\ Noticed("error")
  /\ UNCHANGED <<platform, gui, owner, child, guard, cancelled, worker, lock, sched, fired, seen, schedule>>

SpawnFails ==
  /\ Loop
  /\ run = "spawning" /\ child = NULL
  /\ run' = NULL
  /\ job' = "error"
  /\ owner' = NULL
  /\ Noticed("error")
  /\ UNCHANGED <<platform, gui, child, guard, cancelled, worker, lock, sched, fired, seen, schedule>>

\* create_subprocess_exec returns; elsewhere than on Linux the guard is
\* attached now, or cannot be and the build goes on without.
Attach ==
  /\ Loop
  /\ run = "spawning" /\ child # NULL
  /\ run' = "attached"
  /\ guard' \in IF platform = "linux" THEN {guard} ELSE {"held", "refused"}
  /\ UNCHANGED <<platform, gui, owner, job, child, cancelled, worker, lock, scheduler>>

\* The build command takes the lock or exits with an error.
ChildLocks ==
  /\ child = "alive"
  /\ lock = NULL
  /\ lock' = "ingest"
  /\ child' = "locked"
  /\ UNCHANGED <<platform, gui, owner, job, run, guard, cancelled, worker, scheduler>>

ChildFails ==
  /\ Running
  /\ Killed
  /\ UNCHANGED <<platform, gui, owner, job, run, guard, cancelled, worker, scheduler>>

ChildSucceeds ==
  /\ child = "locked"
  /\ child' = "ok"
  /\ lock' = NULL
  /\ UNCHANGED <<platform, gui, owner, job, run, guard, cancelled, worker, scheduler>>

\* End of output, exit status, guard and lease, without a suspension.
Collect ==
  /\ Loop
  /\ run = "attached" /\ child \in {"ok", "failed"}
  /\ job' = IF child = "ok" THEN "done" ELSE "error"
  /\ Noticed(job')
  /\ run' = NULL
  /\ child' = NULL
  /\ guard' = "none"
  /\ owner' = NULL
  /\ UNCHANGED <<platform, gui, cancelled, worker, lock, sched, fired, seen, schedule>>

-----------------------------------------------------------------------------
(* maintenance jobs, clear, undo *)

Claim(k) ==
  /\ gui = "up" /\ Loop
  /\ owner = NULL
  /\ owner' = k
  /\ worker' = [worker EXCEPT ![k] = "claimed"]
  /\ UNCHANGED <<platform, gui, build, lock, scheduler>>

\* mutation_lock in the thread: never waits.
WorkerLocks(k) ==
  /\ worker[k] = "claimed"
  /\ worker' = [worker EXCEPT ![k] = IF lock = NULL THEN "locked" ELSE "ended"]
  /\ lock' = IF lock = NULL THEN k ELSE lock
  /\ UNCHANGED <<platform, gui, owner, build, scheduler>>

WorkerEnds(k) ==
  /\ worker[k] = "locked"
  /\ worker' = [worker EXCEPT ![k] = "ended"]
  /\ lock' = NULL
  /\ UNCHANGED <<platform, gui, owner, build, scheduler>>

\* Back in the event loop.
Release(k) ==
  /\ Loop
  /\ worker[k] = "ended"
  /\ worker' = [worker EXCEPT ![k] = NULL]
  /\ owner' = IF owner = k THEN NULL ELSE owner
  /\ UNCHANGED <<platform, gui, build, lock, scheduler>>

-----------------------------------------------------------------------------
(* schedules *)

\* POST /api/schedule, of this server or of another: a read-modify-write under
\* catalog_lock.  An entry that is set goes to the end, as one never attempted.
SetSchedule(p) ==
  /\ \E new \in {<<>>} \cup
       {<<[path |-> p, interval |-> i, failed |-> FALSE, age |-> i]>> : i \in Intervals} :
       schedule' = SelectSeq(schedule, LAMBDA e : e.path # p) \o new
  /\ UNCHANGED <<platform, gui, owner, build, worker, lock, sched, fired, waited, seen>>

Stamped(e, wrong, age) ==
  [path |-> e.path, interval |-> e.interval, failed |-> wrong, age |-> age]

\* What schedule_due waits for; failed means that the last attempt is later than the
\* last success.
Delay(e) == IF e.failed THEN Retry ELSE e.interval

\* schedule_due mutated: an attempt that failed is not made again.
DueUnlessFailed(e) == ~e.failed /\ e.age >= Delay(e)

Due(e) == e.age >= Delay(e)

Foremost(i) == Due(schedule[i]) /\ \A j \in 1 .. i - 1 : ~Due(schedule[j])

\* run_due_schedule_once up to the attempt's record, for the first entry that is
\* due and for no other; the loop is not left.
ScheduleFires ==
  /\ gui = "up" /\ Loop
  /\ sched = "awake"
  /\ \E i \in DOMAIN schedule : Foremost(i) /\ fired' = schedule[i].path
  /\ Started
  /\ seen' = schedule
  /\ sched' = "fired"
  /\ waited' = "running"
  /\ UNCHANGED schedule

\* Nothing is due, a build is under way, or something else has the lease.
LooksInVain ==
  /\ gui = "up" /\ Loop
  /\ sched = "awake"
  /\ Busy \/ owner # NULL \/ \A i \in DOMAIN schedule : ~Due(schedule[i])
  /\ sched' = "asleep"
  /\ UNCHANGED <<platform, gui, owner, build, worker, lock, fired, waited, seen, schedule>>

\* _update_schedule reads the catalog again, under catalog_lock.
Updated(catalog, p, wrong) ==
  [i \in DOMAIN catalog |->
     IF catalog[i].path = p THEN Stamped(catalog[i], wrong, 0) ELSE catalog[i]]

\* RecordAttempt mutated: it writes the catalog it read when it fired.
RecordAttemptStale ==
  /\ sched = "fired"
  /\ gui = "up"
  /\ schedule' = Updated(seen, fired, TRUE)
  /\ seen' = <<>>
  /\ sched' = "waiting"
  /\ UNCHANGED <<platform, gui, owner, build, worker, lock, fired, waited>>

RecordAttempt ==
  /\ sched = "fired"
  /\ gui = "up"
  /\ schedule' = Updated(schedule, fired, TRUE)
  /\ seen' = <<>>
  /\ sched' = "waiting"
  /\ UNCHANGED <<platform, gui, owner, build, worker, lock, fired, waited>>

\* The awaited task is done, and this coroutine runs again, in some later turn
\* of the loop: it looks at the manager's job, whichever that is now.
Resume ==
  /\ gui = "up"
  /\ sched = "waiting"
  /\ waited # "running"
  /\ schedule' = IF job = "done" THEN Updated(schedule, fired, FALSE) ELSE schedule
  /\ sched' = "asleep"
  /\ fired' = NULL
  /\ waited' = NULL
  /\ UNCHANGED <<platform, gui, owner, build, worker, lock, seen>>

\* A tick is the scheduler's sleep: it looks once between two.
Tick ==
  /\ sched # "awake"
  /\ sched' = IF gui = "up" /\ sched = "asleep" THEN "awake" ELSE sched
  /\ schedule' = [i \in DOMAIN schedule |->
                    LET e == schedule[i]
                    IN  Stamped(e, e.failed, IF e.age < Delay(e) THEN e.age + 1 ELSE e.age)]
  /\ UNCHANGED <<platform, gui, owner, build, worker, lock, fired, waited, seen>>

-----------------------------------------------------------------------------
(* the end of a server *)

\* The lifespan's finally, after the requests have been answered: the scheduler
\* is cancelled, and with it the build it awaits; a child the manager knows of is
\* terminated.
BeginShutdown ==
  /\ gui = "up" /\ Loop
  /\ \A k \in Routes : worker[k] = NULL
  /\ gui' = "closing"
  /\ cancelled' = (sched = "waiting" /\ run # NULL /\ waited = "running")
  /\ sched' = "asleep"
  /\ fired' = NULL
  /\ waited' = NULL
  /\ IF run = "attached" THEN Killed ELSE UNCHANGED <<child, lock>>
  /\ UNCHANGED <<platform, owner, job, run, guard, worker, seen, schedule>>

\* CancelledError inside _run: the guard is released, the job never ends.
\* asyncio kills a child it is still starting; Windows kills one whose job
\* object is closed; on macOS the watchdog is gone and the child goes on.
RunCancelled ==
  /\ run # NULL
  /\ run' = NULL
  /\ IF run = "spawning" \/ (platform = "win32" /\ guard = "held")
     THEN Killed ELSE UNCHANGED <<child, lock>>
  /\ guard' = IF platform # "linux" /\ guard = "held" THEN "released" ELSE guard
  /\ cancelled' = FALSE
  /\ owner' = NULL
  /\ UNCHANGED <<platform, job, worker, scheduler>>

CancelRun == gui = "closing" /\ cancelled /\ RunCancelled /\ UNCHANGED gui

\* IngestManager.shutdown waits for the coroutine, then cancels it.
ShutdownTimeout == gui = "closing" /\ RunCancelled /\ gui' = "closed"

FinishShutdown ==
  /\ gui = "closing"
  /\ run = NULL
  /\ gui' = "closed"
  /\ UNCHANGED <<platform, owner, build, worker, lock, scheduler>>

\* The server's memory and threads are gone.
Gone ==
  /\ gui' = "dead"
  /\ owner' = NULL
  /\ job' = NULL
  /\ run' = NULL
  /\ cancelled' = FALSE
  /\ worker' = [k \in Workers |-> NULL]
  /\ lock' = IF lock \in Workers THEN NULL ELSE lock
  /\ sched' = "asleep"
  /\ fired' = NULL
  /\ waited' = NULL
  /\ seen' = <<>>
  /\ UNCHANGED <<platform, child, guard, schedule>>

\* The interpreter waits for its threads.
Exit ==
  /\ gui = "closed"
  /\ \A k \in Workers : worker[k] \in {NULL, "ended"}
  /\ Gone

Crash == gui # "dead" /\ Gone

GuardKills ==
  /\ gui = "dead"
  /\ guard = "held" /\ Running
  /\ Killed
  /\ UNCHANGED <<platform, gui, owner, job, run, guard, cancelled, worker, scheduler>>

\* The next server; a child that has outlived the last one is a stranger to it.
Launch ==
  /\ gui = "dead"
  /\ gui' = "up"
  /\ child' = NULL
  /\ guard' = "none"
  /\ lock' = IF lock = "ingest" THEN "other" ELSE lock
  /\ UNCHANGED <<platform, owner, job, run, cancelled, worker, scheduler>>

\* Commands and servers elsewhere.
OtherLocks ==
  /\ lock = NULL
  /\ lock' = "other"
  /\ UNCHANGED <<platform, gui, owner, build, worker, scheduler>>

OtherUnlocks ==
  /\ lock = "other"
  /\ lock' = NULL
  /\ UNCHANGED <<platform, gui, owner, build, worker, scheduler>>

-----------------------------------------------------------------------------

Init ==
  /\ platform \in Platforms
  /\ gui = "up"
  /\ owner = NULL
  /\ job = NULL /\ run = NULL /\ child = NULL
  /\ guard = "none" /\ cancelled = FALSE
  /\ worker = [k \in Workers |-> NULL]
  /\ lock = NULL
  /\ sched = "asleep" /\ fired = NULL /\ waited = NULL
  /\ seen = <<>> /\ schedule = <<>>

Next ==
  \/ StartIngest \/ Fork \/ SpawnFails \/ Attach
  \/ ChildLocks \/ ChildFails \/ ChildSucceeds \/ Collect
  \/ \E k \in Workers : Claim(k) \/ WorkerLocks(k) \/ WorkerEnds(k) \/ Release(k)
  \/ \E p \in Paths : SetSchedule(p)
  \/ ScheduleFires \/ LooksInVain \/ RecordAttempt \/ Resume \/ Tick
  \/ BeginShutdown \/ CancelRun \/ ShutdownTimeout \/ FinishShutdown
  \/ Exit \/ Crash \/ GuardKills \/ Launch
  \/ OtherLocks \/ OtherUnlocks

Spec == Init /\ [][Next]_vars

\* The loop, the threads and the children go on, and the scheduler looks after every
\* tick; nothing is said of what users ask for or of how builds end.
Fairness ==
  /\ WF_vars(Tick) /\ WF_vars(ScheduleFires \/ LooksInVain)
  /\ WF_vars(RecordAttempt) /\ WF_vars(Resume)
  /\ WF_vars(Fork) /\ WF_vars(Attach) /\ WF_vars(ChildFails) /\ WF_vars(Collect)
  /\ \A k \in Workers :
       WF_vars(WorkerLocks(k)) /\ WF_vars(WorkerEnds(k)) /\ WF_vars(Release(k))
  /\ WF_vars(OtherUnlocks)

FairSpec == Spec /\ Fairness

-----------------------------------------------------------------------------

\* The lease is held exactly as long as one build or one worker is under way,
\* and by that one: it neither leaks on an error path nor is it shared.
LeaseIsExact ==
  gui \in {"up", "closing"} =>
    /\ owner = "ingest" <=> run # NULL
    /\ \A k \in Workers : owner = k <=> worker[k] # NULL

\* The guard is best effort.  A build outlives its server only if the system refused
\* the guard, the server died before it could attach it (never on Linux), or an orderly
\* shutdown on macOS took the watchdog off a child it had not terminated; on Windows
\* nothing outlives an orderly shutdown but for a refused guard.
NoOrphan ==
  /\ gui = "dead" /\ Running =>
       \/ guard \in {"held", "refused"}
       \/ platform \in {"darwin", "win32"} /\ guard = "none"
       \/ platform = "darwin" /\ guard = "released"
  /\ platform = "win32" /\ gui = "closed" /\ Running => guard = "refused"

\* No build runs that nobody answers for: it has the server's lease while the server is
\* there, and afterwards its guard, save in the cases NoOrphan names.
BuildsAreAccountedFor == LeaseIsExact /\ NoOrphan

\* What the user has set, in the catalog's order.
Settings == [i \in DOMAIN schedule |-> <<schedule[i].path, schedule[i].interval>>]

\* The scheduler records attempts and results; it neither brings back a schedule
\* the user removed while it was at it nor undoes a new interval or a new order.
SchedulerSparesSchedules == [][sched # sched' => Settings' = Settings]_vars

JustSucceeded(p) ==
  \E i \in DOMAIN schedule : schedule[i].path = p /\ ~schedule[i].failed /\ schedule[i].age = 0

\* p is scheduled, behind the entries of E, and nothing but the scheduler has the lease
\* or the database.  No entry of E is due at every look, as one is whose interval is a
\* single tick.
Undisturbed(p, E) ==
  /\ gui = "up" /\ lock # "other"
  /\ owner = NULL \/ (owner = "ingest" /\ waited = "running")
  /\ \E i \in DOMAIN schedule :
       /\ schedule[i].path = p
       /\ E = {schedule[j].path : j \in 1 .. i - 1}
       /\ \A j \in 1 .. i - 1 : schedule[j].interval > 1

\* Of the builds that are started for p again and again, one succeeds in the end.
BuildsSucceed(p) == []<>(fired = p) => []<>(fired = p /\ child = "ok")

\* A project that stays scheduled is built successfully again and again: a failed build
\* is retried, and though one look starts the first due entry and no other, an earlier
\* entry leaves room for the later ones, unless it is due at every look.
SchedulesRecur ==
  \A p \in Paths : \A E \in SUBSET (Paths \ {p}) :
    <>[]Undisturbed(p, E) /\ (\A q \in E \cup {p} : BuildsSucceed(q))
      => []<>JustSucceeded(p)

\* A server that stays up gets its lease back.
LeaseReturns == <>[](gui = "up") => []<>(owner = NULL)
=============================================================================
