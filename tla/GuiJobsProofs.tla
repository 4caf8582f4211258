------------------------------ MODULE GuiJobsProofs ------------------------------
(***************************************************************************)
(* On every platform, for every set of routes and intervals: the lease of  *)
(* a server is held by the one build or worker that is under way, no build *)
(* outlives its server unnoticed, and the scheduler changes no schedule.   *)
(*                                                                         *)
(* What a server leaves behind depends on what it knew of the child when   *)
(* it went: before a coroutine reads a child's output it has tried to put  *)
(* a guard on it, on Linux every child has tried so itself from the start, *)
(* and on Windows a coroutine ends before its child only if the guard was  *)
(* refused (ChildOK).                                                      *)
(***************************************************************************)
EXTENDS GuiJobs, TLAPS

JobsTypeOK ==
  /\ platform \in {"linux", "darwin", "win32"}
  /\ gui \in {"up", "closing", "closed", "dead"}
  /\ owner \in {NULL, "ingest"} \cup Workers
  /\ run \in {NULL, "spawning", "attached"}
  /\ child \in {NULL, "alive", "locked", "ok", "failed"}
  /\ guard \in {"none", "held", "refused", "released"} /\ cancelled \in BOOLEAN
  /\ worker \in [Workers -> {NULL, "claimed", "locked", "ended"}]

\* The lease, at any time in the life of a server.
LeaseOK ==
  /\ owner = "ingest" <=> run # NULL
  /\ \A k \in Workers : owner = k <=> worker[k] # NULL
  /\ gui = "dead" => owner = NULL
  /\ gui = "closed" => run = NULL

\* The child, its guard and the coroutine that reads its output.
Tried == guard \in {"held", "refused"}

ChildOK ==
  /\ platform = "linux" /\ child # NULL => Tried
  /\ platform # "linux" /\ run = "attached" => Tried
  /\ platform = "win32" /\ guard = "released" => ~Running
  /\ platform = "win32" /\ gui # "dead" /\ run = NULL /\ Running => guard = "refused"

IInv == JobsTypeOK /\ LeaseOK /\ ChildOK

-----------------------------------------------------------------------------

\* The routes are not the maintenance job, and no worker is a build or nobody.
LEMMA WorkersAreApart == NULL \notin Workers /\ "ingest" \notin Workers
BY JobsAssumption DEF Workers, NULL

LEMMA InitOK == Init => IInv
BY JobsAssumption, WorkersAreApart
   DEF Init, IInv, JobsTypeOK, LeaseOK, ChildOK, Running, NULL

\* Nobody has the lease: the build that starts is the only thing under way.
LEMMA StartedOK ==
  ASSUME IInv, gui = "up", Started
  PROVE  IInv'
<1>1. /\ owner = NULL /\ owner' = "ingest" /\ run' = "spawning"
      /\ child' = NULL /\ guard' = "none"
      /\ platform' = platform /\ gui' = gui /\ cancelled' = cancelled /\ worker' = worker
  BY DEF Started
<1>2. JobsTypeOK'
  BY <1>1 DEF IInv, JobsTypeOK
<1>3. LeaseOK'
  BY <1>1, WorkersAreApart DEF IInv, LeaseOK, NULL
<1>4. ChildOK'
  BY <1>1 DEF ChildOK, Running, NULL
<1> QED
  BY <1>2, <1>3, <1>4 DEF IInv

\* A coroutine that is cancelled returns the lease; the child it leaves has tried its
\* guard on Linux, and is killed on Windows unless the guard was refused.
LEMMA RunCancelledOK ==
  ASSUME IInv, RunCancelled, gui = "closing", gui' \in {"closing", "closed"}
  PROVE  IInv'
<1>1. /\ run # NULL /\ run' = NULL /\ owner' = NULL /\ cancelled' = FALSE
      /\ guard' = IF platform # "linux" /\ guard = "held" THEN "released" ELSE guard
      /\ platform' = platform /\ worker' = worker
      /\ \/ child' = child /\ ~(run = "spawning" \/ (platform = "win32" /\ guard = "held"))
         \/ child' = IF Running THEN "failed" ELSE child
  BY DEF RunCancelled, Killed
<1>2. JobsTypeOK'
  BY <1>1 DEF IInv, JobsTypeOK, Running
<1>3. owner = "ingest"
  BY <1>1 DEF IInv, LeaseOK
<1>4. LeaseOK'
  BY <1>1, <1>3, WorkersAreApart DEF IInv, LeaseOK, NULL
<1>5. ChildOK'
  <2>1. platform' = "linux" /\ child' # NULL => Tried'
    BY <1>1 DEF IInv, ChildOK, Tried, Running, NULL
  <2>2. platform' = "win32" /\ guard' = "released" => ~Running'
    BY <1>1 DEF IInv, ChildOK, Tried, Running
  <2>3. platform' = "win32" /\ Running' => guard' = "refused"
    BY <1>1 DEF IInv, JobsTypeOK, ChildOK, Tried, Running, NULL
  <2> QED
    BY <1>1, <2>1, <2>2, <2>3 DEF ChildOK, NULL
<1> QED
  BY <1>2, <1>4, <1>5 DEF IInv

\* With the server its lease, its coroutines and its threads are gone, not its child.
LEMMA GoneOK ==
  ASSUME IInv, Gone
  PROVE  IInv'
<1>1. JobsTypeOK'
  BY DEF IInv, JobsTypeOK, Gone
<1>2. LeaseOK'
  BY WorkersAreApart DEF IInv, LeaseOK, Gone, NULL
<1>3. ChildOK'
  BY DEF IInv, ChildOK, Tried, Running, Gone, NULL
<1> QED
  BY <1>1, <1>2, <1>3 DEF IInv

\* Steps that leave the lease, the coroutine and the server alone, and the child
\* running only if it ran.
LEMMA ChildStepOK ==
  ASSUME IInv, child' \in {child, "locked", "ok", "failed"}, child # NULL \/ child' = child,
         Running' => Running,
         UNCHANGED <<platform, gui, owner, run, guard, cancelled, worker>>
  PROVE  IInv'
<1>1. JobsTypeOK'
  BY DEF IInv, JobsTypeOK
<1>2. LeaseOK'
  BY DEF IInv, LeaseOK
<1>3. ChildOK'
  BY DEF IInv, ChildOK, Tried
<1> QED
  BY <1>1, <1>2, <1>3 DEF IInv

LEMMA StepOK == IInv /\ [Next]_vars => IInv'
<1> SUFFICES ASSUME IInv, [Next]_vars PROVE IInv'
  OBVIOUS
<1>1. CASE StartIngest
  BY <1>1, StartedOK DEF StartIngest
<1>2. CASE Fork
  <2>1. /\ child' = "alive" /\ run = "spawning" /\ child = NULL
        /\ guard' \in IF platform = "linux" THEN {"held", "refused"} ELSE {"none"}
        /\ UNCHANGED <<platform, gui, owner, run, cancelled, worker>>
    BY <1>2 DEF Fork, scheduler
  <2>2. JobsTypeOK'
    BY <2>1 DEF IInv, JobsTypeOK
  <2>3. LeaseOK'
    BY <2>1 DEF IInv, LeaseOK
  <2>4. ChildOK'
    BY <2>1 DEF IInv, ChildOK, Tried, NULL
  <2> QED
    BY <2>2, <2>3, <2>4 DEF IInv
<1>3. CASE SpawnFails
  <2>1. /\ child = NULL /\ child' = NULL /\ run = "spawning" /\ run' = NULL /\ owner' = NULL
        /\ UNCHANGED <<platform, gui, guard, cancelled, worker>>
    BY <1>3 DEF SpawnFails
  <2>2. JobsTypeOK'
    BY <2>1 DEF IInv, JobsTypeOK
  <2>3. owner = "ingest"
    BY <2>1 DEF IInv, LeaseOK, NULL
  <2>4. LeaseOK'
    BY <2>1, <2>3, WorkersAreApart DEF IInv, LeaseOK, NULL
  <2>5. ChildOK'
    BY <2>1 DEF ChildOK, Running, NULL
  <2> QED
    BY <2>2, <2>4, <2>5 DEF IInv
<1>4. CASE Attach
  <2>1. /\ run = "spawning" /\ run' = "attached"
        /\ guard' \in IF platform = "linux" THEN {guard} ELSE {"held", "refused"}
        /\ UNCHANGED <<platform, gui, owner, child, cancelled, worker>>
    BY <1>4 DEF Attach, scheduler
  <2>2. JobsTypeOK'
    BY <2>1 DEF IInv, JobsTypeOK
  <2>3. LeaseOK'
    BY <2>1 DEF IInv, LeaseOK, NULL
  <2>4. ChildOK'
    BY <2>1 DEF IInv, ChildOK, Tried, Running, NULL
  <2> QED
    BY <2>2, <2>3, <2>4 DEF IInv
<1>5. CASE ChildLocks
  BY <1>5, ChildStepOK DEF ChildLocks, scheduler, Running, NULL
<1>6. CASE ChildFails
  BY <1>6, ChildStepOK DEF ChildFails, Killed, scheduler, Running, NULL
<1>7. CASE ChildSucceeds
  BY <1>7, ChildStepOK DEF ChildSucceeds, scheduler, Running, NULL
<1>8. CASE Collect
  <2>1. /\ run = "attached" /\ run' = NULL /\ child' = NULL /\ guard' = "none" /\ owner' = NULL
        /\ UNCHANGED <<platform, gui, cancelled, worker>>
    BY <1>8 DEF Collect
  <2>2. JobsTypeOK'
    BY <2>1 DEF IInv, JobsTypeOK
  <2>3. owner = "ingest"
    BY <2>1 DEF IInv, LeaseOK, NULL
  <2>4. LeaseOK'
    BY <2>1, <2>3, WorkersAreApart DEF IInv, LeaseOK, NULL
  <2>5. ChildOK'
    BY <2>1 DEF ChildOK, Running, NULL
  <2> QED
    BY <2>2, <2>4, <2>5 DEF IInv
<1>9. ASSUME NEW k \in Workers, Claim(k)
      PROVE  IInv'
  <2>1. /\ gui = "up" /\ owner = NULL /\ owner' = k
        /\ worker' = [worker EXCEPT ![k] = "claimed"]
        /\ UNCHANGED <<platform, gui, run, child, guard, cancelled>>
    BY <1>9 DEF Claim, build, scheduler
  <2>2. JobsTypeOK'
    BY <2>1 DEF IInv, JobsTypeOK
  <2>3. LeaseOK'
    BY <2>1, WorkersAreApart DEF IInv, LeaseOK, JobsTypeOK, NULL
  <2>4. ChildOK'
    BY <2>1 DEF IInv, ChildOK, Tried, Running
  <2> QED
    BY <2>2, <2>3, <2>4 DEF IInv
<1>10. ASSUME NEW k \in Workers, WorkerLocks(k) \/ WorkerEnds(k)
       PROVE  IInv'
  <2>1. /\ worker[k] \in {"claimed", "locked"}
        /\ \E w \in {"locked", "ended"} : worker' = [worker EXCEPT ![k] = w]
        /\ UNCHANGED <<platform, gui, owner, run, child, guard, cancelled>>
    BY <1>10 DEF WorkerLocks, WorkerEnds, build, scheduler
  <2>2. JobsTypeOK'
    BY <2>1 DEF IInv, JobsTypeOK
  <2>3. LeaseOK'
    BY <2>1 DEF IInv, LeaseOK, JobsTypeOK, NULL
  <2>4. ChildOK'
    BY <2>1 DEF IInv, ChildOK, Tried, Running
  <2> QED
    BY <2>2, <2>3, <2>4 DEF IInv
<1>11. ASSUME NEW k \in Workers, Release(k)
       PROVE  IInv'
  <2>1. /\ worker[k] = "ended" /\ worker' = [worker EXCEPT ![k] = NULL]
        /\ owner' = IF owner = k THEN NULL ELSE owner
        /\ UNCHANGED <<platform, gui, run, child, guard, cancelled>>
    BY <1>11 DEF Release, build, scheduler
  <2>2. JobsTypeOK'
    BY <2>1 DEF IInv, JobsTypeOK
  <2>3. owner = k
    BY <2>1 DEF IInv, LeaseOK, NULL
  <2>4. LeaseOK'
    BY <2>1, <2>3, WorkersAreApart DEF IInv, LeaseOK, JobsTypeOK, NULL
  <2>5. ChildOK'
    BY <2>1 DEF IInv, ChildOK, Tried, Running
  <2> QED
    BY <2>2, <2>4, <2>5 DEF IInv
<1>12. ASSUME UNCHANGED <<platform, gui, owner, run, child, guard, cancelled, worker>>
       PROVE  IInv'
  <2>1. JobsTypeOK'
    BY <1>12 DEF IInv, JobsTypeOK
  <2>2. LeaseOK' /\ ChildOK'
    BY <1>12 DEF IInv, LeaseOK, ChildOK, Tried, Running
  <2> QED
    BY <2>1, <2>2 DEF IInv
<1>13. ASSUME NEW p \in Paths, SetSchedule(p)
       PROVE  IInv'
  BY <1>12, <1>13 DEF SetSchedule, build
<1>14. CASE ScheduleFires
  BY <1>14, StartedOK DEF ScheduleFires
<1>15. CASE LooksInVain
  BY <1>12, <1>15 DEF LooksInVain, build
<1>16. CASE RecordAttempt
  BY <1>12, <1>16 DEF RecordAttempt, build
<1>17. CASE Resume
  BY <1>12, <1>17 DEF Resume, build
<1>18. CASE Tick
  BY <1>12, <1>18 DEF Tick, build
<1>19. CASE BeginShutdown
  <2>1. /\ gui = "up" /\ gui' = "closing" /\ cancelled' \in BOOLEAN
        /\ child' \in {child, "failed"} /\ (child = NULL => child' = NULL)
        /\ (Running' => Running)
        /\ UNCHANGED <<platform, owner, run, guard, worker>>
    BY <1>19 DEF BeginShutdown, Killed, Running, NULL
  <2>2. JobsTypeOK'
    BY <2>1 DEF IInv, JobsTypeOK
  <2>3. LeaseOK' /\ ChildOK'
    BY <2>1 DEF IInv, LeaseOK, ChildOK, Tried
  <2> QED
    BY <2>2, <2>3 DEF IInv
<1>20. CASE CancelRun
  BY <1>20, RunCancelledOK DEF CancelRun
<1>21. CASE ShutdownTimeout
  BY <1>21, RunCancelledOK DEF ShutdownTimeout
<1>22. CASE FinishShutdown
  <2>1. /\ gui = "closing" /\ run = NULL /\ gui' = "closed"
        /\ UNCHANGED <<platform, owner, run, child, guard, cancelled, worker>>
    BY <1>22 DEF FinishShutdown, build, scheduler
  <2>2. JobsTypeOK'
    BY <2>1 DEF IInv, JobsTypeOK
  <2>3. LeaseOK' /\ ChildOK'
    BY <2>1 DEF IInv, LeaseOK, ChildOK, Tried, Running
  <2> QED
    BY <2>2, <2>3 DEF IInv
<1>23. CASE Exit \/ Crash
  BY <1>23, GoneOK DEF Exit, Crash
<1>24. CASE GuardKills
  BY <1>24, ChildStepOK DEF GuardKills, Killed, scheduler, Running, NULL
<1>25. CASE Launch
  <2>1. /\ gui = "dead" /\ gui' = "up" /\ child' = NULL /\ guard' = "none"
        /\ UNCHANGED <<platform, owner, run, cancelled, worker>>
    BY <1>25 DEF Launch, scheduler
  <2>2. owner = NULL /\ run # "attached"
    BY <2>1 DEF IInv, LeaseOK, NULL
  <2>3. JobsTypeOK'
    BY <2>1 DEF IInv, JobsTypeOK
  <2>4. LeaseOK' /\ ChildOK'
    BY <2>1, <2>2 DEF IInv, LeaseOK, ChildOK, Tried, Running, NULL
  <2> QED
    BY <2>3, <2>4 DEF IInv
<1>26. CASE OtherLocks \/ OtherUnlocks \/ UNCHANGED vars
  BY <1>12, <1>26 DEF OtherLocks, OtherUnlocks, vars, build
<1> QED
  BY <1>1, <1>2, <1>3, <1>4, <1>5, <1>6, <1>7, <1>8, <1>9, <1>10, <1>11, <1>13, <1>14, <1>15,
     <1>16, <1>17, <1>18, <1>19, <1>20, <1>21, <1>22, <1>23, <1>24, <1>25, <1>26 DEF Next

\* What the invariant says of the lease, and of the child of a server that is gone.
LEMMA InvariantSuffices == IInv => BuildsAreAccountedFor
<1> SUFFICES ASSUME IInv PROVE BuildsAreAccountedFor
  OBVIOUS
<1>1. LeaseIsExact
  BY DEF IInv, LeaseOK, LeaseIsExact
<1>2. NoOrphan
  BY DEF IInv, JobsTypeOK, LeaseOK, ChildOK, Tried, NoOrphan, Running, NULL
<1> QED
  BY <1>1, <1>2 DEF BuildsAreAccountedFor

\* For every set of platforms, routes and intervals: the lease of a server is held by
\* exactly the build or worker under way, and a build outlives its server without a guard
\* only where the guard was refused, not yet attached, or released in a macOS shutdown.
THEOREM BuildsAreAccountedForTheorem == Spec => []BuildsAreAccountedFor
BY InitOK, StepOK, InvariantSuffices, PTL DEF Spec

-----------------------------------------------------------------------------

\* What stamps an entry leaves its path and its interval alone.
LEMMA StampedFacts ==
  ASSUME NEW e, NEW wrong, NEW age
  PROVE  /\ Stamped(e, wrong, age).path = e.path
         /\ Stamped(e, wrong, age).interval = e.interval
BY DEF Stamped

\* An attempt's record, a result's and the passing of time change no setting.
LEMMA SettingsSurvive ==
  ASSUME \/ schedule' = schedule
         \/ \E wrong \in BOOLEAN : schedule' = Updated(schedule, fired, wrong)
         \/ Tick
  PROVE  Settings' = Settings
<1>1. /\ DOMAIN schedule' = DOMAIN schedule
      /\ \A i \in DOMAIN schedule :
           /\ schedule'[i].path = schedule[i].path
           /\ schedule'[i].interval = schedule[i].interval
  <2>1. CASE schedule' = schedule
    BY <2>1
  <2>2. ASSUME NEW wrong \in BOOLEAN, schedule' = Updated(schedule, fired, wrong)
        PROVE  /\ DOMAIN schedule' = DOMAIN schedule
               /\ \A i \in DOMAIN schedule :
                    /\ schedule'[i].path = schedule[i].path
                    /\ schedule'[i].interval = schedule[i].interval
    BY <2>2, StampedFacts DEF Updated
  <2>3. CASE Tick
    BY <2>3, StampedFacts DEF Tick
  <2> QED
    BY <2>1, <2>2, <2>3
<1> QED
  BY <1>1 DEF Settings

\* The scheduler's own steps keep the settings, whatever the user has set meanwhile.
\* Only a step of the scheduler, of the clock or of the server's end moves sched.
LEMMA SchedulerStepSpares ==
  ASSUME [Next]_vars, sched # sched'
  PROVE  Settings' = Settings
<1>1. CASE RecordAttempt
  BY <1>1, SettingsSurvive DEF RecordAttempt
<1>2. CASE Resume
  <2>1. schedule' = schedule \/ schedule' = Updated(schedule, fired, FALSE)
    BY <1>2 DEF Resume
  <2> QED
    BY <2>1, SettingsSurvive
<1>3. CASE Tick
  BY <1>3, SettingsSurvive
<1>4. CASE ScheduleFires \/ LooksInVain \/ BeginShutdown
  BY <1>4, SettingsSurvive DEF ScheduleFires, LooksInVain, BeginShutdown
<1>5. CASE Exit \/ Crash
  BY <1>5, SettingsSurvive DEF Exit, Crash, Gone
<1>6. ASSUME StartIngest \/ Fork \/ SpawnFails \/ Attach \/ ChildLocks \/ ChildFails
             \/ ChildSucceeds \/ Collect
      PROVE  FALSE
  BY <1>6 DEF StartIngest, Fork, SpawnFails, Attach, ChildLocks, ChildFails,
              ChildSucceeds, Collect, scheduler
<1>7. ASSUME NEW k \in Workers, Claim(k) \/ WorkerLocks(k) \/ WorkerEnds(k) \/ Release(k)
      PROVE  FALSE
  BY <1>7 DEF Claim, WorkerLocks, WorkerEnds, Release, scheduler
<1>8. ASSUME NEW p \in Paths, SetSchedule(p)
      PROVE  FALSE
  BY <1>8 DEF SetSchedule
<1>9. ASSUME CancelRun \/ ShutdownTimeout \/ FinishShutdown
             \/ GuardKills \/ Launch \/ OtherLocks \/ OtherUnlocks \/ UNCHANGED vars
      PROVE  FALSE
  BY <1>9 DEF CancelRun, ShutdownTimeout, RunCancelled, FinishShutdown,
              GuardKills, Launch, OtherLocks, OtherUnlocks, vars, scheduler
<1> QED
  BY <1>1, <1>2, <1>3, <1>4, <1>5, <1>6, <1>7, <1>8, <1>9 DEF Next

\* For every set of paths and intervals: a step of the scheduler neither brings back a
\* schedule that was removed nor undoes a new interval or a new order.
THEOREM SchedulerSparesSchedulesTheorem == Spec => SchedulerSparesSchedules
<1>1. [Next]_vars => [sched # sched' => Settings' = Settings]_vars
  BY SchedulerStepSpares
<1> QED
  BY <1>1, PTL DEF Spec, SchedulerSparesSchedules
=============================================================================
