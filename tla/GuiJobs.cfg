SPECIFICATION FairSpec
CONSTANTS
  Platforms = {"linux", "darwin", "win32"}
  Routes = {"clear"}
  Paths = {"p", "q"}
  Intervals = {1, 2}
  Retry = 2
INVARIANTS
  BuildsAreAccountedFor
PROPERTIES
  SchedulerSparesSchedules
  SchedulesRecur
  LeaseReturns
