SPECIFICATION FairSpec
CONSTANTS
  m1 = m1
  NumJobs = 2
  Definitions <- Edits
  Defined <- RunForOneBroken
  Managers = {m1}
  Horizon = 9
  MaxTime = 2
  MaxRunNow = 1
  MaxEdits = 1
  MaxFaults = 1
  MaxCrashes = 1
INVARIANTS
  RunsWithinLimit
  JobsAreSound
PROPERTIES
  DueJobRuns
