\* A pipeline behind a poll task with a timeout, whose start and check may raise
\* again and again.  Behind the pipeline a callback task whose start may raise
\* as often and which has no timeout: it starves itself alone.
SPECIFICATION FairSpec
CONSTANTS
  r1 = r1
  r2 = r2
  NumTasks = 3
  Requests = {r1}
  Kind <- OneOfEachKind
  NumSteps = 1
  MaxRetries = 0
  Deadline = {3}
  Poison = {1, 3}
  MaxCrashes = 0
  MaxFaults = 0
PROPERTIES
  EveryTaskSettles
\* A system without tasks or requests may rest.
CHECK_DEADLOCK FALSE
