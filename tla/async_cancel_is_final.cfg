\* A cancel races with a step in flight.
SPECIFICATION Spec
CONSTANTS
  r1 = r1
  r2 = r2
  NumTasks = 1
  Requests = {r1}
  Kind <- OnePipeline
  NumSteps = 2
  MaxRetries = 0
  Deadline = {}
  Poison = {}
  MaxCrashes = 0
  MaxFaults = 0
PROPERTIES
  CancelIsFinal
\* A system without tasks or requests may rest.
CHECK_DEADLOCK FALSE
