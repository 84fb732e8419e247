\* A pipeline of two steps with a timeout, two requests at a time, a restart
\* and a tick that breaks off.
SPECIFICATION Spec
CONSTANTS
  r1 = r1
  r2 = r2
  NumTasks = 1
  Requests = {r1, r2}
  Kind <- OnePipeline
  NumSteps = 2
  MaxRetries = 1
  Deadline = {1}
  Poison = {}
  MaxCrashes = 1
  MaxFaults = 1
SYMMETRY RequestSymmetry
INVARIANTS
  ContextMatchesStep
  ExecutionsAreAccountedFor
  RetryBudget
  FinalStatusIsLogged
PROPERTIES
  StepNeverGoesBack
  QuietIsStable
\* A system without tasks or requests may rest.
CHECK_DEADLOCK FALSE
