\* Three callers on one scope; a sequence of one number a series, two account numbers.
SPECIFICATION Spec
CONSTANTS
  c1 = c1
  c2 = c2
  c3 = c3
  billing = billing
  Callers = {c1, c2, c3}
  Scopes = {billing}
  Accounts <- AccountNumbers
  Configured <- OneScope
  AllocationSize = 1
  MaxCalls = 4
  MaxEdits = 1
  MaxFailures = 1
SYMMETRY CallerSymmetry
INVARIANTS
  OneActiveSequence
  InactiveOnlyWhileReplaced
PROPERTIES
  DispensesNumbers
\* The calls are bounded.
CHECK_DEADLOCK FALSE
