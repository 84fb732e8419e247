SPECIFICATION Spec
CONSTANTS
  c1 = c1
  c2 = c2
  Callers <- MCCallers
  Offers <- MCOffers
  Needs <- MCNeeds
  Welcome = 1
  MaxLots = 2
  MaxCalls = 4
  MaxEdits = 1
  MaxFailures = 1
SYMMETRY MCSymmetry
INVARIANTS
  LotsAreSound
  AccountsFollowLots
\* No call is left once MaxCalls have ended.
CHECK_DEADLOCK FALSE
