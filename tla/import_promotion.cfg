SPECIFICATION Spec
CONSTANTS
  azure = azure
  request = request
  Imports <- MCImports
  Items <- MCItems
  EvenParts <- MCEvenParts
  PaymentRequests = {request}
  Tasks = {1, 2}
  MaxCrashes = 1
INVARIANTS
  PromotionsAreSound
PROPERTIES
  PromotedFromApproved
\* Nothing is left to do once all imports are dealt with and the tasks are over.
CHECK_DEADLOCK FALSE
