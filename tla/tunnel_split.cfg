SPECIFICATION Spec
CONSTANTS
  Requests <- SomeRequests
  MaxAnswers = 2
  Splits = TRUE
INVARIANTS
  RequestsIntact
