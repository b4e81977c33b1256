SPECIFICATION Spec
CONSTANTS
  Requests <- ManyRequests
  Responses <- ManyResponses
  Truncated = TRUE
INVARIANT
  HeldBackIsPassed
