SPECIFICATION FairSpec
CONSTANTS
  Requests <- ManyRequests
  Responses <- ManyResponses
  Truncated = FALSE
INVARIANTS
  TypeOK
  OutputReadable
PROPERTIES
  PipeSpec
  ResponseEnds
