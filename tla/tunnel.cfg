SPECIFICATION FairSpec
CONSTANTS
  Requests <- SomeRequests
  MaxAnswers = 2
  Splits = FALSE
INVARIANTS
  TypeOK
  RequestsIntact
  NoSocketLeaks
  OnlyEstablishedReachLocal
PROPERTIES
  LifeSpec
  TunnelEnds
