CONSTANTS
  Scripts <- NoClose
  MaxMessage = 3
  MaxSent = 2
  AppCalls = {"close"}
  PeerEnds = FALSE
  Keepalives = {"off"}
SPECIFICATION FairSpec
PROPERTIES
  CloseCompletes
