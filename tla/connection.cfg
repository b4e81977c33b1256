CONSTANTS
  Scripts <- ManyScripts
  MaxMessage = 3
  MaxSent = 2
  AppCalls = {"close", "drop", "send", "pause"}
  PeerEnds = TRUE
  Keepalives = {"off", "ping", "drop"}
SPECIFICATION FairSpec
INVARIANTS
  TypeOK
  MessagesWhole
  NoStuckFrames
  CloseIsLast
  CleanCloseLosesNothing
PROPERTIES
  CloseCompletes
  SilentPeerIsDropped
  ChannelSpec
