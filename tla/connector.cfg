CONSTANTS
  Slots = {c1, c2}
  null = null
  ListenerCalls = {"destroy", "drop"}
  BadMessages = TRUE
SPECIFICATION FairSpec
INVARIANTS
  TypeOK
  OneChannel
  ToldRight
  ForwardsPresent
PROPERTIES
  SilentAfterDestroy
  Reconnects
  ChannelSpec
