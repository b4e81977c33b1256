CONSTANTS
  Slots = {c1, c2}
  null = null
  ListenerCalls = {"drop"}
  BadMessages = FALSE
SPECIFICATION FairSpec
PROPERTY ReconnectsAlways
