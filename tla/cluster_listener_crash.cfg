SPECIFICATION Spec
CONSTANTS
  t1 = t1
  t2 = t2
  t3 = t3
  Tunnels = {t1, t2, t3}
  MaxConnections = 2
  RetryCount = 2
  MaxErrors = 1
  CleanCloses = FALSE
  ListenerDestroys = {"connect"}
  UserCalls = {}
INVARIANTS
  NoCrash
