SPECIFICATION FairSpec
CONSTANTS
  t1 = t1
  t2 = t2
  t3 = t3
  t4 = t4
  Tunnels = {t1, t2, t3, t4}
  MaxConnections = 3
  RetryCount = 2
  MaxErrors = 1
  CleanCloses = TRUE
  ListenerDestroys = {"connect", "state"}
  UserCalls = {"fill", "destroy"}
INVARIANTS
  TypeOK
  NoLeak
  Capacity
  NoStall
  ActiveHasIdleTimer
  EstablishedMeansFullBudget
  DestroyedReleasesAll
PROPERTIES
  PoolSpec
  LifeSpec
  IdleShrinks
  OutageEnds
