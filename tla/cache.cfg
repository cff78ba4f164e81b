SPECIFICATION FairSpec
CONSTANTS
  Apps = {a1, a2}
  Consumer = consumer
  Listeners = {sse}
  DisableCacheTTL = FALSE
  MaxVersion = 1
  Nil = Nil
INVARIANTS
  TypeOK
  NoOrphanLock
  KeyExclusion
  LockFaultsNeedReset
  NilMeansFilled
PROPERTIES
  ImplementsAbstractCache
  CallReturns
CHECK_DEADLOCK FALSE
