SPECIFICATION Spec
CONSTANTS
  Apps = {a1}
  Consumer = consumer
  Listeners = {sse}
  DisableCacheTTL = TRUE
  MaxVersion = 1
  Nil = Nil
PROPERTY
  CacheNeverRegresses
CHECK_DEADLOCK FALSE
