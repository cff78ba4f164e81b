SPECIFICATION FairSpec
CONSTANTS
  requiredEnvs = {KAFKA_BROKERS, KAFKA_RETRY_TOPIC}
  retryRequiredEnvs = {CLICKSTREAM_RETRY_S3_BUCKET}
  Credentials = {HOUSTON_API_KEY, HOUSTON_USERNAME}
INVARIANTS
  RequiredBeforeWork
  RetryHasQueue
  WiredAsAsked
PROPERTY SignalEnds
CHECK_DEADLOCK FALSE
