SPECIFICATION RouterFairSpec
CONSTANTS
  n1 = n1  n2 = n2
  t1 = t1  t2 = t2
  Messages = {m1}
  Names = {n1, n2}
  Topics = {t1, t2}
  Choices <- MCChoices
  Answers <- MCAnswers
  RetryTopic = retryTopic
  Retry = Retry
  EnableRetry = TRUE
  ChannelSize = 1
  Torn = Torn
  Nil = Nil
  Keys = {k1, k2}
  QueueSize = 2
  MaxDepth = 1
  Nobody = Nobody
INVARIANT NothingLostOnTheWay
PROPERTIES
  EveryMessageLands
  AllGoroutinesStop
VIEW LiveView
CHECK_DEADLOCK FALSE
