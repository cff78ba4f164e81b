SPECIFICATION Spec
CONSTANTS
  m1 = m1  m2 = m2
  n1 = n1  n2 = n2  n3 = n3
  t1 = t1  t2 = t2  t3 = t3
  Messages = {m1}
  Names = {n1, n2}
  Topics = {t1, t2}
  Choices <- MCChoices
  Answers <- MCAnswers
  RetryTopic = retryTopic
  Retry = Retry
  EnableRetry = TRUE
  ChannelSize = 2
  Torn = Torn
  Nil = Nil
INVARIANT RoutedToItsTopic
CHECK_DEADLOCK FALSE
