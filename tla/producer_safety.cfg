SPECIFICATION Spec
CONSTANTS
  m1 = m1  m2 = m2
  n1 = n1  n2 = n2  n3 = n3
  t1 = t1  t2 = t2  t3 = t3
  Messages = {m1, m2}
  Names = {n1, n2}
  Topics = {t1, t2}
  Choices <- SameChoices
  Answers <- MCAnswers
  RetryTopic = retryTopic
  Retry = Retry
  EnableRetry = TRUE
  ChannelSize = 2
  Torn = Torn
  Nil = Nil
INVARIANTS
  TypeOK
  CopyHasOneOwner
  SettledOnce
  AliasOnlyForward
  SingleIntegrationExact
  RetryIsExclusive
  NoUseAfterDestroy
  RestartIsSafe
CONSTRAINT OneLoop
VIEW SafetyView
SYMMETRY Symmetry
CHECK_DEADLOCK FALSE
