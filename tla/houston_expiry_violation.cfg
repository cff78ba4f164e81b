SPECIFICATION TrafficSpec
CONSTANTS
  Callers = {c1}
  Entries <- AllEntries
  Answers <- TwoAnswers
  Lifetime = 0
  MaxTokens = 2
  MaxClock = 2
  APIKey = APIKey
  Nobody = Nobody
PROPERTY ExpiredIsReplaced
CHECK_DEADLOCK FALSE
