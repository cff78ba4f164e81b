SPECIFICATION FairSpec
CONSTANTS
  Callers = {c1, c2}
  Entries <- AllEntries
  Answers <- TwoAnswers
  Lifetime = 0
  MaxTokens = 2
  MaxClock = 2
  APIKey = APIKey
  Nobody = Nobody
INVARIANTS
  TypeOK
  TokenPair
  NoRevokedToken
  MapIsHoustons
PROPERTIES
  NoSpareTokens
  CallReturns
CHECK_DEADLOCK FALSE
