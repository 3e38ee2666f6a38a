\* Threads that only use the cached token.
SPECIFICATION FairSpec
CONSTANTS
  Threads = {t1, t2}
  SigningKeysCallers = {}
  Agents = {a1, a2}
  Keys = {k1, k2}
  None = None
  MaxTokens = 3
INVARIANTS
  BearerMatchesRequest
  RetryWithAnotherToken
PROPERTY RequestEnds
