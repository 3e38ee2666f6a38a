\* One thread uses the cached token, one asks for signing keys.
SPECIFICATION Spec
CONSTANTS
  Threads = {t1, t2}
  SigningKeysCallers = {t2}
  Agents = {a1, a2}
  Keys = {k1}
  None = None
  MaxTokens = 2
INVARIANT BearerMatchesRequest
