\* Two users after the same inbox, replies that may leave the agent out, and a
\* Platform that resets unclaimed connections.
SPECIFICATION Spec
CONSTANTS
  Users = {u1, u2}
  Emails = {e1}
  None = None
  RequireVerified = TRUE
  AgentAlwaysReported = FALSE
  MaxConn = 2
  MaxLink = 2
  MaxAttempts = 1
SYMMETRY Symmetry
INVARIANTS
  VerifiedEmailUnique
  ConnectionNotShared
  ProvisionedRowComplete
  ClaimLinkOfConnection
PROPERTY KeepsPromise
