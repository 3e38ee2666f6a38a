\* One user, one inbox, a Platform that resets connections and mints up to
\* three links on each, under fair polling at the gate.
SPECIFICATION FairSpec
CONSTANTS
  Users = {u1}
  Emails = {e1}
  None = None
  RequireVerified = TRUE
  AgentAlwaysReported = TRUE
  MaxConn = 2
  MaxLink = 3
  MaxAttempts = 1
INVARIANT CredentialsOfOneAgent
PROPERTIES
  ClaimedBecomesReady
  ReadyStable
  StartMailsLink
