\* The attempt limit of an OTP.
SPECIFICATION Spec
CONSTANTS
  Users = {u1}
  Emails = {e1}
  None = None
  RequireVerified = TRUE
  AgentAlwaysReported = TRUE
  MaxConn = 1
  MaxLink = 2
  MaxAttempts = 1
INVARIANT GuessesBounded
