\* Usernames move; one lookup at a time; u1 also uses the HTTP process.
SPECIFICATION FairSpec
CONSTANTS
  Users = {u1, u2}
  Handles = {h1}
  Senders = {s1}
  Lookups = {l1}
  Movers = {u1, u2}
  HttpUsers = {u1}
  u1 = u1
  u2 = u2
  h1 = h1
  s1 = s1
  l1 = l1
  None = None
  MaxInvites = 2
PROPERTIES
  ClaimsStay
  SenderTold
