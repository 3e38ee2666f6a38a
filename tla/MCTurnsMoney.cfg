\* Two turns, two executions, a store of two records that forgets after a tick.
SPECIFICATION FairSpec
CONSTANTS
  None = None
  Operator = Operator
  Outsider = Outsider
  Zero = Zero
  Malformed = Malformed
  u1 = u1
  u2 = u2
  Users = {u1, u2}
  Talkers = {u1}
  Configs <- EveryMode
  Asked <- SmallAsked
  Copied <- WrittenOut
  Quoted <- Answers
  MaxEntries = 2
  Ttl = 0
  MaxAttempts = 2
  MaxClock = 1
  MaxPuts = 3
  MaxExec = 2
  MaxTurns = 2
  MaxUsed = 4
INVARIANTS TypeOK SwapsKeepTheirWallet AnswersAreTrue
PROPERTIES RecordsLostOnlyByAgeOrCrowding FreshWhenUsed MessageOfThisTurn TurnEnds
CHECK_DEADLOCK FALSE
