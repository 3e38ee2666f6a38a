\* Two threads; every cache has fewer entries than there are keys, and four
\* posts are what it takes to overfill a whole window.
SPECIFICATION Spec
CONSTANTS
    Users = {u1}
    Allowed = {u1}
    Requests = {r1, r2}
    Periods <- MCPeriods
    MaxPerUser = 2
    MaxPerIp = 1
    Window = 2
    SnapshotTtl = 1
    SecretTtl = 2
    MaxSnapshots = 1
    MaxSecrets = 1
    FetchTimeout = 1
    LockWait = 1
    MaxTime = 3
    MaxTokens = 2
    MaxPosts = 4
    MaxWallets <- MCMaxWallets
SYMMETRY RequestSymmetry
INVARIANTS
    TypeOK
    OldTokenRefused
    RateLimited
    ReplyOfCaller
CHECK_DEADLOCK FALSE
