--------------------------------- MODULE MiniApp ---------------------------------
(***************************************************************************)
(* POST /v1/miniapp/portfolio: one thread per request, and between them    *)
(* the vault secrets' TTL + LRU cache (it serves the bot token that        *)
(* initData is verified with), two sliding-window limiters and the cache   *)
(* of portfolio snapshots.  A snapshot is only the wallet and period it is *)
(* for and the time at which its data was read; PortfolioSnapshot says     *)
(* what is in it.  Time is counted in ticks and passes while threads wait  *)
(* for the vault or for Zerion, at most FetchTimeout per call (urlopen and *)
(* httpx have timeouts), or for a limiter's lock, at most LockWait, and    *)
(* not between the other steps of a thread.  The limiters exist: an        *)
(* earlier request has created them.                                       *)
(***************************************************************************)
EXTENDS Integers, Sequences, FiniteSets, SequencesExt

CONSTANTS
    Users,          \* Telegram users, on one client address
    Allowed,        \* subset of Users: telegram_allowed_chat_id_allowlist
    Requests,       \* threads
    Periods,        \* chart periods a client may ask for
    MaxPerUser, MaxPerIp,   \* events a window admits
    Window,         \* 60 s
    SnapshotTtl, SecretTtl, \* in ticks
    MaxSnapshots,   \* entries of the snapshot cache
    MaxSecrets,     \* entries of the secret cache
    FetchTimeout,
    LockWait,       \* ticks between allow's clock reading and its lock
    MaxTime,        \* bound: the clock
    MaxTokens,      \* bound: bot tokens, the current one and its successors
    MaxPosts,       \* bound: requests
    MaxWallets      \* [Users -> Nat], bound: wallets a row holds one after the other

Ip == "ip"

ASSUME ConstantsAssumption ==
    /\ Allowed \subseteq Users /\ Ip \notin Users
    /\ {MaxPerUser, MaxPerIp, Window, SnapshotTtl, SecretTtl, MaxSnapshots,
        MaxSecrets, FetchTimeout, MaxTokens} \subseteq Nat \ {0}
    /\ {LockWait, MaxTime, MaxPosts} \subseteq Nat
    /\ MaxWallets \in [Users -> Nat]

Charts == {"day", "week", "month", "year", "max"}
BotPath == "bot_token"
OtherPath == "other_secret"

VARIABLES
    now,
    bot,        \* the bot's token: how many there have been
    retired,    \* history: when each earlier token was replaced
    secrets,    \* the secret cache, least recently used first
    posts,      \* requests posted so far
    wallet,     \* wallet_address of each row, 0 for an empty column
    events,     \* the limiters' deques: per key, the times admitted
    passed,     \* history: the times of the requests the user's limiter let through
    snapshots,  \* the snapshot cache: key -> snapshot and expiry
    req         \* per thread: the request it serves

vars == <<now, bot, retired, secrets, posts, wallet, events, passed, snapshots, req>>

Idle == [pc |-> "idle"]

Init ==
    /\ now = 0 /\ bot = 1 /\ retired = <<>>
    /\ secrets = <<>>
    /\ posts = 0
    /\ wallet = [u \in Users |-> 0]
    /\ events = [k \in Users \cup {Ip} |-> <<>>]
    /\ passed = [u \in Users |-> <<>>]
    /\ snapshots = [k \in {} |-> 0]
    /\ req = [r \in Requests |-> Idle]

--------------------------------------------------------------------------------
(* TtlLruCache.get and set, on a sequence in order of use.                 *)
Holds(cache, path) == \E i \in DOMAIN cache : cache[i].path = path
Position(cache, path) == CHOOSE i \in DOMAIN cache : cache[i].path = path
Entry(cache, path) == cache[Position(cache, path)]
Without(cache, path) ==
    IF Holds(cache, path) THEN RemoveAt(cache, Position(cache, path)) ELSE cache
Hit(cache, path) == Holds(cache, path) /\ now < Entry(cache, path).exp

(* What get leaves behind: an expired entry is dropped, a live one becomes *)
(* the most recent.  Seeded bug: a hit extends the life of the entry.      *)
Touched_Extends(cache, path) ==
    IF ~Holds(cache, path) THEN cache
    ELSE IF Hit(cache, path)
    THEN Append(Without(cache, path),
                [Entry(cache, path) EXCEPT !.exp = now + SecretTtl])
    ELSE Without(cache, path)

Touched(cache, path) ==
    IF ~Holds(cache, path) THEN cache
    ELSE IF Hit(cache, path)
    THEN Append(Without(cache, path), Entry(cache, path))
    ELSE Without(cache, path)

(* Seeded bug: the size is checked before the new entry is in.             *)
Stored_ChecksFirst(cache, path, value) ==
    LET cut == IF Len(cache) > MaxSecrets THEN Tail(cache) ELSE cache
    IN  Append(Without(cut, path),
               [path |-> path, value |-> value, exp |-> now + SecretTtl])

Stored(cache, path, value) ==
    LET all == Append(Without(cache, path),
                      [path |-> path, value |-> value, exp |-> now + SecretTtl])
    IN  IF Len(all) > MaxSecrets THEN Tail(all) ELSE all

(* SlidingWindowRateLimiter.allow, by a thread that read the clock at t    *)
(* and now has the lock: what popleft leaves of a deque, and whether one   *)
(* more event fits.  A thread that waited appends behind events later than *)
(* its own.  Seeded bug: one event too many.                               *)
Expired(times, t, k) ==
    /\ \A i \in 1 .. k : times[i] <= t - Window
    /\ k < Len(times) => times[k + 1] > t - Window

Recent(times, t) ==
    LET k == CHOOSE k \in 0 .. Len(times) : Expired(times, t, k)
    IN  SubSeq(times, k + 1, Len(times))

Limited_TooLate(key, max, t) == Len(Recent(events[key], t)) > max

Limited(key, max, t) == Len(Recent(events[key], t)) >= max

Record(key, max, t) ==
    events' = [events EXCEPT ![key] =
        IF Limited(key, max, t) THEN Recent(@, t) ELSE Append(Recent(@, t), t)]

--------------------------------------------------------------------------------
Tick ==
    /\ now < MaxTime
    /\ \A r \in Requests :
         \/ req[r] = Idle
         \/ req[r].pc \in {"store", "fetch"} /\ now < req[r].since + FetchTimeout
         \/ req[r].pc \in {"user", "ip"} /\ now < req[r].t + LockWait
    /\ now' = now + 1
    /\ UNCHANGED <<bot, retired, secrets, posts, wallet, events, passed, snapshots, req>>

(* The operator replaces the bot's token, in Telegram and in the vault.    *)
RotateToken ==
    /\ bot < MaxTokens
    /\ bot' = bot + 1
    /\ retired' = Append(retired, now)
    /\ UNCHANGED <<now, secrets, posts, wallet, events, passed, snapshots, req>>

(* Backfill and sync-wallet write the column (HostedOnboarding).           *)
WriteWallet(u) ==
    /\ wallet[u] < MaxWallets[u]
    /\ wallet' = [wallet EXCEPT ![u] = @ + 1]
    /\ UNCHANGED <<now, bot, retired, secrets, posts, events, passed, snapshots, req>>

(* Another thread of the service reads another secret.                     *)
ReadOtherSecret ==
    /\ secrets' = LET seen == Touched(secrets, OtherPath)
                  IN  IF Hit(secrets, OtherPath) THEN seen
                      ELSE Stored(seen, OtherPath, 0)
    /\ UNCHANGED <<now, bot, retired, posts, wallet, events, passed, snapshots, req>>

(* validate_telegram_webapp_init_data and the allowlist, for initData that *)
(* the client signed with some token of the bot; then allow reads the      *)
(* clock for the user's limiter.  Ages of initData are left out.           *)
Authentic(u, token, signed) == signed = token /\ u \in Allowed

Authenticate(r, u, token) ==
    \E signed \in 1 .. bot :
        req' = [req EXCEPT ![r] =
            IF Authentic(u, token, signed)
            THEN [pc |-> "user", user |-> u, token |-> token, t |-> now] ELSE Idle]

(* A client posts, and the route resolves the bot's token:                 *)
(* resolve_telegram_bot_token, then CachingSecretStore.get_secret.  A miss *)
(* reads the vault outside the cache's lock, and may find it down.         *)
Post(r, u) ==
    /\ req[r] = Idle /\ posts < MaxPosts
    /\ posts' = posts + 1
    /\ secrets' = Touched(secrets, BotPath)
    /\ IF Hit(secrets, BotPath)
       THEN Authenticate(r, u, Entry(secrets, BotPath).value)
       ELSE \/ req' = [req EXCEPT ![r] =
                 [pc |-> "store", user |-> u, token |-> bot, since |-> now]]
            \/ UNCHANGED req
    /\ UNCHANGED <<now, bot, retired, wallet, events, passed, snapshots>>

StoreToken(r) ==
    /\ req[r].pc = "store"
    /\ secrets' = Stored(secrets, BotPath, req[r].token)
    /\ Authenticate(r, req[r].user, req[r].token)
    /\ UNCHANGED <<now, bot, retired, posts, wallet, events, passed, snapshots>>

(* The user's limiter under its lock, and the clock for the other one.     *)
AllowUser(r) ==
    LET q == req[r]
    IN  /\ q.pc = "user"
        /\ Record(q.user, MaxPerUser, q.t)
        /\ IF Limited(q.user, MaxPerUser, q.t)
           THEN req' = [req EXCEPT ![r] = Idle] /\ UNCHANGED passed
           ELSE /\ req' = [req EXCEPT ![r] = [pc |-> "ip", user |-> q.user, t |-> now]]
                /\ passed' = [passed EXCEPT ![q.user] = Append(@, q.t)]
        /\ UNCHANGED <<now, bot, retired, secrets, posts, wallet, snapshots>>

AllowIp(r) ==
    LET q == req[r]
    IN  /\ q.pc = "ip"
        /\ Record(Ip, MaxPerIp, q.t)
        /\ req' = [req EXCEPT ![r] =
             IF Limited(Ip, MaxPerIp, q.t) THEN Idle
             ELSE [pc |-> "wallet", user |-> q.user]]
        /\ UNCHANGED <<now, bot, retired, secrets, posts, wallet, passed, snapshots>>

(* resolve_wallet_for_telegram_user; no row and no wallet are both a 403.  *)
(* The chart period of the request is chosen here, before its first use.   *)
ResolveWallet(r) ==
    LET q == req[r]  w == wallet[q.user]
    IN  /\ q.pc = "wallet"
        /\ IF w = 0
           THEN req' = [req EXCEPT ![r] = Idle]
           ELSE \E period \in Periods :
                  req' = [req EXCEPT ![r] =
                    [pc |-> "cache", user |-> q.user, period |-> period, wallet |-> w]]
        /\ UNCHANGED <<now, bot, retired, secrets, posts, wallet, events, passed, snapshots>>

(* normalize_chart_period, and PortfolioSnapshotCache.cache_key.           *)
(* Seeded bug: the key leaves out the wallet.                              *)
NormalizeChartPeriod(raw) == IF raw \in Charts THEN raw ELSE "month"

CacheKey_NoWallet(q) == <<q.user, NormalizeChartPeriod(q.period)>>

CacheKey(q) == <<q.user, q.wallet, NormalizeChartPeriod(q.period)>>

(* Both get and set purge.                                                 *)
Purged(cache) ==
    [k \in {j \in DOMAIN cache : now < cache[j].exp} |-> cache[k]]

ReadSnapshot(r) ==
    LET q == req[r]  k == CacheKey(q)
    IN  /\ q.pc = "cache"
        /\ snapshots' = Purged(snapshots)
        /\ req' = [req EXCEPT ![r] =
             IF k \in DOMAIN Purged(snapshots)
             THEN [pc |-> "reply", period |-> q.period, wallet |-> q.wallet,
                   reply |-> snapshots[k].snap]
             ELSE [pc |-> "fetch", user |-> q.user, period |-> q.period,
                   wallet |-> q.wallet, since |-> now]]
        /\ UNCHANGED <<now, bot, retired, secrets, posts, wallet, events, passed>>

(* aggregate_portfolio_snapshot returns, with errors or without, and set   *)
(* keeps what it returned: over the limit an entry that expires first goes *)
(* (the new one too, when all expire together).                            *)
StoreSnapshot(r) ==
    LET q == req[r]
        snap == [wallet |-> q.wallet, period |-> NormalizeChartPeriod(q.period),
                 at |-> q.since]
        k == CacheKey(q)
        old == Purged(snapshots)
        all == [j \in DOMAIN old \cup {k} |->
                  IF j = k THEN [snap |-> snap, exp |-> now + SnapshotTtl] ELSE old[j]]
    IN  /\ q.pc = "fetch"
        /\ IF Cardinality(DOMAIN all) <= MaxSnapshots
           THEN snapshots' = all
           ELSE \E out \in {j \in DOMAIN all : \A i \in DOMAIN all : all[j].exp <= all[i].exp} :
                  snapshots' = [j \in DOMAIN all \ {out} |-> all[j]]
        /\ req' = [req EXCEPT ![r] =
             [pc |-> "reply", period |-> q.period, wallet |-> q.wallet, reply |-> snap]]
        /\ UNCHANGED <<now, bot, retired, secrets, posts, wallet, events, passed>>

Finish(r) ==
    /\ req[r].pc = "reply"
    /\ req' = [req EXCEPT ![r] = Idle]
    /\ UNCHANGED <<now, bot, retired, secrets, posts, wallet, events, passed, snapshots>>

--------------------------------------------------------------------------------
Next ==
    \/ Tick \/ RotateToken \/ ReadOtherSecret
    \/ \E u \in Users : WriteWallet(u)
    \/ \E r \in Requests :
         \/ \E u \in Users : Post(r, u)
         \/ StoreToken(r) \/ AllowUser(r) \/ AllowIp(r)
         \/ ResolveWallet(r) \/ ReadSnapshot(r) \/ StoreSnapshot(r) \/ Finish(r)

Spec == Init /\ [][Next]_vars

--------------------------------------------------------------------------------
Times == 0 .. MaxTime
Tokens == 1 .. MaxTokens
Wallets == {w \in Nat : \E u \in Users : w <= MaxWallets[u]}
SecretEntries == [path: {BotPath, OtherPath}, value: 0 .. MaxTokens, exp: Nat]
Snapshots == [wallet: Wallets, period: Charts, at: Times]

(* What a request's thread holds at each step.                             *)
Stages ==
    {Idle}
    \cup [pc: {"store"}, user: Users, token: Tokens, since: Times]
    \cup [pc: {"user"}, user: Users, token: Tokens, t: Times]
    \cup [pc: {"ip"}, user: Users, t: Times]
    \cup [pc: {"wallet"}, user: Users]
    \cup [pc: {"cache"}, user: Users, period: Periods, wallet: Wallets]
    \cup [pc: {"fetch"}, user: Users, period: Periods, wallet: Wallets, since: Times]
    \cup [pc: {"reply"}, period: Periods, wallet: Wallets, reply: Snapshots]

(* Every variable has its type, and both caches stay within their sizes.   *)
TypeOK ==
    /\ now \in Times /\ bot \in Tokens
    /\ retired \in Seq(Times) /\ Len(retired) = bot - 1
    /\ secrets \in Seq(SecretEntries)
    /\ Len(secrets) <= MaxSecrets
    /\ posts \in 0 .. MaxPosts
    /\ wallet \in [Users -> Nat] /\ \A u \in Users : wallet[u] <= MaxWallets[u]
    /\ events \in [Users \cup {Ip} -> Seq(Times)]
    /\ passed \in [Users -> Seq(Times)]
    /\ IsFiniteSet(DOMAIN snapshots) /\ Cardinality(DOMAIN snapshots) <= MaxSnapshots
    /\ snapshots \in [DOMAIN snapshots -> [snap: Snapshots, exp: Nat]]
    /\ req \in [Requests -> Stages]

(* initData signed with a token that was replaced is refused once the      *)
(* cache's TTL and one read of the vault have passed, whichever reader     *)
(* stores what it read last (caching_secret_store.py:27-35).               *)
OldTokenRefused ==
    \A r \in Requests : req[r].pc = "user" =>
        \/ req[r].token = bot
        \/ req[r].t < retired[req[r].token] + SecretTtl + FetchTimeout

(* At most MaxPerUser requests of a user are let through in any window     *)
(* shorter by LockWait than the limiter's, although the threads take its   *)
(* lock in another order than they read the clock: a late thread finds     *)
(* events popped that its own window still held (rate_limit.py:29-38).     *)
RateLimited ==
    \A u \in Users : \A t \in Times :
        Cardinality({i \in DOMAIN passed[u] :
                       passed[u][i] \in (t - (Window - LockWait) + 1) .. t})
            <= MaxPerUser

(* The reply is about the wallet that was looked up for this request and   *)
(* the period asked for, although it may have been fetched for another     *)
(* request and the column may have been written since; its data is at most *)
(* one TTL and one fetch old, also when a slow fetch stores its snapshot   *)
(* over a newer one (portfolio_cache_server.py:27-68).                     *)
ReplyOfCaller ==
    \A r \in Requests : req[r].pc = "reply" =>
        /\ req[r].reply.wallet = req[r].wallet
        /\ req[r].reply.period = NormalizeChartPeriod(req[r].period)
        /\ req[r].reply.at + SnapshotTtl + FetchTimeout >= now

================================================================================
