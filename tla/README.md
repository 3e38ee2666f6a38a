# Verification of hosted Aurey

Hosted Aurey is a Telegram bot that gives each Telegram user a wallet whose key
lives at the 1Claw Platform, and a language-model agent that reads balances,
prepares transactions and has them signed. This directory holds TLA+ models of
the parts of it in which order, failure or concurrency decide whether it is
correct, TLC configurations that check them, and TLAPS proofs.

Run everything from this directory:

    tlasany HostedOnboarding.tla
    tlc -workers 2 -config MCOnboardingTwoUsers.cfg MCHostedOnboarding
    tlapm HostedOnboardingProofs.tla

`PROJECT.json` lists components, runs, properties, the seeded bugs each property
detects, the source lines of every definition, findings, hazards and theorems.

## 1. The system

Two processes share one PostgreSQL database: the Telegram process
(`telegram/client.py`, updates handled one at a time, blocking work in threads)
and the HTTP process (`service/app.py`, FastAPI thread pool). Both talk to the
1Claw Platform (`cloud/platform_client.py`), to the 1Claw vault and intents API
(`custody/secret_store.py`), to EVM nodes, to LI.FI and to an SMTP server.
Paths below are relative to `src/src/aurey/`.

| Component | State | Operations | Interacts with |
|---|---|---|---|
| Hosted onboarding (`cloud/hosted_verification.py`, `telegram/client.py`) | `hosted_platform_users`, `hosted_email_verifications` | /start, email, code, /cancel, the gate before the agent | provisioning, SMTP |
| Provisioning (`cloud/provision.py`) | connection, claim link, agent, key, mail time of the row | ensure provisioned, recover, reissue, mail the link | Platform (upsert, bootstrap, reissue-claim) |
| Claim polling (`cloud/onboarding_refresh.py`, `cloud/claim_status.py`) | state, link, agent, wallet of the row | poll | Platform (connection GET, user list) |
| Wallet sync (`cloud/wallet_sync.py`, `service/app.py`) | wallet address of the row | backfill, POST /v1/hosted/sync-wallet | Platform (signing keys) |
| Agent credentials (`cloud/hosted_credentials.py`) | key in vault, ciphertext and plaintext columns | persist, resolve | vault |
| Invites and handle claims (`cloud/hosted_send_invite.py`, `hosted_handle_claim.py`, `hosted_recipient_lookup.py`, `hosted_invite_sender_notify.py`) | `hosted_send_invites`, `hosted_handle_claims` | resolve a handle, create, open and consume an invite, tell the sender | onboarding, Telegram |
| Access requests (`cloud/hosted_access.py`) | `hosted_access_requests` | submit, delete | SMTP |
| 1Claw client (`custody/secret_store.py`) | the cached agent JWT (four fields, one lock) | bearer, fetch, invalidate on 401, sign, read secret | 1Claw |
| Process caches (`util/ttl_lru_cache.py`, `custody/caching_secret_store.py`, `runtime.py`, `miniapp/rate_limit.py`, `miniapp/portfolio_cache_server.py`) | bounded maps with a clock | get, set, clear, allow | |
| Agent service (`service/state.py`, `service/invoke.py`) | compiled graphs per user, checkpoints | invoke with retries | the model, tools |
| Transactions (`graphs/tx_prepare*.py`, `graphs/tx_execute.py`, `graphs/evm_tx_pipeline.py`, `tools/agent_tools.py`) | prepared transactions, chain nonce | prepare, execute, wait for the receipt | 1Claw, EVM node |
| Transfer notifications (`telegram/notifications.py`, `cloud/peer_transfer_context.py`) | last resolved recipient, run ids | on tool start, on tool end | transactions, invites, Telegram |
| LI.FI flow (`graphs/swap_prepare.py`, `graphs/lifi_envelope.py`, `graphs/lifi_status.py`, `graphs/earn.py`) | none but the prepared transactions | quote, prepare, deposit, status | LI.FI |
| Token registry (`token_registry/`, `jobs/`) | `token_registry` | upsert by tier, prune, flag, resolve | LI.FI, CoinGecko, EVM node |
| Mini app (`service/app.py`, `miniapp/`) | two limiters, a cache of snapshots | verify initData, limit, aggregate a portfolio | Zerion, vault |
| Chain reads, prompts, settings | none | read | EVM nodes, Alchemy |

What is hard in it:

* a remote call acts and its answer is lost, or the local transaction is lost
  after it acted: bootstrap shows the agent's key only once, a claim link
  replaces the one before, a mail cannot be unsent;
* the Platform moves on by itself: users claim, operators reset connections,
  links expire, polls are late or leave fields out;
* exceptions roll back what was written before them;
* the two processes and the agent's parallel tool threads share rows, caches and
  the cached JWT.

What makes each component correct: see the properties of its module, and, for the
components without one, the hazards of `PROJECT.json`.

## 2. Modules

### HostedProvision and HostedOnboarding

`HostedProvision` defines what one transaction does. A transaction is a record
`w`: the row `w.r`, the Platform `w.p` and the links mailed `w.mails`. Each
function of `cloud/provision.py` that calls the Platform is an operator that
returns the set of outcomes `[ok, w]`: every call may succeed, fail before the
Platform acted, or act and lose its answer; `ok` is FALSE when an exception
leaves the function. The order of the code's branches is kept:
`EnsureTelegramUserProvisioned` → `Provision` → `BootstrapWithRecovery` →
`RecoverBootstrap` → `BootstrapOnUpsertId`, with `ReissueAndMail` and
`RefreshHostedUserClaimState` where the code has them.

`HostedOnboarding` is the state machine around it: one action per handler. The
handler's database transaction commits (`CommitRow`) or rolls back
(`Rollback`, also a crash before the commit); what it did at the Platform and the
mails it sent stay either way (`External`).

| Variable | Code |
|---|---|
| `row[u]` | `HostedPlatformUserORM`: `st` onboarding_state, `email` with email_verified_at, `conn` connection_id, `url` claim_url, `agent` user_agent_id, `wallet` wallet_address, `key` the stored ocv_ key, `sent` last_claim_email_sent_at |
| `otp[u]` | `HostedEmailVerificationORM` |
| `plat` | the Platform: the current connection of each identity, which are bootstrapped, which claimed, the latest link of each |
| `mails[u]` | links handed to the mailer |
| `syncing[u]` | the agent id POST sync-wallet has read |
| `guesses` | history: wrong codes compared |

| Action | Code |
|---|---|
| `Start` | `/start` (`telegram/client.py`) |
| `StartEmailVerification`, `RejectCode`, `AcceptCode`, `CancelHosted` | `hosted_handle_optional_email_onboarding_chat` |
| `HostedUserMustFinishClaim` | the gate before every agent message |
| `SyncWalletRead`, `SyncWalletWrite` | POST /v1/hosted/sync-wallet, split where the Platform is asked |
| `ClaimConnection`, `ResetConnection`, `OtpExpires`, `ThrottleElapses` | the user at the Platform, its operator, time |

An identity is the verified inbox or, without one, the synthetic address of the
user; a connection is an identity with a generation, a link a connection with a
number; an agent, a wallet and a key are named by the connection that owns them.
So "the wallet of another agent" and "the link of another connection" are visible
in the state.

Runs (all with `MCHostedOnboarding`):

| Run | Shows |
|---|---|
| `two_users` | two users, one inbox, replies that may not name the agent (`AgentAlwaysReported = FALSE`): `VerifiedEmailUnique`, `ConnectionNotShared`, `ProvisionedRowComplete`, `ClaimLinkOfConnection`, and that each step keeps the promise (`KeepsPromise`) |
| `one_user` | one user, two connections, three links, replies that name the agent: `CredentialsOfOneAgent`, `ReadyStable`, `StartMailsLink`, and `ClaimedBecomesReady` under `FairSpec` |
| `guesses` | finding 1 of section 5 |
| `claim_mails` | finding 3 of section 5 |

`TypeOK`, `OtpIffAwaited` and `ReadyMeansClaimed` are not in a cfg: they are proved
for every value of the constants (section 3).

Bounds. `MaxConn` (connections per identity) is 1 or 2: one reset is enough for row,
link and agent to disagree. `MaxLink` (links per connection) is 2 or 3: the link of
the row, the one reissued, and one lost. `MaxAttempts` is 1: the exhausted counter
and the one that is not. Two users and one inbox are what a conflict over an inbox
takes; they are symmetric. `guesses` saturates at `MaxAttempts + 1`.

Fairness. `FairSpec` assumes weak fairness of `GateMakesReady`: the user keeps
writing to the bot (each message meets the gate) and the Platform does not leave a
claim out of its answers for ever. Nothing is assumed of users who stop writing,
and nothing of the Platform's claims or resets.

`CredentialsOfOneAgent` holds when every reply names the agent
(`AgentAlwaysReported`), which the code does not rely on
(`cloud/platform_client.py:298` takes the agent for optional). When a bootstrap reply
does not, the row may keep the wallet of a reply that a later connection replaces;
this is why the constant exists and why the property is not checked in `two_users`.

`StartMailsLink` speaks of a /start outside the throttle. Inside it the code mails a
changed link all the same, against what its settings say of the throttle: that is
what `claim_mails` refutes (`ClaimMailsSpaced`).

### OnboardingPromise

What onboarding promises, in four variables per user: the stage he is in (`outside`,
`code`, `waiting`, `ready`), the inbox an open code went to, the account opened for
him, and which accounts are claimed. An account is opened at the inbox the code
went to (`InboxRequired`) or at an address of the user's own, only if nobody has it,
and never changes or closes; `ready` follows its claim. Failed calls, retries,
recovery, resets, links and the HTTP process do not appear.

`HostedOnboarding` implements it (`KeepsPromise == Promise!Spec`, an `INSTANCE` with a
refinement mapping): `stageBar` reads the committed `onboarding_state`, `codeBar` the
address of the stored OTP, `accountBar` the identity of the row's connection, and
`claimedBar` the identities of claimed connections. A handler with all its calls,
its recovery and its commit is one step of the promise; a rolled-back one, a
reset, an expiry or a wallet write is none, though it may have changed the Platform.
The promise lets the code be sent to an inbox another user also has a code for:
only `Open` excludes the other, as `confirm_email_verification` does.

### AgentTokens

The JWT that `OneClawHttpClient` (`custody/secret_store.py`) caches for the whole
process and shares between the threads that sign and read secrets.

| Variable | Code |
|---|---|
| `cache` | `_access_token`, `_access_token_agent`, `_access_token_api_key_fp`, `_access_token_expires_at` (as: has the time passed) |
| `lock` | the owner of `_agent_jwt_lock` |
| `pc`, `at` | where a thread is, and at which attribute |
| `job` | agent and API key of its request |
| `new`, `after` | what it assigns to the attributes, where it goes then |
| `bearer`, `retried`, `rejected` | the token of its request, whether it was answered 401, the token then refused |
| `issued` | number of tokens issued; a token is (agent, key, number) |

`_bearer_for_agent` is `EnterBearerForAgent`, `ReadField`, `FetchAccessToken`,
`ReturnAccessToken`; the retry after a 401 is `Unauthorized`, `EnterInvalidate`,
`InvalidateAccessToken`, then `EnterBearerForAgent` again. The attributes are read
and assigned one per step, because `get_agent_signing_keys_json` calls
`_fetch_access_token` without the lock. `SecretStoreUnavailable` is any exception
inside the `with` block, which releases the lock.

| Run | Shows |
|---|---|
| `tokens_locked` | threads that take the lock: `BearerMatchesRequest`, `RetryWithAnotherToken`, and `RequestEnds` under `FairSpec` |
| `tokens_mixed` | a thread that asks for signing keys: finding 2 |

Bounds. Two threads, two agents, two keys: a cached token differs from a request in
the agent, the key, or both. `MaxTokens` is 3: one cached, one for the other
thread, one after a 401.

Fairness. A thread that runs goes on (`WF` of `Proceed`). One that waits for the
lock gets it if the lock is free again and again (`SF` of `Acquire`): Python's lock
does not promise an order, but no thread keeps it for ever. `RequestEnds` then says
that no failing call inside the lock leaves it held.

### SendInvites

Payments by handle: `cloud/hosted_recipient_lookup.py`, `hosted_send_invite.py`,
`hosted_handle_claim.py` and `hosted_invite_sender_notify.py`.

| Variable | Code |
|---|---|
| `username[u]` | the username Telegram reports; it may move to another account |
| `name[u]`, `stage[u]`, `wallet[u]` | `telegram_username`, the onboarding state reduced to three stages, and whether the row has a wallet address |
| `invites` | `hosted_send_invites`; `told` is history: the message to the sender was scheduled (`sent`), or dropped by the process that has no Telegram loop (`dropped`) |
| `claim[h]` | `hosted_handle_claims` |
| `looking[l]` | the invite that lookup `l` has not found and is about to insert |
| `starting` | the user whose `/start inv_...` has handled its link and goes on to provisioning |

| Action | Code |
|---|---|
| `LookupHostedRecipient`, `CreateInvite`, `LookupFails` | `lookup_hosted_recipient_by_telegram_handle` with `try_create_invite_for_not_found`, split between its select and its insert; tool calls run in threads |
| `OpenInvite` (`AcceptInvite`, `OpenInviteInVain`) | `build_start_invite_welcome_if_any`, a transaction of its own |
| `Start`, `Message`, `MessageRolledBack` | `/start`, and the gate before any other message, with the messages to senders; committed or not |
| `HostedSyncWallet`, `BackfillOverHttp` | the HTTP process, which can mark but not send |
| `ChangeUsername`, `InviteExpires` | Telegram, time |

The Telegram process handles one update at a time, so between the two transactions
of a `/start` (`starting`) only lookups of tool threads, the HTTP process, Telegram
and time move. `sender_notified_at` is rolled back with the transaction, the
message is not; so a message may be sent twice, and the model contains that.

| Run | Shows |
|---|---|
| `invites_moving` | one username passes between two users, one of whom also uses the HTTP process: `ClaimsStay`, and `SenderTold` under `FairSpec` |

`SenderTold` admits two ends: the username left the recipient, or the message was
dropped, because the HTTP process marked the invite first. That a marked invite had
its sender told, that the handle he is told of resolves, and that he has one link
per recipient do not hold of the code, see section 5; nothing is checked of them.
`TypeOK` and `ConsumedMeansClaimed` are proved.

Bounds. `MaxInvites` is 2: an invite and the one made after it expired, was consumed
or beside it. Two accounts and one handle are what a conflict over a handle takes.

Fairness. A `/start` that has handled its link ends (`WF`). Users keep writing, and
a message that meets the gate again and again is committed some time (`SF` of
`Message`, which a `/start` of another user disables now and then).

### TxEnvelopes and AgentTurns

The path of money: a turn of the agent prepares transactions, executes them, and
tells the recipient.

`TxEnvelopes` holds the checks as operators. A LangGraph graph of the code is
`validate -> execute`, and the first check that fails ends it with its code:
`FirstError` over the list of checks in the code's order (`TxPrepareError`,
`SwapPrepareError`, `TxPrepareLiFiError`, `TxExecuteError`). An envelope is its kind,
sender, the address that receives, signing mode and, from LI.FI, a nonce; amounts,
gas and calldata are not told apart.

| Variable of `AgentTurns` | Code |
|---|---|
| `cfg` | the settings that choose the signer |
| `recs[i]`, `clock` | `PreparedTransactionStore` (`runtime.py`): the i-th record stored, live or gone, for whom, when, made of which quote |
| `ex[n]` | the n-th call of `tx_execute`: envelope, nonce, signer, whether the node has it, the code and status returned |
| `pool`, `mined` | the EVM node |
| `turn` | user, signing context, attempt, and the peer kept in `TransferNotifyCallback` (`pending`) and in the context variable (`bound`) |
| `turns`, `dms` | turns so far; messages scheduled to recipients |

| Action | Code |
|---|---|
| `TxPrepare`, `SwapPrepare`, `EarnPrepareDeposit`, `PrepareLiFiSwap` | the prepare tools of `tools/agent_tools.py` |
| `ExecuteById`, `ExecuteEnvelope` | `tx_execute` with an id (or a summary that carries one), or an envelope the model wrote |
| `ReadNonce`, `FailUnsigned`, `Sign`, `Send`, `WaitReceipt` | `graphs/evm_tx_pipeline.py`, one action per call of the node or the signer |
| `ResolvePeer`, `ToolEnd` | `TransferNotifyCallback.on_tool_end` |
| `BeginTurn`, `RetryModel`, `EndTurn` | `service/invoke.py` |
| `Mine`, `Tick` | the chain, time |

Turns follow each other (Telegram's updates are handled one at a time); the calls of
one turn run in parallel threads. The model is the environment: it may call any
tool with anything a tool has returned to that user.

Run `money` (`MCAgentTurns`): hosted processes with 1Claw's agents and with the
vault's key, the operator's legacy agent and the vault's key without hosting, two
users, checks

* `RecordsLostOnlyByAgeOrCrowding`, `FreshWhenUsed`: how long a `prepared_id` is good,
  and that what runs under it is what was prepared, by the same user;
* `SwapsKeepTheirWallet`: through the three ways a quote becomes an envelope;
* `AnswersAreTrue`: with answers of the node lost and two executions that read one
  nonce, where one replaces the other;
* `MessageOfThisTurn`, `TurnEnds`, `TypeOK`.

Whose wallet pays is not a property: a hosted process with the vault's key executes
an envelope for the operator's wallet, and a signer that does not name its wallet is
believed (section 5).

Bounds. Two turns, two executions, three records in a store of two (a swap's quote
and envelope and one more: the store overflows between them), a lifetime of less
than one tick, two attempts, and together `MaxUsed` = 4 turns, retries, records and
executions (a quote prepared again is not counted). Two executions are what a race
for a nonce takes, two turns what a leftover of the turn before takes.

Fairness. Something goes on while a turn lasts: every call of the node, the signer
and the model has a timeout, and LangGraph's recursion limit ends a conversation of
model and tools (`WF` of `ModelReplies` or a step of a running execution). The run
does not check for deadlock: when the bounds are used up nothing is left to do.

### HostedCredentials

The ocv_ key of a user's agent, which the Platform shows once
(`cloud/hosted_credentials.py`, `cloud/signing_context.py`, `service/state.py`,
`reasoning/shroud_llm.py`).

| Variable | Code |
|---|---|
| `settings` | Human API token, Fernet master key, Shroud; fixed in a deployment |
| `cur`, `shown` | the Platform: a user's agent, and whose key has been shown |
| `vault` | the operator's vault: `agents/<id>/ocv` |
| `row[u]` | `user_agent_id`, the ciphertext and plaintext columns, readiness |
| `session[u]` | a provisioning transaction: the row it will commit, the key in hand |
| `kept` | history: agents whose key a commit has stored |
| `graphs` | `AppState.deep_agent_graphs`: cache key to the credentials compiled in |
| `work[w]` | a thread: a turn (context, credentials of its model, token exchange) or a read of signing keys |

`Bootstrap`, `Persist` (the vault PUT, which may fail after it was carried out, then the
columns), `CommitSession`, `RollbackSession`, `Poll`; `BeginTurn`, `CheckCredentials`,
`GetOrCreateGraph`, `ExchangeAgentToken`, `ReadSigningKeys`, `EndWork`; `Restart`,
`Recreate` (the Platform replaces an agent).

Run `credentials` (all eight settings, two users, two threads that are symmetric, one
agent replaced once): `KeysStayWithTheirUser`, `StoredKeyIsPresented`,
`RowServesAlone`. One replacement is what a stale value takes, two users what a
mixed-up one takes. Assumed: one provisioning session per user at a time (two are the
subject of `HostedOnboarding`), settings fixed per deployment, and a reply that
leaves out the agent only for a row without one.

### TokenRegistry

The table `token_registry`: jobs (seed, catalog sync, support sync, chain import,
market-cap allowlist) and the service's own discoveries write it, each with a session
that selects a row and commits later.

| Variable | Code |
|---|---|
| `rows[t]` | the row of a contract: primary key, tier, source, symbol, LI.FI flag |
| `job[j]` | a job process: entries to do, LI.FI's answer, the keys it holds to prune or flag |
| `tx[p]` | the row a session has loaded, and the entry it applies to it |
| `finder[f]` | a request of the service that resolves a contract, with the symbol it found: CoinGecko's, or `UNKNOWN` |
| `runs`, `seeded` | bound; a seed job has ended well |
| `overtaken` | history: contracts whose row a discovery rewrote after, or while, a job wrote it |

`SelectEntry` and `CommitEntry` are `_upsert` with its early returns; the UPDATE writes
only the columns that changed (SQLAlchemy), so two sessions may mix in one row.
`TailSelect`, `PruneCommit` and `FlagsCommit` are the second halves of the syncs;
`JobDies` is an error or a kill anywhere. The lookups by ticker and name
(`Resolutions`, `TickerAnswer`, `NameAnswer`, `ListedOn`, `Grouped`) are operators.

Run `registry`: three contracts (one curated in both files, one that LI.FI lists under
the same ticker, one on Solana), one job at a time, two runs, two discoveries:
`CuratedTickersResolve`, `SyncsTakeEffect`, `TrustNeverFalls`, `TypeOK`. A discovery
that loaded a row before the seed upgraded it commits its symbol, CoinGecko's or
`UNKNOWN`, onto the curated row: `CuratedTickersResolve` exempts `overtaken` contracts
(section 5), until a job has written them undisturbed. Two runs are what a sync over
the leavings of another takes. No deadlock check: after `MaxRuns`
jobs, with every contract known, nothing is left to do.

### MiniApp

POST /v1/miniapp/portfolio (`service/app.py`): initData verified with the
bot's token from the vault's cache (`util/ttl_lru_cache.py`,
`custody/caching_secret_store.py`), two sliding windows (`miniapp/rate_limit.py`), the
wallet's row, and the snapshots' cache (`miniapp/portfolio_cache_server.py`).

| Variable | Code |
|---|---|
| `secrets` | `TtlLruCache` of the secret store, least recently used first |
| `events` | the deques of the two limiters |
| `snapshots` | `PortfolioSnapshotCache`: key, expiry, and of the snapshot only what it is for and when its data was read |
| `wallet[u]`, `bot`, `now` | the row's column, the bot's token at Telegram and in the vault, time |
| `req[r]` | a request's thread |
| `retired`, `passed`, `posts` | history, bound |

One action per step of the handler: `Post`, `StoreToken` (a miss reads the vault
outside the lock and stores later), `AllowUser`, `AllowIp` (each step takes a limiter's
lock for a time that the step before has read), `ResolveWallet`,
`ReadSnapshot`, `StoreSnapshot`, `Finish`; and `RotateToken`, `WriteWallet`,
`ReadOtherSecret`, `Tick`.

Run `portfolio_route`: `OldTokenRefused` (a reader that stores late what it read early
cannot keep a replaced token alive longer than one lifetime and one read),
`RateLimited` (over every window, by history), `ReplyOfCaller`, `TypeOK`. Two
symmetric threads of one user, caches of one entry, windows of two events for the user
and of one for his address, so that each overflows, four requests (what it takes to
overfill a whole window), a token replaced once, time up to 3 with a window of 2. Time passes only while a thread waits
for the vault or Zerion, at most `FetchTimeout`, or for a limiter's lock, at most
`LockWait`. `allow` reads the clock before it takes the lock (`rate_limit.py:29`), so a
late thread appends behind events newer than its own and finds popped what its own
window still held: `RateLimited` is about windows shorter than the limiter's by
`LockWait`; of the whole window it fails (section 5). No deadlock check: the bounds end
the run.

### PortfolioSnapshot

`aggregate_portfolio_snapshot` (`miniapp/portfolio.py`, `zerion_client.py`,
`token_aggregate.py`): three jobs in parallel, each of which may fail, and the wallet
may move meanwhile. `FetchPortfolio` (a total and a distribution over chains, either of
which may be missing, and debts in both), `FetchPage` (one page of the positions' list,
whose next links may go in a circle or be refused, and which may hold what the code
cannot read and passes over), `FetchChart`, `Fail`, `Trade`, and `Merge`, which computes
the answer as `portfolio.py` does. The chains of the settings restrict both lists
(`Asked`). Without an API key the empty answer with its error is there at once
(`NoKeySnapshot`).

Parts of the list of positions are sets of places in it; sums are the community
modules' `SumFunctionOnSet`, about which section 3 proves what it needs.

Run `portfolio_snapshot`:

* `BarsWithinTotal` (a comment promises it: "never both (that doubled Base ~2x)"),
  unless Zerion's own summary contradicts itself (`SummaryAgrees`): with one half
  missing, or a chain in debt, total and bars are of two sources;
* `RowsAddUp`: a total that is taken from the list is what assets, summed over their
  legs, and DeFi rows add up to, and a resting wallet without debts is worth that;
* `CompleteOrReported`, except for the three things that shorten a list in silence:
  the page limit, a refused link, an unreadable item (section 5);
* `Answered`, `TypeOK`.

Five positions, chosen so that each rule is met: an asset with two legs, one of which
does not say its chain and has two implementations; a deposit on a chain under its
other name; a position on a chain not asked for; and a debt. Three pages, so that the
limit cuts a list; one trade. `WF` of `Progress`: httpx has a timeout for each call. No
deadlock check: the request is over.


## 3. Proofs

Every safety invariant and action property that a passing run checks, except
`CredentialsOfOneAgent`, is also a theorem, for every value of the constants within
the assumptions named here.

### HostedOnboardingProofs

Assumed of the constants: `ProvisionAssumption` and `AttemptsAssumption` (`None` is no
user, inbox, connection, link or OTP, the bounds are positive). `Users` and `Emails`
are any sets. The first half is lemmas on the operators of `HostedProvision`, for
every outcome a call may have; the second the state machine; the end the refinement.

`TypeCorrect`, `InboxVerifiedOnce`, `ConnectionsSeparate`, `RowsComplete`,
`CodeStoredIffAwaited`, `ReadyIsClaimed` and `ReadyForGood` follow from `IInv`; none of
the invariants is inductive alone:

* `ConnectionNotShared` needs that a row's connection is one of the row's own
  identity (its verified inbox, else the user), which needs
  `VerifiedEmailUnique` and that no row before provisioning has a connection
  (`ProvisionedRowComplete`): /cancel may free an inbox only because such a row
  has no connection yet;
* `ReadyMeansClaimed` needs that a row's connection never changes while the row
  is ready, that is the early return `AlreadyProvisioned`, which needs that a
  ready row has a connection and a link;
* `OtpIffAwaited` needs that provisioning never returns a row to
  `awaiting_email_verification`.

`RowInv` collects these for one row, `IInv` for all. `WorkInv` is the same
statement about the record a transaction works on; each operator keeps it (`Keeps`),
so that the step proof only reads what a committed and what a rolled-back outcome
leave.

`LinksMatch` (`ClaimLinkOfConnection`) is about what a row names. `Named` says it of a
row, `SameAgent` that a known agent is never replaced; `Names` is what an outcome
commits, followed through backfill, poll, reissue, bootstrap and recovery. It assumes
`RequireVerified`: without it, recovery with no row may store the link and the agent of
a second upsert's connection (see section 5). The same argument gives
`CredentialsOfOneAgent` if every reply names the agent; as the code does not count on
that, it stays a lemma (`CredentialsIfReported`).

`LinkIsMailed` (`StartMailsLink`, an action property about each /start outside the
throttle): `LinksInv` says that a stored link
was minted; numbers only grow (`Grows`), so a link minted in this transaction is not
the one the row had, and is mailed; the poll that follows finds the newest link, which
is that one (`Newest`, `Delivers`).

`PromiseKept` (`Spec => KeepsPromise`) is the refinement, from the same two assumptions.
`Seen` is what `IInv` says in the promise's terms (a provisioned row's account is its
inbox, or the user; a code is open exactly in stage `code`; a ready user's account is
claimed), `OneHolder` that an account has one holder. There is one lemma per handler.
`QuietStep` covers those that keep the user's address and code (`/start`, the gate):
they open nothing, or the user's own account if no inbox is required, or let
him in. `AcceptImplements` needs the check in `confirm_email_verification`,
`SendImplements` the one in `start_email_verification`: they are the promise's `Free`.

### AgentTokensProofs

Assumed: `TokensAssumption`, and for the last two theorems that no thread asks for
signing keys (`SigningKeysCallers = {}`), without which finding 2 refutes them.
`Threads`, `Agents` and `Keys` are any sets. `TypeCorrect`, `BearerOfRequest` and
`RetryNeverRepeats` follow from `IInv`: a thread owns the lock exactly while it is
inside; the cached agent and key are those of the cached token, unless the owner is
writing, in which case the attributes before `at` are those of `new`; a thread
that reads has found the attributes before `at` equal to its request's; and a
token that was refused and dropped does not come back, because the number of every
cached, written or sent token is at most `issued`. `BearerMatchesRequest` alone is
not inductive: what is sent was compared several steps before.

### SendInvitesProofs

Assumed: `InvitesAssumption`. Every step of `Next` either adds one invite (`Added`) or
rewrites the table in place (`Rewritten`): senders and targets stay, nothing consumed
or expired becomes less so, and a claim changes only as `AcceptInvite` changes it. The
theorems read this classification: `TypeCorrect`, `ConsumedClaimed` and `ClaimsForGood`,
with usernames that move, parallel lookups and both processes.

### HostedCredentialsProofs

Assumed: `ConstantsAssumption`. `TypeCorrect`, `KeysSeparate`, `StoredKeyServes` and
`RowsServe`, for any number of users, agents and threads. The properties are not
inductive alone: a graph, a context or a token was made before a commit that stores
the key it would have had to present. `Settled(a)` (the key has been shown, and no
open session is still to store it) closes this gap: contexts and graphs name settled
agents only, and whether a settled agent is in `kept` does not change any more.
`RowInv` and `SessionInv` say what the columns hold for the row's agent and for the
agent the Platform has now, `GraphInv`, `ContextInv` and `RequestInv` what was made
of them.

### AgentTurnsProofs

Assumed: `TurnsAssumption`, `EnvelopesAssumption`; users, settings, prompts, answers of
LI.FI and every bound are arbitrary. All safety properties of the run `money` are
theorems: `TypeCorrect`, `Truth`, `SwapWallet`, `Kept`, `RunsFresh` and `Told`. The
invariant has three parts:

* `RecordsSound`: a record is an envelope for the wallet asked for, or a quote; an
  envelope made of a quote is for the quote's wallet (`LiFiChecked`: the comparison
  is the only way through the checks); ids are used in order. Without it
  `SwapsKeepTheirWallet`, which speaks of records long gone, is not inductive.
* `CallSound`: a call by how far it is: what it was told to run is what its id stands
  for, and what the code it returned implies. Blocks are only added and
  records only marked gone (`Keeps`), so a call that does not move stays sound
  (`CallStays`).
* `TurnSound`: the peer kept by the callback was resolved in this turn.

`SomeError` says of a list of checks that the answer is the code of one that holds and
`None` only if none does; `Storing` is the store's contract: a record leaves it only
by age or because a full capacity of records came after it.

### TokenRegistryProofs

Assumed: `ConstantsAssumption`, which also keeps jobs and requests apart. `TypeCorrect`
holds for any number of jobs: `Shape` says which primary key of a contract a
process may still hold, at most one each, so that an insert finds a key that nobody
will prune or flag by mistake (a pigeonhole argument, `KeyLeft`).

`SyncsEffective`, `TrustKept` and `TickersResolve` assume one job at a time (`OneJob`),
any number of requests of the service; `TickersResolve` also that there is a database
(`Connected`). Each assumption is needed, see section 5. `Sound` says what a job may
rely on: requests only insert (`Grows`), so a row that a job has loaded, and a key it
is to prune or flag, stay what they were (`LoadedSound`, `HeldSound`), but for the
symbol, which a discovery may rewrite (`Alike`, `Named`); an entry done is in the
table or still pends (`CatalogSound`, `FlagsSound`, `SeedSound`); and a curated row is
one of the bundled ones (`RowSound`).

### MiniAppProofs

Assumed: `ConstantsAssumption` (the address is no user, sizes are positive).
`TypeCorrect`, `OldTokensEnd`, `WindowsBounded` and `RepliesOwn`, for any number of users,
threads, periods and wallets and any size of the caches and windows.

* `RateLimited` quantifies over every window of the history, the limiter only knows its
  deque, and neither is in the order of its times. `HoldsLast` joins them: the deque is
  the tail of the history, what it has lost is older than a window, and a request let
  through bears a time at most `LockWait` less than a window after the
  `MaxPerUser`-th before it. That a window shorter by `LockWait` then holds few requests
  is `FewInWindow`.
* `Serves` says until when a cached token may still be accepted after it was replaced;
  `StageInv` says the same of a token that a thread has read and not yet stored. Time
  passes only while threads wait, at most `FetchTimeout` or `LockWait` for each wait.
* `SnapshotsInv` says that a cached snapshot is of its key's wallet and period.

### PortfolioSnapshotProofs

Assumed: `ConstantsAssumption`; positions, chains, page limit and moves of the wallet
are arbitrary. `TypeCorrect`, `BarsCovered`, `RowsCovered` and `CompleteIfNoError` follow
from `PInv`, whose parts speak of the request under way:

* `Paged`: if nothing was passed over, the list has up to the cursor every position
  that stayed in the wallet, and none twice; a whole list has all of them; and of a
  resting wallet a list has nothing else;
* `Summed`: the summary is there once its job is done, and of a resting wallet its total
  is the worth or missing;
* `Counted`: jobs that run and errors together are at most three.

`BarsWithinTotal` is about sums, and holds for a reason a test would hardly show: if
the summary agrees with itself, total and bars may be of different sources only if
it has no bar, and then its total is 0 and the list gives both (`SummaryBars`,
`PositionBars`, `TotalCovers`). `RowsAddUp` needs that the assets partition the wallet's
places (`RowsAreList`) and that a whole list of a resting wallet is the wallet, each
position once (`ListIsWallet`). The first half of the module proves what
sums over finite sets do: unfolding `SumFunctionOnSet` (`SumsExist`, `SumPick`),
`SumRemove`, `SumUnion`, `SumMonotone`, `SumEqual` and `SumGroups` (a sum over keys of
sums over their groups). The library's induction theorems take an operator, which the provers
here cannot instantiate; `NatSetInduction` and `SetInduction` state induction for a
property given as a set, and are proved from the well-foundedness of the naturals.

### What is only model-checked

Liveness, which is out of the prover's reach: `ClaimedBecomesReady`, `RequestEnds`,
`SenderTold`, `TurnEnds` and `Answered`; `CredentialsOfOneAgent`, in an instance whose
replies name the agent; and the three violations of section 5.

## 4. Not modelled, and the plan

Within the modelled components: `vault_id` and the Solana address are not told apart
from the agent and the EVM address; the keys of a poll's JSON are reduced to what
they say; the delegated bearer and `secrets:resolve`, which bypass the token cache,
the intent tools that sign messages and typed data, gas, amounts and calldata,
ages of initData, the curated mark of a portfolio row (a predicate on the row alone,
`miniapp/curated.py`), the operator's mail and all wording are left out.

Not modelled:

* access requests (`cloud/hosted_access.py`): one handler at a time on one row per
  user, which meets no step of another actor; the one loss (mail sent, commit lost)
  repeats a mail, and no line of the code promises more;
* LI.FI's status polling, the earn listings, chain reads and price lookups: each is a
  request and a formatting of its answer, with no state of ours;
* prompts and the language model's choices (any call is possible in the models),
  settings and logging, the mini app's TypeScript.

What a next step would add, most important first: an abstract specification of
invites (one message to the sender for each invite whose recipient can receive) that
`SendInvites` implements, and one of the registry that says which contract a ticker
stands for; what of `TokenRegistry` still holds with two jobs;
`cloud/claim_status.py` as a function over bounded payloads against a reference
definition, and `Polled` of `HostedProvision` shown to be its image.

## 5. Findings

Checked:

1. `guesses` (`GuessesBounded`). The count of wrong codes is rolled back with the
   error that reports it (`telegram/client.py:366`), so a code may be guessed until
   it expires.
2. `tokens_mixed` (`BearerMatchesRequest`). `get_agent_signing_keys_json` fetches its
   token without `_agent_jwt_lock` (`custody/secret_store.py:644`); a request of one
   agent may be sent with the token of another.
3. `claim_mails` (`ClaimMailsSpaced`). The throttle of the claim mails applies only to
   the link already mailed (`cloud/provision.py:81`), which line 73 has excluded: it
   never applies, although `settings/__init__.py:215` calls it "Minimum seconds between
   outbound claim emails for the same user".

Observed while modelling; where constants are named, changing them shows it:

* Without a row and with no verified inbox required, recovery at a second upsert's
  connection stores the new connection's link and agent with the old connection's
  id (`cloud/provision.py:560`).
* After an expired or exhausted code the user is told to send his email again, but the
  state that would read it is rolled back by `telegram/client.py:366`; `/cancel` is
  the way out.
* A wallet found by the HTTP process marks the invites as notified, but that process
  has no Telegram loop and sends nothing (`telegram/notifications.py:299`); the sender
  is not told of that invite any more.
* With two lookups at a time a sender may have two open links for one recipient:
  select and insert are not protected by a constraint
  (`cloud/hosted_send_invite.py:104`), which the comment at line 94 relies on for one
  stable link.
* The handles of a recipient are taken from his row and his claims without resolving
  them (`hosted_invite_sender_notify.py:64`). When usernames move, or when the message
  was scheduled by a transaction that rolled back, a sender may be told "You can send
  tokens again using that Telegram handle" (`telegram/notifications.py:234`) of a handle
  that is ambiguous, someone else's, or has no committed wallet.
* The holder of a username that another account claimed is told to ask for a new
  invite (`cloud/hosted_handle_claim.py:75`), but every invite for that handle is
  refused alike (`hosted_send_invite.py:239`).
* With replies that do not name the agent, a bootstrap whose local transaction is
  lost leaves the user without provisioning until an operator resets the
  connection; the code says so (`cloud/provision.py:321`).
* `hosted_access.py:196` says that a failed mail returns None; it returns a text.
* Hosted with the vault's key: the prepare tools refuse ("Vault key signing is not
  supported when hosted_platform_enabled is true", `graphs/tx_prepare.py:23`), but
  `graphs/tx_execute.py:97` executes a `vault_key` envelope that the model wrote out,
  with the operator's key.
* A signer that leaves its address out is believed (`graphs/evm_tx_pipeline.py:402`), and
  a LI.FI quote that leaves out `from` is not compared with the wallet
  (`graphs/lifi_envelope.py:47`).
* `tx_execute` does not use its `idempotency_key` (`tools/agent_tools.py:504`), and a
  prepared transaction is not consumed by its execution: one id may be broadcast
  twice. A transient failure of the model sends the whole message once more
  (`service/invoke.py:212`), after tools may have acted.
* The recipient is told of a transfer whose receipt is late or says that it failed
  (status 0 of an ok result, `graphs/evm_tx_pipeline.py:448`), and of an ERC-20
  transfer that pays somebody else (`telegram/notifications.py:140` compares native
  transfers only).
* `service/state.py:78` calls the cache of compiled graphs bounded; it is not, and it
  keeps the key a graph was compiled with until the process restarts.
* Two jobs at once lower a row's tier: each decides on the row it loaded
  (`token_registry/repository.py:375`); `TrustNeverFalls` fails with two `Jobs`. The
  prune deletes by keys read before (`repository.py:237`).
* A discovery that loaded a row before the seed upgraded it writes its own symbol,
  CoinGecko's or `UNKNOWN`, onto the curated row (`token_registry/resolver.py:162`,
  `repository.py:364`), whose guards saw the older tier; the ticker does not find the
  contract until a job writes it again.
* Without a database (`Connected = FALSE`) the read graph finds a bundled name and then
  drops it (`graphs/read.py:467`): the name part of `CuratedTickersResolve` fails.
* A failed fetch of Solana's list is swallowed (`token_registry/lifi_catalog.py:72`), and
  the Solana rows are then pruned as if LI.FI had dropped them.
* `miniapp/zerion_client.py:189` says "all pages"; the list ends at 32, at a next link
  that is relative or of another host (line 48), and lacks pages and items of another
  shape (line 207), all without an error.
* `miniapp/schemas.py:27` calls the total "Sum of priced token + DeFi USD rows"; where
  Zerion gives a total, that is shown (`miniapp/portfolio.py:262`). With one half of the
  summary missing, or a chain in debt, which is dropped (`zerion_client.py:275`), the bars
  may exceed the total.
* A row without a contract on its chain counts as that chain's native token and is
  marked curated, also when its contract is filed under another name of the chain,
  against `miniapp/schemas.py:49`.
* `miniapp/rate_limit.py:11` promises at most `max_events` per window; `allow` reads the
  clock before it has the lock, and a thread that waited is judged by a deque that
  later threads have popped. With two events per window of 2: two are admitted at 0;
  a thread reads 1 and waits; one that reads 2 pops both and is admitted; the first,
  with 1, is admitted too, and 0, 0 and 1 lie in one window. `RateLimited` fails in the
  run's instance if it speaks of the whole window.
* Snapshots with errors are cached like complete ones; a request refused for its
  address has already used up one of the user's events.
* Two first requests may each create the limiters (`service/app.py:97`); the model
  starts after that.
