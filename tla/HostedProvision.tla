-------------------------- MODULE HostedProvision --------------------------
(***************************************************************************)
(* What one transaction of the hosted onboarding does to a user's row and  *)
(* to the 1Claw Platform: users/upsert, bootstrap with its recovery,       *)
(* reissue-claim, the claim poll and the claim mail (cloud/provision.py,   *)
(* cloud/onboarding_refresh.py, cloud/platform_client.py).                 *)
(*                                                                         *)
(* A transaction works on a record w with                                  *)
(*   w.r      the user's row of hosted_platform_users,                     *)
(*   w.p      the Platform, whose changes no local rollback undoes,        *)
(*   w.mails  the claim links handed to the mailer for this user.          *)
(* Every remote call may fail before or after the Platform acted on it, so *)
(* each operator yields the SET of outcomes [ok, w] it may have; ok is     *)
(* FALSE when an exception leaves the operator.                            *)
(***************************************************************************)
EXTENDS Naturals

CONSTANTS
  Users,               \* Telegram users
  Emails,              \* normalized inbox addresses
  None,                \* SQL NULL, an absent JSON field
  RequireVerified,     \* settings.hosted_require_verified_email
  AgentAlwaysReported, \* does every bootstrap / poll JSON name the agent?
  MaxConn,             \* bound: connections the Platform gives one identity
  MaxLink              \* bound: claim links minted for one connection

-----------------------------------------------------------------------------
(* The identity a connection is keyed by at the Platform is the verified   *)
(* inbox, or the synthetic address of the user, which the user stands for. *)
Identities == Users \cup Emails
Conns == Identities \X (1..MaxConn)
Links == Conns \X (1..MaxLink)

ASSUME ProvisionAssumption ==
  /\ RequireVerified \in BOOLEAN /\ AgentAlwaysReported \in BOOLEAN
  /\ MaxConn \in Nat \ {0} /\ MaxLink \in Nat \ {0}
  /\ None \notin Identities \cup Conns \cup Links

States == {"absent", "awaiting_email", "awaiting_email_verification",
           "email_verified", "awaiting_claim", "ready"}

(* "absent" is the missing row. email stands for the pair email and        *)
(* email_verified_at, which are written together; agent, wallet and key    *)
(* (user_agent_id, wallet_address, the stored ocv_ key) are named by the   *)
(* connection that owns them; sent is last_claim_email_sent_at, "recent"   *)
(* while it is younger than hosted_claim_email_throttle_seconds.           *)
Rows == [st: States, email: Emails \cup {None}, conn: Conns \cup {None},
         url: Links \cup {None}, agent: Conns \cup {None},
         wallet: Conns \cup {None}, key: Conns \cup {None},
         sent: {"never", "recent", "old"}]

NoRow == [st |-> "absent", email |-> None, conn |-> None, url |-> None,
          agent |-> None, wallet |-> None, key |-> None, sent |-> "never"]

Platforms == [cur: [Identities -> 0..MaxConn], booted: SUBSET Conns,
              claimed: SUBSET Conns, link: [Conns -> 0..MaxLink]]

Works == [r: Rows, p: Platforms, mails: SUBSET Links]

Commit(w) == [ok |-> TRUE, w |-> w]
Raise(w)  == [ok |-> FALSE, w |-> w]

-----------------------------------------------------------------------------
(* The Platform's side of the four calls.                                  *)

(* A connection the operator has not reset.                                *)
Known(p, c) == p.cur[c[1]] = c[2]

Upserted(p, i) == IF p.cur[i] = 0 THEN [p EXCEPT !.cur[i] = 1] ELSE p
CurrentConn(p, i) == <<i, p.cur[i]>>

(* An unclaimed connection may be replaced by a new one.                   *)
CanRotate(p, i) ==
  p.cur[i] \in 1..(MaxConn - 1) /\ CurrentConn(p, i) \notin p.claimed
Rotated(p, i) == [p EXCEPT !.cur[i] = @ + 1]

CanMint(p, c) == Known(p, c) /\ p.link[c] < MaxLink
Minted(p, c) == [p EXCEPT !.link[c] = @ + 1]
LatestLink(p, c) == <<c, p.link[c]>>

Optional(c) == {c, None}
ReportedAgent(c) == IF AgentAlwaysReported THEN {c} ELSE Optional(c)

(* POST bootstrap. "soft" is an error _recoverable_bootstrap_error accepts *)
(* (no status, 409, 422, 5xx), "hard" any other. The agent's key is shown  *)
(* only by the call that creates the agent.                                *)
BootFailure(p, res) == [p |-> p, res |-> res, url |-> None, agent |-> None,
                        wallet |-> None, key |-> None]

Bootstrap(p, c) ==
  LET p1 == [Minted(p, c) EXCEPT !.booted = @ \cup {c}]
      keys == IF c \in p.booted THEN {None} ELSE Optional(c)
  IN  {BootFailure(p, "soft"), BootFailure(p, "hard")}
      \cup IF CanMint(p, c)
           THEN {BootFailure(p1, "soft")}
                \cup [p: {p1}, res: {"ok"}, url: {LatestLink(p1, c)},
                      agent: ReportedAgent(c), wallet: Optional(c), key: keys]
           ELSE {}

-----------------------------------------------------------------------------
(* Signing-keys GET when the wallet column is empty; an API failure leaves *)
(* the row as it is.                                                       *)
Backfill(r) ==
  IF r.agent # None /\ r.wallet = None
  THEN {r, [r EXCEPT !.wallet = r.agent]}
  ELSE {r}

(* _apply_poll_payload on what the user list and the connection GET say:   *)
(* fields they carry overwrite the row, a claim marker makes it ready.     *)
Overwrite(old, new) == IF new = None THEN old ELSE new

(* Seeded bug: an agent id in the reply counts as a claim.                 *)
ApplyPollPayload_AgentIsClaim(r, said) ==
  [r EXCEPT !.url = Overwrite(@, said.url), !.agent = Overwrite(@, said.agent),
            !.wallet = Overwrite(@, said.wallet),
            !.st = IF said.claimed \/ said.agent # None THEN "ready" ELSE @]

ApplyPollPayload(r, said) ==
  [r EXCEPT !.url = Overwrite(@, said.url), !.agent = Overwrite(@, said.agent),
            !.wallet = Overwrite(@, said.wallet),
            !.st = IF said.claimed THEN "ready" ELSE @]

(* What the Platform may say of connection c.                              *)
PollPayloads(p, c) ==
  [url: IF p.link[c] = 0 THEN {None} ELSE Optional(LatestLink(p, c)),
   agent: IF c \in p.booted THEN ReportedAgent(c) ELSE {None},
   wallet: IF c \in p.booted THEN Optional(c) ELSE {None},
   claimed: IF c \in p.claimed THEN BOOLEAN ELSE {FALSE}]

(* An unknown connection is a 404 and no list entry.                       *)
Polled(p, r) ==
  IF Known(p, r.conn)
  THEN {ApplyPollPayload(r, said) : said \in PollPayloads(p, r.conn)}
  ELSE {r}

RefreshHostedUserClaimState(w) ==
  IF w.r.st = "awaiting_claim" /\ w.r.conn # None
  THEN {Raise(w)} \cup
       {Commit([w EXCEPT !.r = r2]) : r2 \in UNION {Backfill(r1) : r1 \in Polled(w.p, w.r)}}
  ELSE {Commit([w EXCEPT !.r = r2]) : r2 \in Backfill(w.r)}

(* The claim mail: sent when the link differs from the one before. The     *)
(* throttle is the last conjunct of the code's guard, which holds back     *)
(* only what the link's comparison has held back already. A delivery       *)
(* failure is logged and leaves last_claim_email_sent_at alone.            *)
HostedMaybeMailClaimInvite(w, before) ==
  IF /\ RequireVerified /\ w.r.email # None
     /\ w.r.st = "awaiting_claim"
     /\ w.r.url # None /\ w.r.url # before
     /\ ~(w.r.sent = "recent" /\ w.r.url = before)
  THEN LET tried == [w EXCEPT !.mails = @ \cup {w.r.url}]
       IN  {tried, [tried EXCEPT !.r = [@ EXCEPT !.sent = "recent"]]}
  ELSE {w}

-----------------------------------------------------------------------------
(* _reissue_claim_on_row.                                                  *)
ReissueClaimOnRow(w, c) ==
  LET p1 == Minted(w.p, c)
  IN  {Raise(w)} \cup
      IF CanMint(w.p, c)
      THEN {Raise([w EXCEPT !.p = p1]),
            Commit([w EXCEPT !.p = p1, !.r = [@ EXCEPT !.url = LatestLink(p1, c),
                                                       !.conn = c]])}
      ELSE {}

MailAndCommit(w, before) == {Commit(v) : v \in HostedMaybeMailClaimInvite(w, before)}

(* Seeded bug: a reissued link is stored and not mailed.                   *)
ReissueAndMail_NoMail(w, c, before) == ReissueClaimOnRow(w, c)

(* Reissue, then the mail; an exception skips the mail.                    *)
ReissueAndMail(w, c, before) ==
  UNION {IF o.ok THEN MailAndCommit(o.w, before) ELSE {o} : o \in ReissueClaimOnRow(w, c)}

(* A bootstrap answered: the row takes its data. The connection recorded   *)
(* is the row's own, or, when there is none, the one bootstrap was first   *)
(* tried on.                                                               *)
(* Seeded bugs: the link is only filled in when there is none; the agent   *)
(* id of the reply is not stored.                                          *)
BootstrappedRow_KeepsLink(r, c, boot) ==
  [r EXCEPT !.st = "awaiting_claim", !.conn = IF @ # None THEN @ ELSE c,
            !.url = IF @ # None THEN @ ELSE boot.url, !.agent = Overwrite(@, boot.agent),
            !.wallet = IF @ # None THEN @ ELSE boot.wallet,
            !.key = Overwrite(@, boot.key)]

BootstrappedRow_ForgetsAgent(r, c, boot) ==
  [r EXCEPT !.st = "awaiting_claim", !.conn = IF @ # None THEN @ ELSE c,
            !.url = boot.url,
            !.wallet = IF @ # None THEN @ ELSE boot.wallet,
            !.key = Overwrite(@, boot.key)]

BootstrappedRow(r, c, boot) ==
  [r EXCEPT !.st = "awaiting_claim", !.conn = IF @ # None THEN @ ELSE c,
            !.url = boot.url, !.agent = Overwrite(@, boot.agent),
            !.wallet = IF @ # None THEN @ ELSE boot.wallet,
            !.key = Overwrite(@, boot.key)]

AfterBootstrap(w, c, boot, before) ==
  UNION {MailAndCommit([w EXCEPT !.r = r2, !.p = boot.p], before) :
           r2 \in Backfill(BootstrappedRow(w.r, c, boot))}

(* The end of _bootstrap_with_recovery: ask for the connection once more   *)
(* and bootstrap it if the Platform now names another one.                 *)
BootstrapOnUpsertId(w, i, c, before) ==
  {Raise(w)} \cup
  UNION {LET p1 == Upserted(p0, i)
             c2 == CurrentConn(p1, i)
             w1 == [w EXCEPT !.p = p1,
                             !.r = IF w.r.st # "absent" THEN [@ EXCEPT !.conn = c2] ELSE @]
         IN  IF c2 = c
             THEN {Raise([w EXCEPT !.p = p1])}
             ELSE UNION {IF boot.res = "ok" THEN AfterBootstrap(w1, c, boot, before)
                         ELSE {Raise([w1 EXCEPT !.p = boot.p])} : boot \in Bootstrap(p1, c2)}
         : p0 \in {w.p} \cup (IF CanRotate(w.p, i) THEN {Rotated(w.p, i)} ELSE {})}

(* The recovery proper. Without a row there is nothing to poll.            *)
RecoverBootstrap(w, i, c, before) ==
  IF w.r.st = "absent"
  THEN BootstrapOnUpsertId(w, i, c, before)
  ELSE UNION {IF ~o.ok THEN {o}
              ELSE IF \/ o.w.r.st = "ready"
                      \/ o.w.r.url # None /\ o.w.r.url # w.r.url
                   THEN MailAndCommit(o.w, before)
              ELSE IF o.w.r.agent # None /\ o.w.r.conn # None
                   THEN ReissueAndMail(o.w, c, before)
              ELSE BootstrapOnUpsertId(o.w, i, c, before)
              : o \in RefreshHostedUserClaimState(w)}

BootstrapWithRecovery(w, i, c, before) ==
  UNION {CASE boot.res = "ok"   -> AfterBootstrap(w, c, boot, before)
           [] boot.res = "soft" -> RecoverBootstrap([w EXCEPT !.p = boot.p], i, c, before)
           [] boot.res = "hard" -> {Raise([w EXCEPT !.p = boot.p])}
         : boot \in Bootstrap(w.p, c)}

-----------------------------------------------------------------------------
(* ensure_telegram_user_provisioned from the point where the connection is *)
(* known: a row that awaits its claim is polled, then its link reissued;   *)
(* any other row is bootstrapped.                                          *)
Provision(w, i, c) ==
  IF w.r.st # "awaiting_claim"
  THEN BootstrapWithRecovery(w, i, c, w.r.url)
  ELSE UNION {IF ~o.ok THEN {o}
              ELSE UNION {IF \/ v.r.st = "ready"
                             \/ v.r.url # None /\ v.r.url # w.r.url
                          THEN {Commit(v)}
                          ELSE IF v.r.agent # None /\ v.r.conn # None
                          THEN ReissueAndMail(v, c, v.r.url)
                          ELSE BootstrapWithRecovery(v, i, c, w.r.url)
                          : v \in HostedMaybeMailClaimInvite(o.w, w.r.url)}
              : o \in RefreshHostedUserClaimState(w)}

(* effective_platform_contact_email.                                       *)
Contact(u, r) == IF r.email # None THEN r.email ELSE u

AwaitsEmail(r) == r.st \in {"absent", "awaiting_email", "awaiting_email_verification"}

(* Seeded bug: no early return for a user who is done.                     *)
AlreadyProvisioned_Never(r) == FALSE

AlreadyProvisioned(r) == r.st = "ready" /\ r.conn # None /\ r.url # None

EnsureTelegramUserProvisioned(u, w) ==
  LET i  == Contact(u, w.r)
      p1 == Upserted(w.p, i)
      c  == CurrentConn(p1, i)
      upserted == [w EXCEPT !.p = p1,
                            !.r = IF w.r.st = "email_verified" /\ RequireVerified
                                  THEN [@ EXCEPT !.conn = c] ELSE @]
  IN  IF RequireVerified /\ (w.r.email = None \/ AwaitsEmail(w.r))
      THEN {Raise(w)}
      ELSE IF AlreadyProvisioned(w.r)
      THEN {Commit(w)}
      ELSE IF w.r.conn # None
      THEN Provision(w, i, w.r.conn)
      ELSE {Raise(w), Raise([w EXCEPT !.p = p1])} \cup Provision(upserted, i, c)

(* The handlers poll once more after provisioning and ignore its errors.   *)
EnsureAndRefresh(u, w) ==
  UNION {IF o.ok THEN {Commit(q.w) : q \in RefreshHostedUserClaimState(o.w)} ELSE {o}
         : o \in EnsureTelegramUserProvisioned(u, w)}

=============================================================================
