----------------------- MODULE HostedOnboardingProofs -----------------------
(***************************************************************************)
(* Safety of HostedOnboarding for any number of users, inboxes, links,     *)
(* connections and attempts, and for both values of RequireVerified.       *)
(*                                                                         *)
(* The first half says what each operator of HostedProvision keeps true of *)
(* the transaction it works in, for every outcome it may have: that the    *)
(* transaction is well-formed (Keeps), that its row goes on naming one     *)
(* connection (SameAgent), that its link was mailed (Delivers).            *)
(*                                                                         *)
(* The second half is the state machine.  Its invariants are not inductive *)
(* by themselves: that a connection is not shared needs that it belongs to *)
(* the identity of its row, that a ready row is claimed needs what a poll  *)
(* may rely on, and that an accepted code does not clobber Platform data   *)
(* needs that a row before provisioning has none.  RowInv collects these   *)
(* facts for one row; IInv is the inductive invariant.  At the end, the    *)
(* refinement of OnboardingPromise.                                        *)
(***************************************************************************)
EXTENDS HostedOnboarding, TLAPS

Provisioned == {"awaiting_claim", "ready"}

(* A well-formed transaction of user u.                                    *)
WorkInv(u, w) ==
  /\ w \in Works
  /\ w.r.conn # None => w.r.conn[1] = Contact(u, w.r)
  /\ w.r.st \in Provisioned => w.r.conn # None /\ w.r.url # None
  /\ w.r.st \notin Provisioned => w.r.agent = None /\ w.r.url = None
  /\ w.r.st = "ready" => w.r.conn \in w.p.claimed

(* Outcome o of transaction w: well-formed again; the verified address and *)
(* the claims are as they were.                                            *)
Keeps(u, w, o) ==
  /\ o.ok \in BOOLEAN
  /\ WorkInv(u, o.w)
  /\ o.w.r.email = w.r.email
  /\ o.w.p.claimed = w.p.claimed

(* Outcome o is an error or leaves a provisioned row.                      *)
Done(o) == o.ok => o.w.r.st \in Provisioned

-----------------------------------------------------------------------------
(* The Platform.                                                           *)

(* A connection of identity i exists after users/upsert.                   *)
LEMMA UpsertedType ==
  ASSUME NEW p \in Platforms, NEW i \in Identities
  PROVE  /\ Upserted(p, i) \in Platforms
         /\ Upserted(p, i).claimed = p.claimed
         /\ CurrentConn(Upserted(p, i), i) \in Conns
         /\ CurrentConn(Upserted(p, i), i)[1] = i
<1>1. MaxConn \in Nat \ {0}
  BY ProvisionAssumption
<1>2. p.cur \in [Identities -> 0..MaxConn]
  BY DEF Platforms
<1>3. /\ Upserted(p, i) \in Platforms /\ Upserted(p, i).claimed = p.claimed
      /\ Upserted(p, i).cur[i] \in 1..MaxConn
  <2>1. CASE p.cur[i] = 0
    <3>1. 1 \in 0..MaxConn /\ 1 \in 1..MaxConn
      BY <1>1
    <3> QED BY <1>2, <2>1, <3>1 DEF Upserted, Platforms
  <2>2. CASE p.cur[i] # 0
    BY <1>1, <1>2, <2>2 DEF Upserted
  <2> QED BY <2>1, <2>2
<1> QED BY <1>3 DEF CurrentConn, Conns

(* A reset stays within the bound on connections.                          *)
LEMMA RotatedType ==
  ASSUME NEW p \in Platforms, NEW i \in Identities, CanRotate(p, i)
  PROVE  /\ Rotated(p, i) \in Platforms
         /\ Rotated(p, i).claimed = p.claimed
BY ProvisionAssumption DEF Rotated, CanRotate, Platforms

(* A new link stays within the bound on links and belongs to c.            *)
LEMMA MintedType ==
  ASSUME NEW p \in Platforms, NEW c \in Conns, CanMint(p, c)
  PROVE  /\ Minted(p, c) \in Platforms
         /\ Minted(p, c).claimed = p.claimed
         /\ LatestLink(Minted(p, c), c) \in Links
BY ProvisionAssumption DEF Minted, CanMint, Platforms, LatestLink, Links

(* What bootstrap may answer.                                              *)
LEMMA BootstrapType ==
  ASSUME NEW p \in Platforms, NEW c \in Conns, NEW boot \in Bootstrap(p, c)
  PROVE  /\ boot.p \in Platforms
         /\ boot.p.claimed = p.claimed
         /\ boot.res \in {"ok", "soft", "hard"}
         /\ boot.agent \in Conns \cup {None}
         /\ boot.wallet \in Conns \cup {None}
         /\ boot.key \in Conns \cup {None}
         /\ boot.res = "ok" => boot.url \in Links
<1> DEFINE p1 == [Minted(p, c) EXCEPT !.booted = @ \cup {c}]
           keys == IF c \in p.booted THEN {None} ELSE Optional(c)
<1>1. CASE boot \in {BootFailure(p, "soft"), BootFailure(p, "hard")}
  BY <1>1 DEF BootFailure
<1>2. CASE CanMint(p, c) /\ boot = BootFailure(p1, "soft")
  <2>1. p1 \in Platforms /\ p1.claimed = p.claimed
    BY <1>2, MintedType DEF Platforms
  <2> QED BY <1>2, <2>1 DEF BootFailure
<1>3. CASE /\ CanMint(p, c)
           /\ boot \in [p: {p1}, res: {"ok"}, url: {LatestLink(p1, c)},
                        agent: ReportedAgent(c), wallet: Optional(c), key: keys]
  <2>1. p1 \in Platforms /\ p1.claimed = p.claimed /\ LatestLink(p1, c) \in Links
    BY <1>3, MintedType DEF Platforms, LatestLink
  <2>2. /\ boot.p = p1 /\ boot.res = "ok" /\ boot.url = LatestLink(p1, c)
        /\ boot.agent \in ReportedAgent(c) /\ boot.wallet \in Optional(c)
        /\ boot.key \in keys
    BY <1>3
  <2> QED BY <2>1, <2>2 DEF ReportedAgent, Optional
<1> QED BY <1>1, <1>2, <1>3 DEF Bootstrap

-----------------------------------------------------------------------------
(* The claim poll.                                                         *)

(* A backfill writes the wallet only.                                      *)
LEMMA BackfillKeeps ==
  ASSUME NEW r \in Rows, NEW q \in Backfill(r)
  PROVE  q \in Rows /\ \E x \in Conns \cup {None} : q = [r EXCEPT !.wallet = x]
BY DEF Backfill, Rows

(* A poll fills in what the Platform says, and makes a row ready only when *)
(* its connection is claimed.                                              *)
LEMMA PolledKeeps ==
  ASSUME NEW p \in Platforms, NEW r \in Rows, r.conn \in Conns, NEW q \in Polled(p, r)
  PROVE  /\ q \in Rows
         /\ q.conn = r.conn /\ q.email = r.email
         /\ r.url # None => q.url # None
         /\ q.st = r.st \/ (q.st = "ready" /\ r.conn \in p.claimed)
<1>1. CASE q = r
  BY <1>1
<1>2. CASE \E said \in PollPayloads(p, r.conn) : q = ApplyPollPayload(r, said)
  <2>1. PICK said \in PollPayloads(p, r.conn) : q = ApplyPollPayload(r, said)
    BY <1>2
  <2>2. said.url \in Links \cup {None}
    BY DEF PollPayloads, Optional, LatestLink, Links, Platforms
  <2>3. said.agent \in Conns \cup {None} /\ said.wallet \in Conns \cup {None}
    BY DEF PollPayloads, Optional, ReportedAgent
  <2>4. said.claimed => r.conn \in p.claimed
    BY DEF PollPayloads
  <2> DEFINE url2 == Overwrite(r.url, said.url)
             agent2 == Overwrite(r.agent, said.agent)
             wallet2 == Overwrite(r.wallet, said.wallet)
             st2 == IF said.claimed THEN "ready" ELSE r.st
  <2>5. q = [r EXCEPT !.url = url2, !.agent = agent2, !.wallet = wallet2, !.st = st2]
    BY <2>1 DEF ApplyPollPayload
  <2>6. /\ r.url \in Links \cup {None} /\ r.agent \in Conns \cup {None}
        /\ r.wallet \in Conns \cup {None} /\ r.st \in States
    BY DEF Rows
  <2>7. url2 \in Links \cup {None} /\ (r.url # None => url2 # None)
    BY <2>2, <2>6 DEF Overwrite
  <2>8. agent2 \in Conns \cup {None} /\ wallet2 \in Conns \cup {None}
    BY <2>3, <2>6 DEF Overwrite
  <2>9. st2 = r.st \/ (st2 = "ready" /\ r.conn \in p.claimed)
    BY <2>4
  <2> HIDE DEF url2, agent2, wallet2, st2
  <2> QED BY <2>5, <2>6, <2>7, <2>8, <2>9 DEF Rows, States
<1> QED BY <1>1, <1>2 DEF Polled

(* refresh_hosted_user_claim_state: beyond what every operator keeps, it   *)
(* keeps the connection, only makes a waiting row ready, and leaves the    *)
(* state and the link of any other row alone.                              *)
LEMMA RefreshKeeps ==
  ASSUME NEW u, NEW w, WorkInv(u, w), NEW o \in RefreshHostedUserClaimState(w)
  PROVE  /\ Keeps(u, w, o)
         /\ o.w.r.conn = w.r.conn
         /\ o.w.r.st = w.r.st \/ (w.r.st = "awaiting_claim" /\ o.w.r.st = "ready")
         /\ w.r.st # "awaiting_claim" => o.w.r.url = w.r.url
<1>1. /\ w \in [r: Rows, p: Platforms, mails: SUBSET Links]
      /\ w.r \in Rows /\ w.p \in Platforms
  BY DEF WorkInv, Works
<1>2. CASE o = Raise(w)
  BY <1>2 DEF Raise, Keeps
<1>3. ASSUME NEW r1 \in Rows, r1.conn = w.r.conn, r1.email = w.r.email,
             w.r.url # None => r1.url # None,
             r1.st = w.r.st \/ (/\ w.r.st = "awaiting_claim" /\ r1.st = "ready"
                                /\ w.r.conn \in w.p.claimed),
             w.r.st # "awaiting_claim" => r1 = w.r,
             NEW r2 \in Backfill(r1), o = Commit([w EXCEPT !.r = r2])
      PROVE  /\ Keeps(u, w, o)
             /\ o.w.r.conn = w.r.conn
             /\ o.w.r.st = w.r.st \/ (w.r.st = "awaiting_claim" /\ o.w.r.st = "ready")
             /\ w.r.st # "awaiting_claim" => o.w.r.url = w.r.url
  <2>1. /\ r2 \in Rows /\ r2.conn = r1.conn /\ r2.email = r1.email
        /\ r2.url = r1.url /\ r2.st = r1.st /\ r2.agent = r1.agent
    BY <1>3, BackfillKeeps DEF Rows
  <2>2. o.ok = TRUE /\ o.w = [w EXCEPT !.r = r2]
    BY <1>3 DEF Commit
  <2>3. o.w \in Works /\ o.w.r = r2 /\ o.w.p = w.p
    BY <1>1, <2>1, <2>2 DEF Works
  <2>4. /\ r2.st = w.r.st \/ (/\ w.r.st = "awaiting_claim" /\ r2.st = "ready"
                              /\ w.r.conn \in w.p.claimed)
        /\ r2.conn = w.r.conn /\ r2.email = w.r.email
        /\ w.r.url # None => r2.url # None
        /\ w.r.st # "awaiting_claim" => r2.url = w.r.url /\ r2.agent = w.r.agent
    BY <1>3, <2>1
  <2>5. WorkInv(u, o.w)
    BY <2>3, <2>4 DEF WorkInv, Contact, Provisioned
  <2> QED BY <2>2, <2>3, <2>4, <2>5 DEF Keeps
<1>4. CASE ~(w.r.st = "awaiting_claim" /\ w.r.conn # None)
  <2>1. w.r.st # "awaiting_claim"
    BY <1>4 DEF WorkInv, Provisioned
  <2>2. PICK r2 \in Backfill(w.r) : o = Commit([w EXCEPT !.r = r2])
    BY <1>4 DEF RefreshHostedUserClaimState
  <2> QED BY <1>1, <1>3, <2>1, <2>2
<1>5. CASE w.r.st = "awaiting_claim" /\ w.r.conn # None /\ o # Raise(w)
  <2>1. PICK r2 \in UNION {Backfill(r1) : r1 \in Polled(w.p, w.r)} :
          o = Commit([w EXCEPT !.r = r2])
    BY <1>5 DEF RefreshHostedUserClaimState
  <2>2. PICK r1 \in Polled(w.p, w.r) : r2 \in Backfill(r1)
    OBVIOUS
  <2>3. w.r.conn \in Conns
    BY <1>1, <1>5 DEF Rows
  <2>4. /\ r1 \in Rows /\ r1.conn = w.r.conn /\ r1.email = w.r.email
        /\ w.r.url # None => r1.url # None
        /\ r1.st = w.r.st \/ (r1.st = "ready" /\ w.r.conn \in w.p.claimed)
    BY <1>1, <2>3, PolledKeeps
  <2> QED BY <1>3, <1>5, <2>1, <2>2, <2>4
<1> QED BY <1>2, <1>4, <1>5

-----------------------------------------------------------------------------
(* The claim mail and the reissued link.                                   *)

(* The mail changes the mails and their time only.                         *)
LEMMA MailKeeps ==
  ASSUME NEW u, NEW w, WorkInv(u, w), NEW before,
         NEW v \in HostedMaybeMailClaimInvite(w, before)
  PROVE  /\ WorkInv(u, v)
         /\ v.p = w.p /\ v.r.st = w.r.st /\ v.r.email = w.r.email
         /\ v.r.conn = w.r.conn /\ v.r.url = w.r.url /\ v.r.agent = w.r.agent
<1>1. w \in [r: Rows, p: Platforms, mails: SUBSET Links] /\ w.r \in Rows
  BY DEF WorkInv, Works
<1> DEFINE tried == [w EXCEPT !.mails = @ \cup {w.r.url}]
<1>2. CASE v = w
  BY <1>2
<1>3. CASE w.r.url # None /\ v = tried
  <2>1. w.r.url \in Links
    BY <1>1, <1>3 DEF Rows
  <2>2. v \in Works /\ v.r = w.r /\ v.p = w.p
    BY <1>1, <1>3, <2>1 DEF Works
  <2> QED BY <2>2 DEF WorkInv
<1>4. CASE w.r.url # None /\ v = [tried EXCEPT !.r = [@ EXCEPT !.sent = "recent"]]
  <2>1. w.r.url \in Links
    BY <1>1, <1>4 DEF Rows
  <2> DEFINE r2 == [w.r EXCEPT !.sent = "recent"]
  <2>2. /\ r2 \in Rows /\ r2.st = w.r.st /\ r2.email = w.r.email
        /\ r2.conn = w.r.conn /\ r2.url = w.r.url /\ r2.agent = w.r.agent
    BY <1>1 DEF Rows
  <2>3. v.r = r2 /\ v.p = w.p /\ v.mails = w.mails \cup {w.r.url}
    BY <1>1, <1>4
  <2>4. v \in Works
    <3>1. v = [r |-> r2, p |-> w.p, mails |-> w.mails \cup {w.r.url}]
      BY <1>1, <1>4
    <3>2. w.p \in Platforms /\ w.mails \subseteq Links
      BY <1>1
    <3> HIDE DEF r2
    <3> QED BY <2>1, <2>2, <3>1, <3>2 DEF Works
  <2> HIDE DEF r2
  <2> QED BY <2>2, <2>3, <2>4 DEF WorkInv, Contact
<1> QED BY <1>2, <1>3, <1>4 DEF HostedMaybeMailClaimInvite

(* Mail, then commit.                                                      *)
LEMMA MailAndCommitKeeps ==
  ASSUME NEW u, NEW w, WorkInv(u, w), w.r.st \in Provisioned, NEW before,
         NEW o \in MailAndCommit(w, before)
  PROVE  Keeps(u, w, o) /\ Done(o)
<1>1. PICK v \in HostedMaybeMailClaimInvite(w, before) : o = Commit(v)
  BY DEF MailAndCommit
<1>2. o.ok = TRUE /\ o.w = v
  BY <1>1 DEF Commit
<1>3. WorkInv(u, v) /\ v.p = w.p /\ v.r.st = w.r.st /\ v.r.email = w.r.email
  BY MailKeeps
<1> QED BY <1>2, <1>3 DEF Keeps, Done

(* The connection a reissue stores is one of the user's identity.          *)
LEMMA ReissueKeeps ==
  ASSUME NEW u, NEW w, WorkInv(u, w), w.r.st = "awaiting_claim",
         NEW c \in Conns, c[1] = Contact(u, w.r),
         NEW o \in ReissueClaimOnRow(w, c)
  PROVE  Keeps(u, w, o) /\ o.w.r.st = "awaiting_claim"
<1>1. /\ w \in [r: Rows, p: Platforms, mails: SUBSET Links]
      /\ w.r \in Rows /\ w.p \in Platforms
  BY DEF WorkInv, Works
<1> DEFINE p1 == Minted(w.p, c)
           r1 == [w.r EXCEPT !.url = LatestLink(p1, c), !.conn = c]
<1>2. CASE o = Raise(w)
  BY <1>2 DEF Raise, Keeps
<1>3. CASE CanMint(w.p, c) /\ o = Raise([w EXCEPT !.p = p1])
  <2>1. p1 \in Platforms /\ p1.claimed = w.p.claimed
    BY <1>1, <1>3, MintedType
  <2>2. o.ok = FALSE /\ o.w = [w EXCEPT !.p = p1]
    BY <1>3 DEF Raise
  <2> HIDE DEF p1
  <2>3. o.w \in Works /\ o.w.r = w.r /\ o.w.p = p1
    BY <1>1, <2>1, <2>2 DEF Works
  <2> QED BY <2>1, <2>2, <2>3 DEF Keeps, WorkInv
<1>4. CASE CanMint(w.p, c) /\ o = Commit([w EXCEPT !.p = p1, !.r = r1])
  <2>1. p1 \in Platforms /\ p1.claimed = w.p.claimed /\ LatestLink(p1, c) \in Links
    BY <1>1, <1>4, MintedType
  <2>2. o.ok = TRUE /\ o.w = [w EXCEPT !.p = p1, !.r = r1]
    BY <1>4 DEF Commit
  <2>3. /\ r1 \in Rows /\ r1.conn = c /\ r1.url # None /\ r1.st = "awaiting_claim"
        /\ r1.email = w.r.email
    BY <1>1, <2>1, ProvisionAssumption DEF Rows
  <2> HIDE DEF p1, r1
  <2>4. o.w \in Works /\ o.w.r = r1 /\ o.w.p = p1
    BY <1>1, <2>1, <2>2, <2>3 DEF Works
  <2>5. c # None
    BY ProvisionAssumption
  <2> QED BY <2>1, <2>2, <2>3, <2>4, <2>5 DEF Keeps, WorkInv, Contact, Provisioned
<1> QED BY <1>2, <1>3, <1>4 DEF ReissueClaimOnRow

LEMMA ReissueAndMailKeeps ==
  ASSUME NEW u, NEW w, WorkInv(u, w), w.r.st = "awaiting_claim",
         NEW c \in Conns, c[1] = Contact(u, w.r), NEW before,
         NEW o \in ReissueAndMail(w, c, before)
  PROVE  Keeps(u, w, o) /\ Done(o)
<1>1. PICK o1 \in ReissueClaimOnRow(w, c) :
        o \in IF o1.ok THEN MailAndCommit(o1.w, before) ELSE {o1}
  BY DEF ReissueAndMail
<1>2. Keeps(u, w, o1) /\ o1.w.r.st = "awaiting_claim"
  BY ReissueKeeps
<1>3. CASE ~o1.ok
  BY <1>1, <1>2, <1>3 DEF Done
<1>4. CASE o1.ok
  <2>1. Keeps(u, o1.w, o) /\ Done(o)
    BY <1>1, <1>2, <1>4, MailAndCommitKeeps DEF Keeps, Provisioned
  <2> QED BY <1>2, <2>1 DEF Keeps
<1> QED BY <1>3, <1>4

-----------------------------------------------------------------------------
(* Bootstrap.                                                              *)

(* A row that took a bootstrap's data waits for its claim, has a link, and *)
(* a connection of the user's identity.                                    *)
LEMMA AfterBootstrapKeeps ==
  ASSUME NEW u, NEW w, WorkInv(u, w),
         NEW c \in Conns, c[1] = Contact(u, w.r),
         NEW boot, boot.p \in Platforms, boot.p.claimed = w.p.claimed, boot.url \in Links,
         boot.agent \in Conns \cup {None}, boot.wallet \in Conns \cup {None},
         boot.key \in Conns \cup {None},
         NEW before, NEW o \in AfterBootstrap(w, c, boot, before)
  PROVE  Keeps(u, w, o) /\ Done(o)
<1>1. /\ w \in [r: Rows, p: Platforms, mails: SUBSET Links]
      /\ w.r \in Rows
  BY DEF WorkInv, Works
<1> DEFINE r1 == BootstrappedRow(w.r, c, boot)
<1>2. PICK r2 \in Backfill(r1) : o \in MailAndCommit([w EXCEPT !.r = r2, !.p = boot.p], before)
  BY DEF AfterBootstrap
<1>3. /\ r1 \in Rows /\ r1.st = "awaiting_claim" /\ r1.email = w.r.email
      /\ r1.url = boot.url /\ r1.conn = IF w.r.conn # None THEN w.r.conn ELSE c
  <2> DEFINE conn1 == IF w.r.conn # None THEN w.r.conn ELSE c
             agent1 == Overwrite(w.r.agent, boot.agent)
             wallet1 == IF w.r.wallet # None THEN w.r.wallet ELSE boot.wallet
             key1 == Overwrite(w.r.key, boot.key)
  <2>1. r1 = [w.r EXCEPT !.st = "awaiting_claim", !.conn = conn1, !.url = boot.url,
                         !.agent = agent1, !.wallet = wallet1, !.key = key1]
    BY DEF BootstrappedRow
  <2>2. /\ conn1 \in Conns /\ agent1 \in Conns \cup {None}
        /\ wallet1 \in Conns \cup {None} /\ key1 \in Conns \cup {None}
    BY <1>1 DEF Overwrite, Rows
  <2>3. conn1 = IF w.r.conn # None THEN w.r.conn ELSE c
    OBVIOUS
  <2> HIDE DEF r1, conn1, agent1, wallet1, key1
  <2>4. r1 \in Rows
    BY <1>1, <2>1, <2>2 DEF Rows, States
  <2>5. /\ r1.st = "awaiting_claim" /\ r1.email = w.r.email /\ r1.url = boot.url
        /\ r1.conn = conn1
    BY <1>1, <2>1 DEF Rows
  <2> QED BY <2>3, <2>4, <2>5
<1> DEFINE w2 == [w EXCEPT !.r = r2, !.p = boot.p]
<1>4. /\ r2 \in Rows /\ r2.st = "awaiting_claim" /\ r2.email = w.r.email
      /\ r2.url = boot.url /\ r2.conn = IF w.r.conn # None THEN w.r.conn ELSE c
  BY <1>3, BackfillKeeps DEF Rows
<1>5. w2 \in Works /\ w2.r = r2 /\ w2.p = boot.p
  BY <1>1, <1>4 DEF Works
<1>6. c # None /\ r2.url # None
  BY <1>4, ProvisionAssumption
<1> HIDE DEF r1, w2
<1>7. WorkInv(u, w2)
  BY <1>4, <1>5, <1>6 DEF WorkInv, Contact, Provisioned
<1>8. Keeps(u, w2, o) /\ Done(o)
  BY <1>2, <1>4, <1>5, <1>7, MailAndCommitKeeps DEF Provisioned, w2
<1> QED BY <1>4, <1>5, <1>8 DEF Keeps

(* Another Platform under the same transaction.                            *)
LEMMA PlatformChanges ==
  ASSUME NEW u, NEW w, WorkInv(u, w), NEW p \in Platforms, p.claimed = w.p.claimed
  PROVE  LET w1 == [w EXCEPT !.p = p]
         IN  /\ WorkInv(u, w1) /\ w1.r = w.r /\ w1.p = p
             /\ Keeps(u, w, Raise(w1)) /\ Done(Raise(w1))
<1> DEFINE w1 == [w EXCEPT !.p = p]
<1>1. w \in [r: Rows, p: Platforms, mails: SUBSET Links]
  BY DEF WorkInv, Works
<1>2. w1 \in Works /\ w1.r = w.r /\ w1.p = p
  BY <1>1 DEF Works
<1>3. Raise(w1).ok = FALSE /\ Raise(w1).w = w1
  BY DEF Raise
<1> HIDE DEF w1
<1>4. WorkInv(u, w1)
  BY <1>2 DEF WorkInv
<1> QED BY <1>2, <1>3, <1>4 DEF Keeps, Done, w1

(* The last recovery: the connection users/upsert names belongs to the     *)
(* same identity, whatever was reset in between.                           *)
LEMMA BootstrapOnUpsertIdKeeps ==
  ASSUME NEW u, NEW w, WorkInv(u, w), w.r.st # "ready",
         NEW i \in Identities, i = Contact(u, w.r),
         NEW c \in Conns, c[1] = i, NEW before,
         NEW o \in BootstrapOnUpsertId(w, i, c, before)
  PROVE  Keeps(u, w, o) /\ Done(o)
<1>1. /\ w \in [r: Rows, p: Platforms, mails: SUBSET Links]
      /\ w.r \in Rows /\ w.p \in Platforms
  BY DEF WorkInv, Works
<1>2. CASE o = Raise(w)
  BY <1>2 DEF Raise, Keeps, Done
<1> DEFINE P1(p0) == Upserted(p0, i)
           C2(p0) == CurrentConn(P1(p0), i)
           R1(p0) == IF w.r.st # "absent" THEN [w.r EXCEPT !.conn = C2(p0)] ELSE w.r
           W1(p0) == [w EXCEPT !.p = P1(p0), !.r = R1(p0)]
           Tries(p0) ==
             IF C2(p0) = c
             THEN {Raise([w EXCEPT !.p = P1(p0)])}
             ELSE UNION {IF boot.res = "ok" THEN AfterBootstrap(W1(p0), c, boot, before)
                         ELSE {Raise([W1(p0) EXCEPT !.p = boot.p])}
                         : boot \in Bootstrap(P1(p0), C2(p0))}
           P0s == {w.p} \cup (IF CanRotate(w.p, i) THEN {Rotated(w.p, i)} ELSE {})
<1>3. ASSUME NEW p0 \in P0s, o \in Tries(p0)
      PROVE  Keeps(u, w, o) /\ Done(o)
  <2>1. p0 \in Platforms /\ p0.claimed = w.p.claimed
    BY <1>1, RotatedType
  <2>2. /\ P1(p0) \in Platforms /\ P1(p0).claimed = w.p.claimed
        /\ C2(p0) \in Conns /\ C2(p0)[1] = i
    BY <2>1, UpsertedType
  <2> HIDE DEF P1, C2
  <2>3. CASE C2(p0) = c
    BY <1>3, <2>2, <2>3, PlatformChanges
  <2>4. CASE C2(p0) # c
    <3>1. PICK boot \in Bootstrap(P1(p0), C2(p0)) :
            o \in IF boot.res = "ok" THEN AfterBootstrap(W1(p0), c, boot, before)
                  ELSE {Raise([W1(p0) EXCEPT !.p = boot.p])}
      BY <1>3, <2>4
    <3>2. /\ boot.p \in Platforms /\ boot.p.claimed = w.p.claimed
          /\ boot.agent \in Conns \cup {None} /\ boot.wallet \in Conns \cup {None}
          /\ boot.key \in Conns \cup {None}
          /\ boot.res = "ok" => boot.url \in Links
      BY <2>2, BootstrapType
    <3>3. /\ R1(p0) \in Rows /\ R1(p0).st = w.r.st /\ R1(p0).email = w.r.email
          /\ R1(p0).url = w.r.url /\ R1(p0).agent = w.r.agent
          /\ R1(p0).conn \in {w.r.conn, C2(p0)}
      BY <1>1, <2>2 DEF Rows
    <3>4. W1(p0) \in Works /\ W1(p0).r = R1(p0) /\ W1(p0).p = P1(p0)
      <4> HIDE DEF R1
      <4> QED BY <1>1, <2>2, <3>3 DEF Works
    <3> HIDE DEF R1, W1
    <3>5. C2(p0) # None
      BY <2>2, ProvisionAssumption
    <3>6. WorkInv(u, W1(p0)) /\ W1(p0).r.email = w.r.email /\ W1(p0).p.claimed = w.p.claimed
      BY <2>2, <3>3, <3>4, <3>5 DEF WorkInv, Contact, Provisioned
    <3>7. Contact(u, W1(p0).r) = c[1]
      BY <3>6 DEF Contact
    <3>8. CASE boot.res = "ok"
      <4>1. Keeps(u, W1(p0), o) /\ Done(o)
        BY <3>1, <3>2, <3>6, <3>7, <3>8, AfterBootstrapKeeps
      <4> QED BY <3>6, <4>1 DEF Keeps
    <3>9. CASE boot.res # "ok"
      <4>1. Keeps(u, W1(p0), o) /\ Done(o)
        BY <3>1, <3>2, <3>6, <3>9, PlatformChanges
      <4> QED BY <3>6, <4>1 DEF Keeps
    <3> QED BY <3>8, <3>9
  <2> QED BY <2>3, <2>4
<1>4. CASE \E p0 \in P0s : o \in Tries(p0)
  BY <1>3, <1>4
<1> QED BY <1>2, <1>4 DEF BootstrapOnUpsertId

LEMMA RecoverBootstrapKeeps ==
  ASSUME NEW u, NEW w, WorkInv(u, w), w.r.st # "ready",
         NEW i \in Identities, i = Contact(u, w.r),
         NEW c \in Conns, c[1] = i, NEW before,
         NEW o \in RecoverBootstrap(w, i, c, before)
  PROVE  Keeps(u, w, o) /\ Done(o)
<1>1. CASE w.r.st = "absent"
  BY <1>1, BootstrapOnUpsertIdKeeps DEF RecoverBootstrap
<1>2. CASE w.r.st # "absent"
  <2>1. PICK q \in RefreshHostedUserClaimState(w) :
          o \in IF ~q.ok THEN {q}
                ELSE IF \/ q.w.r.st = "ready"
                        \/ q.w.r.url # None /\ q.w.r.url # w.r.url
                     THEN MailAndCommit(q.w, before)
                ELSE IF q.w.r.agent # None /\ q.w.r.conn # None
                     THEN ReissueAndMail(q.w, c, before)
                ELSE BootstrapOnUpsertId(q.w, i, c, before)
    BY <1>2 DEF RecoverBootstrap
  <2>2. /\ Keeps(u, w, q)
        /\ q.w.r.st = w.r.st \/ (w.r.st = "awaiting_claim" /\ q.w.r.st = "ready")
        /\ w.r.st # "awaiting_claim" => q.w.r.url = w.r.url
    BY RefreshKeeps
  <2>3. WorkInv(u, q.w) /\ i = Contact(u, q.w.r)
    BY <2>2 DEF Keeps, Contact
  <2>4. CASE ~q.ok
    BY <2>1, <2>2, <2>4 DEF Done
  <2>5. CASE /\ q.ok /\ o \in MailAndCommit(q.w, before)
             /\ q.w.r.st = "ready" \/ (q.w.r.url # None /\ q.w.r.url # w.r.url)
    <3>1. q.w.r.st \in Provisioned
      BY <2>2, <2>5 DEF Provisioned
    <3>2. Keeps(u, q.w, o) /\ Done(o)
      BY <2>3, <2>5, <3>1, MailAndCommitKeeps
    <3> QED BY <2>2, <3>2 DEF Keeps
  <2>6. CASE q.w.r.agent # None /\ q.w.r.st # "ready" /\ o \in ReissueAndMail(q.w, c, before)
    <3>1. q.w.r.st = "awaiting_claim"
      BY <2>3, <2>6 DEF WorkInv, Provisioned
    <3>2. Keeps(u, q.w, o) /\ Done(o)
      BY <2>3, <2>6, <3>1, ReissueAndMailKeeps
    <3> QED BY <2>2, <3>2 DEF Keeps
  <2>7. CASE q.w.r.st # "ready" /\ o \in BootstrapOnUpsertId(q.w, i, c, before)
    <3>1. Keeps(u, q.w, o) /\ Done(o)
      BY <2>3, <2>7, BootstrapOnUpsertIdKeeps
    <3> QED BY <2>2, <3>1 DEF Keeps
  <2> QED BY <2>1, <2>4, <2>5, <2>6, <2>7
<1> QED BY <1>1, <1>2

LEMMA BootstrapWithRecoveryKeeps ==
  ASSUME NEW u, NEW w, WorkInv(u, w), w.r.st # "ready",
         NEW i \in Identities, i = Contact(u, w.r),
         NEW c \in Conns, c[1] = i, NEW before,
         NEW o \in BootstrapWithRecovery(w, i, c, before)
  PROVE  Keeps(u, w, o) /\ Done(o)
<1>1. w.p \in Platforms
  BY DEF WorkInv, Works
<1>2. PICK boot \in Bootstrap(w.p, c) :
        o \in CASE boot.res = "ok"   -> AfterBootstrap(w, c, boot, before)
                [] boot.res = "soft" ->
                     RecoverBootstrap([w EXCEPT !.p = boot.p], i, c, before)
                [] boot.res = "hard" -> {Raise([w EXCEPT !.p = boot.p])}
  BY DEF BootstrapWithRecovery
<1>3. /\ boot.p \in Platforms /\ boot.p.claimed = w.p.claimed
      /\ boot.res \in {"ok", "soft", "hard"}
      /\ boot.agent \in Conns \cup {None} /\ boot.wallet \in Conns \cup {None}
      /\ boot.key \in Conns \cup {None}
      /\ boot.res = "ok" => boot.url \in Links
  BY <1>1, BootstrapType
<1> DEFINE w1 == [w EXCEPT !.p = boot.p]
<1>4. /\ WorkInv(u, w1) /\ w1.r = w.r /\ w1.p = boot.p
      /\ Keeps(u, w, Raise(w1)) /\ Done(Raise(w1))
  BY <1>3, PlatformChanges
<1> HIDE DEF w1
<1>5. CASE boot.res = "ok"
  BY <1>2, <1>3, <1>5, AfterBootstrapKeeps
<1>6. CASE boot.res = "soft"
  <2>1. o \in RecoverBootstrap(w1, i, c, before)
    BY <1>2, <1>6 DEF w1
  <2>2. Keeps(u, w1, o) /\ Done(o)
    BY <1>4, <2>1, RecoverBootstrapKeeps
  <2> QED BY <1>3, <1>4, <2>2 DEF Keeps
<1>7. CASE boot.res = "hard"
  <2>1. o = Raise(w1)
    BY <1>2, <1>7 DEF w1
  <2> QED BY <1>4, <2>1
<1> QED BY <1>3, <1>5, <1>6, <1>7

-----------------------------------------------------------------------------
(* The whole of ensure_telegram_user_provisioned.                          *)

LEMMA ProvisionKeeps ==
  ASSUME NEW u, NEW w, WorkInv(u, w), w.r.st # "ready",
         NEW i \in Identities, i = Contact(u, w.r),
         NEW c \in Conns, c[1] = i,
         NEW o \in Provision(w, i, c)
  PROVE  Keeps(u, w, o) /\ Done(o)
<1>1. CASE w.r.st # "awaiting_claim"
  BY <1>1, BootstrapWithRecoveryKeeps DEF Provision
<1>2. CASE w.r.st = "awaiting_claim"
  <2>1. PICK q \in RefreshHostedUserClaimState(w) :
          o \in IF ~q.ok THEN {q}
                ELSE UNION {IF \/ v.r.st = "ready"
                               \/ v.r.url # None /\ v.r.url # w.r.url
                            THEN {Commit(v)}
                            ELSE IF v.r.agent # None /\ v.r.conn # None
                            THEN ReissueAndMail(v, c, v.r.url)
                            ELSE BootstrapWithRecovery(v, i, c, w.r.url)
                            : v \in HostedMaybeMailClaimInvite(q.w, w.r.url)}
    BY <1>2 DEF Provision
  <2>2. Keeps(u, w, q) /\ q.w.r.st \in Provisioned
    BY <1>2, RefreshKeeps DEF Provisioned
  <2>3. CASE ~q.ok
    BY <2>1, <2>2, <2>3 DEF Done
  <2>4. CASE q.ok
    <3>1. PICK v \in HostedMaybeMailClaimInvite(q.w, w.r.url) :
            o \in IF \/ v.r.st = "ready"
                     \/ v.r.url # None /\ v.r.url # w.r.url
                  THEN {Commit(v)}
                  ELSE IF v.r.agent # None /\ v.r.conn # None
                  THEN ReissueAndMail(v, c, v.r.url)
                  ELSE BootstrapWithRecovery(v, i, c, w.r.url)
      BY <2>1, <2>4
    <3>2. /\ WorkInv(u, v) /\ v.r.email = w.r.email /\ v.p.claimed = w.p.claimed
          /\ v.r.st \in Provisioned
      BY <2>2, MailKeeps DEF Keeps
    <3>3. i = Contact(u, v.r)
      BY <3>2 DEF Contact
    <3>4. CASE o = Commit(v)
      BY <3>2, <3>4 DEF Commit, Keeps, Done
    <3>5. CASE v.r.st # "ready" /\ o \in ReissueAndMail(v, c, v.r.url)
      <4>1. Keeps(u, v, o) /\ Done(o)
        BY <3>2, <3>3, <3>5, ReissueAndMailKeeps DEF Provisioned
      <4> QED BY <3>2, <4>1 DEF Keeps
    <3>6. CASE v.r.st # "ready" /\ o \in BootstrapWithRecovery(v, i, c, w.r.url)
      <4>1. Keeps(u, v, o) /\ Done(o)
        BY <3>2, <3>3, <3>6, BootstrapWithRecoveryKeeps
      <4> QED BY <3>2, <4>1 DEF Keeps
    <3> QED BY <3>1, <3>4, <3>5, <3>6
  <2> QED BY <2>3, <2>4
<1> QED BY <1>1, <1>2

(* Every outcome of provisioning keeps the transaction well-formed; those  *)
(* that can be committed leave a provisioned row.                          *)
LEMMA EnsureKeeps ==
  ASSUME NEW u \in Users, NEW w, WorkInv(u, w),
         NEW o \in EnsureTelegramUserProvisioned(u, w)
  PROVE  Keeps(u, w, o) /\ Done(o)
<1>1. /\ w \in [r: Rows, p: Platforms, mails: SUBSET Links]
      /\ w.r \in Rows /\ w.p \in Platforms
  BY DEF WorkInv, Works
<1> DEFINE i  == Contact(u, w.r)
           p1 == Upserted(w.p, i)
           c  == CurrentConn(p1, i)
           r1 == IF w.r.st = "email_verified" /\ RequireVerified
                 THEN [w.r EXCEPT !.conn = c] ELSE w.r
           w1 == [w EXCEPT !.p = p1, !.r = r1]
<1>2. i \in Identities
  BY <1>1 DEF Contact, Identities, Rows
<1>3. /\ p1 \in Platforms /\ p1.claimed = w.p.claimed
      /\ c \in Conns /\ c[1] = i
  BY <1>1, <1>2, UpsertedType
<1>4. CASE o = Raise(w)
  BY <1>4 DEF Raise, Keeps, Done
<1>5. CASE o = Raise([w EXCEPT !.p = p1])
  BY <1>3, <1>5, PlatformChanges
<1>6. CASE AlreadyProvisioned(w.r) /\ o = Commit(w)
  BY <1>6 DEF AlreadyProvisioned, Commit, Keeps, Done, Provisioned
<1>7. CASE ~AlreadyProvisioned(w.r) /\ w.r.conn # None /\ o \in Provision(w, i, w.r.conn)
  <2>1. w.r.st # "ready"
    BY <1>7 DEF AlreadyProvisioned, WorkInv, Provisioned
  <2>2. w.r.conn \in Conns /\ w.r.conn[1] = i
    BY <1>1, <1>7 DEF WorkInv, Rows
  <2> HIDE DEF p1, c, i
  <2> QED BY <1>2, <1>7, <2>1, <2>2, ProvisionKeeps DEF i
<1>8. CASE w.r.conn = None /\ o \in Provision(w1, i, c)
  <2>1. w.r.st \notin Provisioned
    BY <1>8 DEF WorkInv
  <2> HIDE DEF p1, c, i
  <2>2. /\ r1 \in Rows /\ r1.st = w.r.st /\ r1.email = w.r.email /\ r1.url = w.r.url
        /\ r1.agent = w.r.agent /\ r1.conn \in {None, c}
    BY <1>1, <1>3, <1>8 DEF Rows
  <2>3. w1 \in Works /\ w1.r = r1 /\ w1.p = p1
    <3> HIDE DEF r1
    <3> QED BY <1>1, <1>3, <2>2 DEF Works
  <2> HIDE DEF r1, w1
  <2>4. i = Contact(u, w.r)
    BY DEF i
  <2>5. WorkInv(u, w1) /\ i = Contact(u, w1.r) /\ w1.r.st # "ready"
    BY <1>3, <2>1, <2>2, <2>3, <2>4 DEF WorkInv, Contact, Provisioned
  <2>6. Keeps(u, w1, o) /\ Done(o)
    BY <1>2, <1>3, <1>8, <2>5, ProvisionKeeps
  <2> QED BY <1>3, <2>2, <2>3, <2>6 DEF Keeps
<1> QED BY <1>4, <1>5, <1>6, <1>7, <1>8 DEF EnsureTelegramUserProvisioned

LEMMA EnsureAndRefreshKeeps ==
  ASSUME NEW u \in Users, NEW w, WorkInv(u, w), NEW o \in EnsureAndRefresh(u, w)
  PROVE  Keeps(u, w, o) /\ Done(o)
<1>1. PICK o1 \in EnsureTelegramUserProvisioned(u, w) :
        o \in IF o1.ok THEN {Commit(q.w) : q \in RefreshHostedUserClaimState(o1.w)} ELSE {o1}
  BY DEF EnsureAndRefresh
<1>2. Keeps(u, w, o1) /\ Done(o1)
  BY EnsureKeeps
<1>3. CASE ~o1.ok
  BY <1>1, <1>2, <1>3
<1>4. CASE o1.ok
  <2>1. PICK q \in RefreshHostedUserClaimState(o1.w) : o = Commit(q.w)
    BY <1>1, <1>4
  <2>2. Keeps(u, o1.w, q) /\ q.w.r.st \in Provisioned
    BY <1>2, <1>4, RefreshKeeps DEF Keeps, Done, Provisioned
  <2>3. o.ok = TRUE /\ o.w = q.w
    BY <2>1 DEF Commit
  <2> QED BY <1>2, <2>2, <2>3 DEF Keeps, Done
<1> QED BY <1>3, <1>4

(* A user who is ready is neither bootstrapped nor polled again.           *)
LEMMA ReadyIsLeftAlone ==
  ASSUME NEW u \in Users, NEW w, WorkInv(u, w), w.r.st = "ready",
         NEW o \in EnsureAndRefresh(u, w)
  PROVE  o.w.r.st = "ready" /\ o.w.r.conn = w.r.conn
<1>1. PICK o1 \in EnsureTelegramUserProvisioned(u, w) :
        o \in IF o1.ok THEN {Commit(q.w) : q \in RefreshHostedUserClaimState(o1.w)} ELSE {o1}
  BY DEF EnsureAndRefresh
<1>2. AlreadyProvisioned(w.r)
  BY DEF AlreadyProvisioned, WorkInv, Provisioned
<1>3. o1 \in {Commit(w), Raise(w)}
  BY <1>2 DEF EnsureTelegramUserProvisioned
<1>4. o1.w = w
  BY <1>3 DEF Commit, Raise
<1>5. CASE o1.ok
  <2>1. PICK q \in RefreshHostedUserClaimState(w) : o = Commit(q.w)
    BY <1>1, <1>4, <1>5
  <2>2. q.w.r.st = "ready" /\ q.w.r.conn = w.r.conn
    BY RefreshKeeps
  <2> QED BY <2>1, <2>2 DEF Commit
<1>6. CASE ~o1.ok
  BY <1>1, <1>4, <1>6
<1> QED BY <1>5, <1>6

-----------------------------------------------------------------------------
(* What a row names is of one connection: the link opens it and, if every  *)
(* reply names the agent, the agent, the wallet and the key are its own.   *)
Named(r) ==
  /\ r.url # None => r.url[1] = r.conn
  /\ AgentAlwaysReported =>
       /\ r.wallet # None => r.wallet = r.agent
       /\ r.key # None => r.key = r.agent
       /\ r.agent # None => r.agent = r.conn

(* A known agent stays.                                                    *)
SameAgent(r, q) == AgentAlwaysReported /\ r.agent # None => q.agent = r.agent

(* Whatever agent data a row has is of its connection.                     *)
OwnData(r) ==
  AgentAlwaysReported => /\ r.agent \in {r.conn, None} /\ r.wallet \in {r.conn, None}
                         /\ r.key \in {r.conn, None}

(* What outcome o commits still names one connection.                      *)
Names(w, o) == o.ok => Named(o.w.r) /\ SameAgent(w.r, o.w.r)

-----------------------------------------------------------------------------
LEMMA BackfillNames ==
  ASSUME NEW r \in Rows, Named(r), NEW q \in Backfill(r)
  PROVE  Named(q) /\ q.agent = r.agent
BY DEF Backfill, Named, Rows

LEMMA PolledNames ==
  ASSUME NEW p \in Platforms, NEW r \in Rows, r.conn \in Conns, Named(r),
         NEW q \in Polled(p, r)
  PROVE  Named(q) /\ SameAgent(r, q)
<1>1. CASE q = r
  BY <1>1 DEF SameAgent
<1>2. CASE \E said \in PollPayloads(p, r.conn) : q = ApplyPollPayload(r, said)
  <2>1. PICK said \in PollPayloads(p, r.conn) : q = ApplyPollPayload(r, said)
    BY <1>2
  <2> DEFINE url2 == Overwrite(r.url, said.url)
             agent2 == Overwrite(r.agent, said.agent)
             wallet2 == Overwrite(r.wallet, said.wallet)
  <2>2. /\ q.url = url2 /\ q.agent = agent2 /\ q.wallet = wallet2
        /\ q.conn = r.conn /\ q.key = r.key
    BY <2>1 DEF ApplyPollPayload, Rows
  <2>3. said.url \in {None, LatestLink(p, r.conn)} /\ LatestLink(p, r.conn)[1] = r.conn
    BY DEF PollPayloads, Optional, LatestLink
  <2>4. url2 # None => url2[1] = r.conn
    BY <2>3 DEF Overwrite, Named
  <2>5. ASSUME AgentAlwaysReported
        PROVE  /\ said.wallet \in {None, r.conn} /\ said.agent \in {None, r.conn}
               /\ said.wallet # None => said.agent = r.conn
    BY <2>5 DEF PollPayloads, Optional, ReportedAgent
  <2>6. r.conn # None
    BY ProvisionAssumption
  <2> HIDE DEF url2
  <2>7. CASE AgentAlwaysReported
    BY <2>2, <2>4, <2>5, <2>6, <2>7 DEF Named, SameAgent, Overwrite
  <2>8. CASE ~AgentAlwaysReported
    BY <2>2, <2>4, <2>8 DEF Named, SameAgent
  <2> QED BY <2>7, <2>8
<1> QED BY <1>1, <1>2 DEF Polled

LEMMA RefreshNames ==
  ASSUME NEW u, NEW w, WorkInv(u, w), Named(w.r), NEW o \in RefreshHostedUserClaimState(w)
  PROVE  Named(o.w.r) /\ SameAgent(w.r, o.w.r)
<1>1. /\ w \in [r: Rows, p: Platforms, mails: SUBSET Links]
      /\ w.r \in Rows /\ w.p \in Platforms
  BY DEF WorkInv, Works
<1>2. CASE o = Raise(w)
  BY <1>2 DEF Raise, SameAgent
<1>3. ASSUME NEW r1 \in Rows, Named(r1), SameAgent(w.r, r1),
             NEW r2 \in Backfill(r1), o = Commit([w EXCEPT !.r = r2])
      PROVE  Named(o.w.r) /\ SameAgent(w.r, o.w.r)
  <2>1. Named(r2) /\ r2.agent = r1.agent
    BY <1>3, BackfillNames
  <2>2. o.w.r = r2
    BY <1>1, <1>3 DEF Commit
  <2> QED BY <1>3, <2>1, <2>2 DEF SameAgent
<1>4. CASE ~(w.r.st = "awaiting_claim" /\ w.r.conn # None)
  <2>1. PICK r2 \in Backfill(w.r) : o = Commit([w EXCEPT !.r = r2])
    BY <1>4 DEF RefreshHostedUserClaimState
  <2> QED BY <1>1, <1>3, <2>1 DEF SameAgent
<1>5. CASE w.r.st = "awaiting_claim" /\ w.r.conn # None /\ o # Raise(w)
  <2>1. PICK r2 \in UNION {Backfill(r1) : r1 \in Polled(w.p, w.r)} :
          o = Commit([w EXCEPT !.r = r2])
    BY <1>5 DEF RefreshHostedUserClaimState
  <2>2. PICK r1 \in Polled(w.p, w.r) : r2 \in Backfill(r1)
    OBVIOUS
  <2>3. w.r.conn \in Conns
    BY <1>1, <1>5 DEF Rows
  <2>4. r1 \in Rows /\ Named(r1) /\ SameAgent(w.r, r1)
    BY <1>1, <2>3, PolledKeeps, PolledNames
  <2> QED BY <1>3, <2>1, <2>2, <2>4
<1> QED BY <1>2, <1>4, <1>5

LEMMA MailNames ==
  ASSUME NEW u, NEW w, WorkInv(u, w), Named(w.r), NEW before,
         NEW v \in HostedMaybeMailClaimInvite(w, before)
  PROVE  Named(v.r) /\ v.r.agent = w.r.agent /\ v.r.conn = w.r.conn
<1>1. w \in [r: Rows, p: Platforms, mails: SUBSET Links] /\ w.r \in Rows
  BY DEF WorkInv, Works
<1> DEFINE tried == [w EXCEPT !.mails = @ \cup {w.r.url}]
<1>2. CASE v.r = w.r
  BY <1>2
<1>3. CASE v.r = [w.r EXCEPT !.sent = "recent"]
  BY <1>1, <1>3 DEF Named, Rows
<1>4. v \in {w, tried, [tried EXCEPT !.r = [@ EXCEPT !.sent = "recent"]]}
  BY DEF HostedMaybeMailClaimInvite
<1>5. tried.r = w.r /\ [tried EXCEPT !.r = [@ EXCEPT !.sent = "recent"]].r = [w.r EXCEPT !.sent = "recent"]
  BY <1>1
<1> QED BY <1>2, <1>3, <1>4, <1>5

LEMMA MailAndCommitNames ==
  ASSUME NEW u, NEW w, WorkInv(u, w), Named(w.r), NEW before, NEW o \in MailAndCommit(w, before)
  PROVE  Names(w, o)
<1>1. PICK v \in HostedMaybeMailClaimInvite(w, before) : o = Commit(v)
  BY DEF MailAndCommit
<1> QED BY <1>1, MailNames DEF Commit, Names, SameAgent

(* The reissued link is of the row's own connection.                       *)
LEMMA ReissueNames ==
  ASSUME NEW u, NEW w, WorkInv(u, w), Named(w.r), w.r.conn \in Conns,
         NEW o \in ReissueClaimOnRow(w, w.r.conn)
  PROVE  Names(w, o)
<1>1. /\ w \in [r: Rows, p: Platforms, mails: SUBSET Links] /\ w.r \in Rows
  BY DEF WorkInv, Works
<1> DEFINE p1 == Minted(w.p, w.r.conn)
           r1 == [w.r EXCEPT !.url = LatestLink(p1, w.r.conn), !.conn = w.r.conn]
<1>2. CASE ~o.ok
  BY <1>2 DEF Names
<1>3. CASE o = Commit([w EXCEPT !.p = p1, !.r = r1])
  <2>1. o.w.r = r1
    BY <1>1, <1>3 DEF Commit
  <2>2. /\ r1.url = LatestLink(p1, w.r.conn) /\ r1.conn = w.r.conn
        /\ r1.agent = w.r.agent /\ r1.wallet = w.r.wallet /\ r1.key = w.r.key
    BY <1>1 DEF Rows
  <2>3. LatestLink(p1, w.r.conn)[1] = w.r.conn
    BY DEF LatestLink
  <2> HIDE DEF p1, r1
  <2> QED BY <2>1, <2>2, <2>3 DEF Names, Named, SameAgent
<1> QED BY <1>2, <1>3 DEF ReissueClaimOnRow, Raise

LEMMA ReissueAndMailNames ==
  ASSUME NEW u, NEW w, WorkInv(u, w), Named(w.r), w.r.st = "awaiting_claim",
         w.r.conn \in Conns, NEW before, NEW o \in ReissueAndMail(w, w.r.conn, before)
  PROVE  Names(w, o)
<1>1. PICK o1 \in ReissueClaimOnRow(w, w.r.conn) :
        o \in IF o1.ok THEN MailAndCommit(o1.w, before) ELSE {o1}
  BY DEF ReissueAndMail
<1>2. Names(w, o1)
  BY ReissueNames
<1>3. WorkInv(u, o1.w)
  <2>1. w.r.conn[1] = Contact(u, w.r)
    BY ProvisionAssumption DEF WorkInv
  <2> QED BY <2>1, ReissueKeeps DEF Keeps
<1>4. CASE o1.ok
  <2>1. Names(o1.w, o)
    BY <1>1, <1>2, <1>3, <1>4, MailAndCommitNames DEF Names
  <2> QED BY <1>2, <1>4, <2>1 DEF Names, SameAgent
<1> QED BY <1>1, <1>2, <1>4

-----------------------------------------------------------------------------
(* An answer of bootstrap is about the connection it was asked for.        *)
BootOf(boot, c) ==
  /\ boot.url[1] = c
  /\ AgentAlwaysReported => boot.agent = c
  /\ boot.wallet \in {c, None} /\ boot.key \in {c, None}

LEMMA BootstrapNames ==
  ASSUME NEW p \in Platforms, NEW c \in Conns, NEW boot \in Bootstrap(p, c), boot.res = "ok"
  PROVE  BootOf(boot, c)
<1> DEFINE p1 == [Minted(p, c) EXCEPT !.booted = @ \cup {c}]
           keys == IF c \in p.booted THEN {None} ELSE Optional(c)
<1>1. boot \in [p: {p1}, res: {"ok"}, url: {LatestLink(p1, c)},
                agent: ReportedAgent(c), wallet: Optional(c), key: keys]
  BY DEF Bootstrap, BootFailure
<1>2. /\ boot.url = LatestLink(p1, c) /\ boot.agent \in ReportedAgent(c)
      /\ boot.wallet \in Optional(c) /\ boot.key \in keys
  BY <1>1
<1> QED BY <1>2 DEF BootOf, LatestLink, ReportedAgent, Optional

(* A row takes the data of a bootstrap of the connection it records, when  *)
(* what it named before, if anything, is of that connection too.           *)
LEMMA AfterBootstrapNames ==
  ASSUME NEW u, NEW w, WorkInv(u, w), w.r.conn \in Conns, NEW c \in Conns,
         NEW boot, boot.p \in Platforms, boot.p.claimed = w.p.claimed, boot.url \in Links,
         boot.agent \in Conns \cup {None}, boot.wallet \in Conns \cup {None},
         boot.key \in Conns \cup {None},
         BootOf(boot, w.r.conn), OwnData(w.r),
         NEW before, NEW o \in AfterBootstrap(w, c, boot, before)
  PROVE  Names(w, o)
<1>1. /\ w \in [r: Rows, p: Platforms, mails: SUBSET Links]
      /\ w.r \in Rows /\ w.r.conn # None
  BY ProvisionAssumption DEF WorkInv, Works
<1> DEFINE r1 == BootstrappedRow(w.r, c, boot)
<1>2. PICK r2 \in Backfill(r1) : o \in MailAndCommit([w EXCEPT !.r = r2, !.p = boot.p], before)
  BY DEF AfterBootstrap
<1>3. /\ r1 \in Rows /\ r1.st = "awaiting_claim" /\ r1.email = w.r.email
      /\ r1.conn = w.r.conn /\ r1.url = boot.url
      /\ r1.agent = Overwrite(w.r.agent, boot.agent)
      /\ r1.wallet = IF w.r.wallet # None THEN w.r.wallet ELSE boot.wallet
      /\ r1.key = Overwrite(w.r.key, boot.key)
  <2> DEFINE agent1 == Overwrite(w.r.agent, boot.agent)
             wallet1 == IF w.r.wallet # None THEN w.r.wallet ELSE boot.wallet
             key1 == Overwrite(w.r.key, boot.key)
  <2>1. r1 = [w.r EXCEPT !.st = "awaiting_claim", !.conn = w.r.conn, !.url = boot.url,
                         !.agent = agent1, !.wallet = wallet1, !.key = key1]
    BY <1>1 DEF BootstrappedRow
  <2>2. /\ agent1 \in Conns \cup {None} /\ wallet1 \in Conns \cup {None}
        /\ key1 \in Conns \cup {None}
    BY <1>1 DEF Overwrite, Rows
  <2>3. /\ agent1 = Overwrite(w.r.agent, boot.agent)
        /\ wallet1 = IF w.r.wallet # None THEN w.r.wallet ELSE boot.wallet
        /\ key1 = Overwrite(w.r.key, boot.key)
    OBVIOUS
  <2> HIDE DEF r1, agent1, wallet1, key1
  <2>4. r1 \in Rows
    BY <1>1, <2>1, <2>2 DEF Rows, States
  <2>5. /\ r1.st = "awaiting_claim" /\ r1.email = w.r.email /\ r1.url = boot.url
        /\ r1.conn = w.r.conn /\ r1.agent = agent1 /\ r1.wallet = wallet1 /\ r1.key = key1
    BY <1>1, <2>1 DEF Rows
  <2> QED BY <2>3, <2>4, <2>5
<1>4. Named(r1) /\ SameAgent(w.r, r1)
  BY <1>1, <1>3 DEF Named, SameAgent, Overwrite, BootOf, OwnData
<1> DEFINE w2 == [w EXCEPT !.r = r2, !.p = boot.p]
<1>5. /\ r2 \in Rows /\ r2.st = "awaiting_claim" /\ r2.email = w.r.email
      /\ r2.url = boot.url /\ r2.conn = w.r.conn
  BY <1>3, BackfillKeeps DEF Rows
<1>6. Named(r2) /\ r2.agent = r1.agent
  BY <1>3, <1>4, BackfillNames
<1>7. w2 \in Works /\ w2.r = r2 /\ w2.p = boot.p
  BY <1>1, <1>5 DEF Works
<1> HIDE DEF r1, w2
<1>8. r2.url # None
  BY <1>5, ProvisionAssumption
<1>9. WorkInv(u, w2)
  BY <1>1, <1>5, <1>7, <1>8 DEF WorkInv, Contact, Provisioned
<1>10. Names(w2, o)
  BY <1>2, <1>6, <1>7, <1>9, MailAndCommitNames DEF w2
<1> QED BY <1>4, <1>6, <1>7, <1>10 DEF Names, SameAgent

(* The last recovery replaces the connection; there is no agent, wallet or *)
(* key of the old one to keep, and its link goes.                          *)
LEMMA BootstrapOnUpsertIdNames ==
  ASSUME NEW u, NEW w, WorkInv(u, w), Named(w.r), w.r.st \notin {"absent", "ready"},
         AgentAlwaysReported => w.r.agent = None,
         NEW i \in Identities, i = Contact(u, w.r),
         NEW c \in Conns, c[1] = i, NEW before,
         NEW o \in BootstrapOnUpsertId(w, i, c, before)
  PROVE  Names(w, o)
<1>1. /\ w \in [r: Rows, p: Platforms, mails: SUBSET Links]
      /\ w.r \in Rows /\ w.p \in Platforms
  BY DEF WorkInv, Works
<1> DEFINE P1(p0) == Upserted(p0, i)
           C2(p0) == CurrentConn(P1(p0), i)
           R1(p0) == IF w.r.st # "absent" THEN [w.r EXCEPT !.conn = C2(p0)] ELSE w.r
           W1(p0) == [w EXCEPT !.p = P1(p0), !.r = R1(p0)]
           Tries(p0) ==
             IF C2(p0) = c
             THEN {Raise([w EXCEPT !.p = P1(p0)])}
             ELSE UNION {IF boot.res = "ok" THEN AfterBootstrap(W1(p0), c, boot, before)
                         ELSE {Raise([W1(p0) EXCEPT !.p = boot.p])}
                         : boot \in Bootstrap(P1(p0), C2(p0))}
           P0s == {w.p} \cup (IF CanRotate(w.p, i) THEN {Rotated(w.p, i)} ELSE {})
<1>2. ASSUME NEW p0 \in P0s, o \in Tries(p0), o.ok
      PROVE  Names(w, o)
  <2>1. p0 \in Platforms /\ p0.claimed = w.p.claimed
    BY <1>1, RotatedType
  <2>2. /\ P1(p0) \in Platforms /\ P1(p0).claimed = w.p.claimed
        /\ C2(p0) \in Conns /\ C2(p0)[1] = i
    BY <2>1, UpsertedType
  <2> HIDE DEF P1, C2
  <2>3. C2(p0) # c
    <3> DEFINE x == [w EXCEPT !.p = P1(p0)]
    <3>1. C2(p0) = c => o = Raise(x)
      BY <1>2
    <3>2. Raise(x).ok = FALSE
      BY DEF Raise
    <3> HIDE DEF x
    <3> QED BY <1>2, <3>1, <3>2
  <2>4. PICK boot \in Bootstrap(P1(p0), C2(p0)) :
          o \in IF boot.res = "ok" THEN AfterBootstrap(W1(p0), c, boot, before)
                ELSE {Raise([W1(p0) EXCEPT !.p = boot.p])}
    BY <1>2, <2>3
  <2>5. boot.res = "ok" /\ o \in AfterBootstrap(W1(p0), c, boot, before)
    <3> HIDE DEF W1
    <3>1. boot.res # "ok" => o = Raise([W1(p0) EXCEPT !.p = boot.p])
      BY <2>4
    <3> QED BY <1>2, <2>4, <3>1 DEF Raise
  <2>6. /\ boot.p \in Platforms /\ boot.p.claimed = w.p.claimed
        /\ boot.agent \in Conns \cup {None} /\ boot.wallet \in Conns \cup {None}
        /\ boot.key \in Conns \cup {None} /\ boot.url \in Links
    BY <2>2, <2>5, BootstrapType
  <2>7. BootOf(boot, C2(p0))
    BY <2>2, <2>5, BootstrapNames
  <2>8. /\ R1(p0) \in Rows /\ R1(p0).st = w.r.st /\ R1(p0).email = w.r.email
        /\ R1(p0).url = w.r.url /\ R1(p0).agent = w.r.agent
        /\ R1(p0).wallet = w.r.wallet /\ R1(p0).key = w.r.key
        /\ R1(p0).conn = C2(p0)
    BY <1>1, <2>2 DEF Rows
  <2>9. W1(p0) \in Works /\ W1(p0).r = R1(p0) /\ W1(p0).p = P1(p0)
    <3> HIDE DEF R1
    <3> QED BY <1>1, <2>2, <2>8 DEF Works
  <2> HIDE DEF R1, W1
  <2>10. C2(p0) # None
    BY <2>2, ProvisionAssumption
  <2>11. WorkInv(u, W1(p0))
    BY <2>2, <2>8, <2>9, <2>10 DEF WorkInv, Contact, Provisioned
  <2>12. AgentAlwaysReported => w.r.agent = None /\ w.r.wallet = None /\ w.r.key = None
    BY DEF Named
  <2>13. W1(p0).r.conn = C2(p0) /\ W1(p0).p.claimed = w.p.claimed /\ W1(p0).r.agent = w.r.agent
    BY <2>2, <2>8, <2>9
  <2>14. OwnData(W1(p0).r)
    BY <2>8, <2>9, <2>12 DEF OwnData
  <2> DEFINE w1 == W1(p0)
  <2>15. /\ o \in AfterBootstrap(w1, c, boot, before) /\ WorkInv(u, w1) /\ OwnData(w1.r)
         /\ w1.r.conn \in Conns /\ BootOf(boot, w1.r.conn) /\ boot.p.claimed = w1.p.claimed
         /\ w1.r.agent = w.r.agent
    BY <2>2, <2>5, <2>6, <2>7, <2>11, <2>13, <2>14
  <2> HIDE DEF w1
  <2>16. Names(w1, o)
    BY <2>6, <2>15, AfterBootstrapNames
  <2> QED BY <2>15, <2>16 DEF Names, SameAgent
<1>3. CASE \E p0 \in P0s : o \in Tries(p0)
  BY <1>2, <1>3 DEF Names
<1>4. CASE o = Raise(w)
  BY <1>4 DEF Names, Raise
<1> QED BY <1>3, <1>4 DEF BootstrapOnUpsertId

LEMMA RecoverBootstrapNames ==
  ASSUME NEW u, NEW w, WorkInv(u, w), Named(w.r), w.r.st \notin {"absent", "ready"},
         w.r.conn \in Conns, NEW i \in Identities, i = Contact(u, w.r), NEW before,
         NEW o \in RecoverBootstrap(w, i, w.r.conn, before)
  PROVE  Names(w, o)
<1> DEFINE c == w.r.conn
<1>1. c[1] = i /\ c # None
  BY ProvisionAssumption DEF WorkInv
<1>2. PICK q \in RefreshHostedUserClaimState(w) :
        o \in IF ~q.ok THEN {q}
              ELSE IF \/ q.w.r.st = "ready"
                      \/ q.w.r.url # None /\ q.w.r.url # w.r.url
                   THEN MailAndCommit(q.w, before)
              ELSE IF q.w.r.agent # None /\ q.w.r.conn # None
                   THEN ReissueAndMail(q.w, c, before)
              ELSE BootstrapOnUpsertId(q.w, i, c, before)
  BY DEF RecoverBootstrap
<1>3. /\ Keeps(u, w, q) /\ q.w.r.conn = c
      /\ q.w.r.st = w.r.st \/ (w.r.st = "awaiting_claim" /\ q.w.r.st = "ready")
  BY RefreshKeeps
<1>4. Named(q.w.r) /\ SameAgent(w.r, q.w.r)
  BY RefreshNames
<1>5. WorkInv(u, q.w) /\ i = Contact(u, q.w.r)
  BY <1>3 DEF Keeps, Contact
<1>6. CASE ~q.ok
  BY <1>2, <1>6 DEF Names
<1>7. CASE o \in MailAndCommit(q.w, before)
  <2>1. Names(q.w, o)
    BY <1>4, <1>5, <1>7, MailAndCommitNames
  <2> QED BY <1>4, <2>1 DEF Names, SameAgent
<1>8. CASE q.w.r.agent # None /\ q.w.r.st # "ready" /\ o \in ReissueAndMail(q.w, c, before)
  <2>1. q.w.r.st = "awaiting_claim"
    BY <1>5, <1>8 DEF WorkInv, Provisioned
  <2>2. Names(q.w, o)
    BY <1>3, <1>4, <1>5, <1>8, <2>1, ReissueAndMailNames
  <2> QED BY <1>4, <2>2 DEF Names, SameAgent
<1>9. CASE q.w.r.agent = None /\ q.w.r.st # "ready" /\ o \in BootstrapOnUpsertId(q.w, i, c, before)
  <2>1. q.w.r.st \notin {"absent", "ready"}
    BY <1>3, <1>9
  <2> HIDE DEF c
  <2>2. c \in Conns
    BY DEF c
  <2>3. Names(q.w, o)
    BY <1>1, <1>4, <1>5, <1>9, <2>1, <2>2, BootstrapOnUpsertIdNames
  <2> QED BY <1>4, <2>3 DEF Names, SameAgent
<1> QED BY <1>1, <1>2, <1>3, <1>6, <1>7, <1>8, <1>9

LEMMA BootstrapWithRecoveryNames ==
  ASSUME NEW u, NEW w, WorkInv(u, w), Named(w.r), w.r.st \notin {"absent", "ready"},
         w.r.conn \in Conns, NEW i \in Identities, i = Contact(u, w.r), NEW before,
         NEW o \in BootstrapWithRecovery(w, i, w.r.conn, before)
  PROVE  Names(w, o)
<1> DEFINE c == w.r.conn
<1>1. w.p \in Platforms /\ c # None
  BY ProvisionAssumption DEF WorkInv, Works
<1>2. PICK boot \in Bootstrap(w.p, c) :
        o \in CASE boot.res = "ok"   -> AfterBootstrap(w, c, boot, before)
                [] boot.res = "soft" ->
                     RecoverBootstrap([w EXCEPT !.p = boot.p], i, c, before)
                [] boot.res = "hard" -> {Raise([w EXCEPT !.p = boot.p])}
  BY DEF BootstrapWithRecovery
<1>3. /\ boot.p \in Platforms /\ boot.p.claimed = w.p.claimed
      /\ boot.res \in {"ok", "soft", "hard"}
      /\ boot.agent \in Conns \cup {None} /\ boot.wallet \in Conns \cup {None}
      /\ boot.key \in Conns \cup {None}
      /\ boot.res = "ok" => boot.url \in Links
  BY <1>1, BootstrapType
<1> DEFINE w1 == [w EXCEPT !.p = boot.p]
<1>4. WorkInv(u, w1) /\ w1.r = w.r
  BY <1>3, PlatformChanges
<1>5. CASE boot.res = "ok"
  <2>1. BootOf(boot, c)
    BY <1>1, <1>5, BootstrapNames
  <2>2. OwnData(w.r)
    BY DEF Named, OwnData
  <2>3. o \in AfterBootstrap(w, c, boot, before)
    BY <1>2, <1>5
  <2> QED BY <1>3, <1>5, <2>1, <2>2, <2>3, AfterBootstrapNames
<1>6. CASE boot.res = "soft"
  <2>1. o \in RecoverBootstrap(w1, i, w1.r.conn, before)
    BY <1>2, <1>4, <1>6
  <2> HIDE DEF w1
  <2>2. Names(w1, o)
    BY <1>4, <2>1, RecoverBootstrapNames
  <2> QED BY <1>4, <2>2 DEF Names
<1>7. CASE boot.res = "hard"
  BY <1>2, <1>7 DEF Raise, Names
<1> QED BY <1>3, <1>5, <1>6, <1>7

LEMMA ProvisionNames ==
  ASSUME NEW u, NEW w, WorkInv(u, w), Named(w.r), w.r.st \notin {"absent", "ready"},
         w.r.conn \in Conns, NEW i \in Identities, i = Contact(u, w.r),
         NEW o \in Provision(w, i, w.r.conn)
  PROVE  Names(w, o)
<1> DEFINE c == w.r.conn
<1>1. CASE w.r.st # "awaiting_claim"
  BY <1>1, BootstrapWithRecoveryNames DEF Provision
<1>2. CASE w.r.st = "awaiting_claim"
  <2>1. PICK q \in RefreshHostedUserClaimState(w) :
          o \in IF ~q.ok THEN {q}
                ELSE UNION {IF \/ v.r.st = "ready"
                               \/ v.r.url # None /\ v.r.url # w.r.url
                            THEN {Commit(v)}
                            ELSE IF v.r.agent # None /\ v.r.conn # None
                            THEN ReissueAndMail(v, c, v.r.url)
                            ELSE BootstrapWithRecovery(v, i, c, w.r.url)
                            : v \in HostedMaybeMailClaimInvite(q.w, w.r.url)}
    BY <1>2 DEF Provision
  <2>2. Keeps(u, w, q) /\ q.w.r.st \in Provisioned /\ q.w.r.conn = c
    BY <1>2, RefreshKeeps DEF Provisioned
  <2>3. Named(q.w.r) /\ SameAgent(w.r, q.w.r)
    BY RefreshNames
  <2>4. CASE ~q.ok
    BY <2>1, <2>4 DEF Names
  <2>5. CASE q.ok
    <3>1. PICK v \in HostedMaybeMailClaimInvite(q.w, w.r.url) :
            o \in IF \/ v.r.st = "ready"
                     \/ v.r.url # None /\ v.r.url # w.r.url
                  THEN {Commit(v)}
                  ELSE IF v.r.agent # None /\ v.r.conn # None
                  THEN ReissueAndMail(v, c, v.r.url)
                  ELSE BootstrapWithRecovery(v, i, c, w.r.url)
      BY <2>1, <2>5
    <3>2. /\ WorkInv(u, v) /\ v.r.email = w.r.email /\ v.r.st \in Provisioned
      BY <2>2, MailKeeps DEF Keeps
    <3>3. Named(v.r) /\ SameAgent(w.r, v.r) /\ v.r.conn = c
      BY <2>2, <2>3, MailNames DEF Keeps, SameAgent
    <3>4. i = Contact(u, v.r)
      BY <3>2 DEF Contact
    <3>5. CASE o = Commit(v)
      BY <3>3, <3>5 DEF Commit, Names
    <3>6. CASE v.r.st # "ready" /\ o \in ReissueAndMail(v, c, v.r.url)
      <4>1. Names(v, o)
        BY <3>2, <3>3, <3>6, ReissueAndMailNames DEF Provisioned
      <4> QED BY <3>3, <4>1 DEF Names, SameAgent
    <3>7. CASE v.r.st # "ready" /\ o \in BootstrapWithRecovery(v, i, c, w.r.url)
      <4>1. Names(v, o)
        BY <3>2, <3>3, <3>4, <3>7, BootstrapWithRecoveryNames DEF Provisioned
      <4> QED BY <3>3, <4>1 DEF Names, SameAgent
    <3> QED BY <3>1, <3>5, <3>6, <3>7
  <2> QED BY <2>4, <2>5
<1> QED BY <1>1, <1>2

(* What provisioning commits is of one connection. Without a verified      *)
(* inbox this fails for a user without a row, whose recovery stores the    *)
(* new connection's link under the old one.                                *)
LEMMA EnsureNames ==
  ASSUME RequireVerified, NEW u \in Users, NEW w, WorkInv(u, w), Named(w.r),
         NEW o \in EnsureTelegramUserProvisioned(u, w)
  PROVE  Names(w, o)
<1>1. /\ w \in [r: Rows, p: Platforms, mails: SUBSET Links]
      /\ w.r \in Rows /\ w.p \in Platforms
  BY DEF WorkInv, Works
<1> DEFINE i  == Contact(u, w.r)
           p1 == Upserted(w.p, i)
           c  == CurrentConn(p1, i)
           r1 == IF w.r.st = "email_verified" /\ RequireVerified
                 THEN [w.r EXCEPT !.conn = c] ELSE w.r
           w1 == [w EXCEPT !.p = p1, !.r = r1]
<1>2. i \in Identities
  BY <1>1 DEF Contact, Identities, Rows
<1>3. /\ p1 \in Platforms /\ p1.claimed = w.p.claimed
      /\ c \in Conns /\ c[1] = i
  BY <1>1, <1>2, UpsertedType
<1>4. CASE ~o.ok
  BY <1>4 DEF Names
<1>5. CASE o = Commit(w)
  BY <1>5 DEF Commit, Names, SameAgent
<1>6. CASE /\ ~AwaitsEmail(w.r) /\ ~AlreadyProvisioned(w.r) /\ w.r.conn # None
           /\ o \in Provision(w, i, w.r.conn)
  <2>1. w.r.st \notin {"absent", "ready"}
    BY <1>6 DEF AlreadyProvisioned, AwaitsEmail, WorkInv, Provisioned
  <2>2. w.r.conn \in Conns
    BY <1>1, <1>6 DEF Rows
  <2> QED BY <1>2, <1>6, <2>1, <2>2, ProvisionNames
<1>7. CASE ~AwaitsEmail(w.r) /\ w.r.conn = None /\ o \in Provision(w1, i, c)
  <2>1. w.r.st = "email_verified"
    BY <1>1, <1>7 DEF AwaitsEmail, WorkInv, Provisioned, Rows, States
  <2> HIDE DEF p1, c, i
  <2>2. /\ r1 \in Rows /\ r1.st = w.r.st /\ r1.email = w.r.email /\ r1.url = w.r.url
        /\ r1.agent = w.r.agent /\ r1.wallet = w.r.wallet /\ r1.key = w.r.key /\ r1.conn = c
    BY <1>1, <1>3, <2>1 DEF Rows
  <2>3. w.r.agent = None /\ w.r.url = None
    BY <2>1 DEF WorkInv, Provisioned
  <2>4. w1 \in Works /\ w1.r = r1 /\ w1.p = p1
    <3> HIDE DEF r1
    <3> QED BY <1>1, <1>3, <2>2 DEF Works
  <2> HIDE DEF r1, w1
  <2>5. i = Contact(u, w.r)
    BY DEF i
  <2>6. WorkInv(u, w1) /\ i = Contact(u, w1.r) /\ w1.r.conn = c
    BY <1>3, <2>1, <2>2, <2>4, <2>5 DEF WorkInv, Contact, Provisioned
  <2>7. Named(w1.r)
    BY <2>2, <2>3, <2>4 DEF Named
  <2>8. w1.r.st \notin {"absent", "ready"} /\ o \in Provision(w1, i, w1.r.conn)
    BY <1>7, <2>1, <2>2, <2>4, <2>6
  <2>9. Names(w1, o)
    BY <1>2, <1>3, <2>6, <2>7, <2>8, ProvisionNames
  <2> QED BY <2>2, <2>4, <2>9 DEF Names, SameAgent
<1> QED BY <1>4, <1>5, <1>6, <1>7 DEF EnsureTelegramUserProvisioned, Raise

LEMMA EnsureAndRefreshNames ==
  ASSUME RequireVerified, NEW u \in Users, NEW w, WorkInv(u, w), Named(w.r),
         NEW o \in EnsureAndRefresh(u, w)
  PROVE  Names(w, o)
<1>1. PICK o1 \in EnsureTelegramUserProvisioned(u, w) :
        o \in IF o1.ok THEN {Commit(q.w) : q \in RefreshHostedUserClaimState(o1.w)} ELSE {o1}
  BY DEF EnsureAndRefresh
<1>2. Keeps(u, w, o1) /\ Names(w, o1)
  BY EnsureKeeps, EnsureNames
<1>3. CASE ~o1.ok
  BY <1>1, <1>2, <1>3
<1>4. CASE o1.ok
  <2>1. PICK q \in RefreshHostedUserClaimState(o1.w) : o = Commit(q.w)
    BY <1>1, <1>4
  <2>2. Named(q.w.r) /\ SameAgent(o1.w.r, q.w.r)
    BY <1>2, <1>4, RefreshNames DEF Keeps, Names
  <2>3. o.w = q.w
    BY <2>1 DEF Commit
  <2> QED BY <1>2, <1>4, <2>2, <2>3 DEF Names, SameAgent
<1> QED BY <1>3, <1>4
-----------------------------------------------------------------------------
(* Links are numbered; those of a connection only grow in number, so that  *)
(* a link just minted is not the one a row had before.                     *)
Grows(p, q) ==
  /\ p \in Platforms /\ q \in Platforms
  /\ \A c \in Conns : p.link[c] <= q.link[c]

Issued(p, l) == l \in Links \cup {None} /\ (l # None => l[2] <= p.link[l[1]])

(* A row that waits for its claim has its connection's newest link, which  *)
(* was handed to the mailer.                                               *)
Newest(w) ==
  w.r.st = "awaiting_claim" =>
    w.r.url \in w.mails /\ w.r.url = LatestLink(w.p, w.r.conn)

(* What outcome o of transaction w does for the link: all it can commit    *)
(* for a waiting user has been mailed.                                     *)
Delivers(w, o) ==
  /\ Grows(w.p, o.w.p)
  /\ o.ok => Issued(o.w.p, o.w.r.url) /\ Newest(o.w)

-----------------------------------------------------------------------------
LEMMA GrowsOn ==
  /\ \A p \in Platforms : Grows(p, p)
  /\ \A p, q, s : Grows(p, q) /\ Grows(q, s) => Grows(p, s)
  /\ \A p, q, l : Grows(p, q) /\ Issued(p, l) => Issued(q, l)
<1>1. ASSUME NEW p \in Platforms, NEW c \in Conns PROVE p.link[c] \in Nat
  BY DEF Platforms
<1>2. \A p \in Platforms : Grows(p, p)
  BY <1>1 DEF Grows
<1>3. \A p, q, s : Grows(p, q) /\ Grows(q, s) => Grows(p, s)
  BY <1>1 DEF Grows
<1>4. ASSUME NEW p, NEW q, NEW l, Grows(p, q), Issued(p, l), l # None
      PROVE  l[2] <= q.link[l[1]]
  <2>1. l[1] \in Conns /\ l[2] \in Nat
    BY <1>4 DEF Issued, Links
  <2> QED BY <1>1, <1>4, <2>1 DEF Grows, Issued
<1> QED BY <1>2, <1>3, <1>4 DEF Issued

LEMMA LatestIssued ==
  ASSUME NEW p \in Platforms, NEW c \in Conns, p.link[c] # 0
  PROVE  Issued(p, LatestLink(p, c))
<1>1. p.link[c] \in 1..MaxLink
  BY ProvisionAssumption DEF Platforms
<1> QED BY <1>1 DEF Issued, LatestLink, Links

LEMMA MintedLinks ==
  ASSUME NEW p \in Platforms, NEW c \in Conns, CanMint(p, c)
  PROVE  /\ Grows(p, Minted(p, c))
         /\ Issued(Minted(p, c), LatestLink(Minted(p, c), c))
         /\ \A l : Issued(p, l) => l # LatestLink(Minted(p, c), c)
<1> DEFINE q == Minted(p, c)
<1>1. /\ q \in Platforms /\ p.link[c] \in Nat /\ q.link[c] = p.link[c] + 1
      /\ \A d \in Conns : d # c => q.link[d] = p.link[d]
      /\ \A d \in Conns : p.link[d] \in Nat
  BY MintedType DEF Minted, Platforms
<1> HIDE DEF q
<1>2. Grows(p, q)
  BY <1>1 DEF Grows
<1>3. Issued(q, LatestLink(q, c))
  BY <1>1, LatestIssued
<1>5. LatestLink(q, c) # None
  BY MintedType, ProvisionAssumption DEF q
<1>4. ASSUME NEW l, Issued(p, l), l = LatestLink(q, c)
      PROVE  FALSE
  <2>1. l # None /\ l[1] = c /\ l[2] = p.link[c] + 1
    BY <1>1, <1>4, <1>5 DEF LatestLink
  <2> QED BY <1>1, <1>4, <2>1 DEF Issued
<1> QED BY <1>2, <1>3, <1>4 DEF q

LEMMA BootstrapLinks ==
  ASSUME NEW p \in Platforms, NEW c \in Conns, NEW boot \in Bootstrap(p, c)
  PROVE  /\ Grows(p, boot.p)
         /\ boot.res = "ok" => /\ boot.url = LatestLink(boot.p, c)
                               /\ Issued(boot.p, boot.url)
                               /\ \A l : Issued(p, l) => l # boot.url
<1> DEFINE m  == Minted(p, c)
           p1 == [m EXCEPT !.booted = @ \cup {c}]
           keys == IF c \in p.booted THEN {None} ELSE Optional(c)
<1>1. CASE boot \in {BootFailure(p, "soft"), BootFailure(p, "hard")}
  BY <1>1, GrowsOn DEF BootFailure
<1>2. CASE /\ CanMint(p, c)
           /\ \/ boot = BootFailure(p1, "soft")
              \/ boot \in [p: {p1}, res: {"ok"}, url: {LatestLink(p1, c)},
                           agent: ReportedAgent(c), wallet: Optional(c), key: keys]
  <2>1. /\ m \in Platforms /\ Grows(p, m) /\ Issued(m, LatestLink(m, c))
        /\ \A l : Issued(p, l) => l # LatestLink(m, c)
    BY <1>2, MintedType, MintedLinks
  <2> HIDE DEF m
  <2>2. p1 \in Platforms /\ p1.link = m.link
    BY <2>1 DEF Platforms
  <2>3. boot.p = p1 /\ (boot.res = "ok" => boot.url = LatestLink(p1, c))
    BY <1>2 DEF BootFailure
  <2> HIDE DEF p1
  <2>4. Grows(p, p1) /\ LatestLink(p1, c) = LatestLink(m, c) /\ Issued(p1, LatestLink(m, c))
    BY <2>1, <2>2 DEF Grows, LatestLink, Issued
  <2> QED BY <2>1, <2>3, <2>4
<1> QED BY <1>1, <1>2 DEF Bootstrap

LEMMA UpsertedLinks ==
  ASSUME NEW p \in Platforms, NEW i \in Identities
  PROVE  Upserted(p, i).link = p.link /\ Rotated(p, i).link = p.link
BY DEF Upserted, Rotated, Platforms

-----------------------------------------------------------------------------
(* A poll stores the link it finds at the Platform, or none.               *)
LEMMA RefreshLinks ==
  ASSUME NEW u, NEW w, WorkInv(u, w), NEW o \in RefreshHostedUserClaimState(w)
  PROVE  /\ o.w.p = w.p /\ o.w.mails = w.mails
         /\ \/ o.w.r.url = w.r.url
            \/ /\ o.w.r.url = LatestLink(w.p, w.r.conn)
               /\ w.r.conn \in Conns /\ w.p.link[w.r.conn] # 0
<1>1. /\ w \in [r: Rows, p: Platforms, mails: SUBSET Links]
      /\ w.r \in Rows /\ w.p \in Platforms
  BY DEF WorkInv, Works
<1>2. CASE o = Raise(w)
  BY <1>2 DEF Raise
<1>3. ASSUME NEW r1 \in Rows, NEW r2 \in Backfill(r1), o = Commit([w EXCEPT !.r = r2])
      PROVE  o.w.p = w.p /\ o.w.mails = w.mails /\ o.w.r.url = r1.url
  <2>1. r2.url = r1.url
    BY <1>3, BackfillKeeps DEF Rows
  <2> QED BY <1>1, <1>3, <2>1 DEF Commit
<1>4. CASE ~(w.r.st = "awaiting_claim" /\ w.r.conn # None)
  <2>1. PICK r2 \in Backfill(w.r) : o = Commit([w EXCEPT !.r = r2])
    BY <1>4 DEF RefreshHostedUserClaimState
  <2> QED BY <1>1, <1>3, <2>1
<1>5. CASE w.r.st = "awaiting_claim" /\ w.r.conn # None /\ o # Raise(w)
  <2>1. PICK r2 \in UNION {Backfill(r1) : r1 \in Polled(w.p, w.r)} :
          o = Commit([w EXCEPT !.r = r2])
    BY <1>5 DEF RefreshHostedUserClaimState
  <2>2. PICK r1 \in Polled(w.p, w.r) : r2 \in Backfill(r1)
    OBVIOUS
  <2>3. w.r.conn \in Conns
    BY <1>1, <1>5 DEF Rows
  <2>4. r1 \in Rows
    BY <1>1, <2>3, PolledKeeps
  <2>5. \/ r1.url = w.r.url
        \/ r1.url = LatestLink(w.p, w.r.conn) /\ w.p.link[w.r.conn] # 0
    <3>1. CASE r1 = w.r
      BY <3>1
    <3>2. ASSUME NEW said \in PollPayloads(w.p, w.r.conn), r1 = ApplyPollPayload(w.r, said)
          PROVE  <2>5!:
      <4>1. r1.url = Overwrite(w.r.url, said.url)
        BY <1>1, <3>2 DEF ApplyPollPayload, Rows
      <4>2. \/ said.url = None
            \/ said.url = LatestLink(w.p, w.r.conn) /\ w.p.link[w.r.conn] # 0
        BY DEF PollPayloads, Optional
      <4> QED BY <4>1, <4>2 DEF Overwrite
    <3> QED BY <3>1, <3>2 DEF Polled
  <2> QED BY <1>3, <2>1, <2>2, <2>3, <2>4, <2>5
<1> QED BY <1>2, <1>4, <1>5

(* A poll leaves a mailed link mailed: it is the newest already.           *)
LEMMA RefreshDelivers ==
  ASSUME NEW u, NEW w, WorkInv(u, w), Issued(w.p, w.r.url),
         NEW o \in RefreshHostedUserClaimState(w)
  PROVE  /\ Grows(w.p, o.w.p) /\ Issued(o.w.p, o.w.r.url)
         /\ Newest(w) => Newest(o.w)
<1>1. w.p \in Platforms
  BY DEF WorkInv, Works
<1>2. /\ o.w.p = w.p /\ o.w.mails = w.mails
      /\ \/ o.w.r.url = w.r.url
         \/ /\ o.w.r.url = LatestLink(w.p, w.r.conn)
            /\ w.r.conn \in Conns /\ w.p.link[w.r.conn] # 0
  BY RefreshLinks
<1>3. /\ o.w.r.conn = w.r.conn
      /\ o.w.r.st = w.r.st \/ (w.r.st = "awaiting_claim" /\ o.w.r.st = "ready")
  BY RefreshKeeps
<1>4. Issued(o.w.p, o.w.r.url)
  BY <1>1, <1>2, LatestIssued
<1> QED BY <1>1, <1>2, <1>3, <1>4, GrowsOn DEF Newest

(* A link that differs from the one before is mailed.                      *)
LEMMA MailLinks ==
  ASSUME RequireVerified, NEW u, NEW w, WorkInv(u, w), w.r.email # None,
         NEW before, NEW v \in HostedMaybeMailClaimInvite(w, before)
  PROVE  w.r.st = "awaiting_claim" /\ w.r.url # before => v.r.url \in v.mails
<1> SUFFICES ASSUME w.r.st = "awaiting_claim", w.r.url # before PROVE v.r.url \in v.mails
  OBVIOUS
<1>1. w \in [r: Rows, p: Platforms, mails: SUBSET Links] /\ w.r \in Rows
  BY DEF WorkInv, Works
<1> DEFINE tried == [w EXCEPT !.mails = @ \cup {w.r.url}]
<1>2. w.r.url # None
  BY DEF WorkInv, Provisioned
<1>3. v \in {tried, [tried EXCEPT !.r = [@ EXCEPT !.sent = "recent"]]}
  BY <1>2 DEF HostedMaybeMailClaimInvite
<1>4. v.mails = w.mails \cup {w.r.url}
  BY <1>1, <1>3
<1>5. v.r.url = w.r.url
  BY MailKeeps
<1> QED BY <1>4, <1>5

LEMMA MailAndCommitDelivers ==
  ASSUME RequireVerified, NEW u, NEW w, WorkInv(u, w), w.r.email # None,
         Issued(w.p, w.r.url), NEW before,
         w.r.st = "awaiting_claim" =>
           w.r.url # before /\ w.r.url = LatestLink(w.p, w.r.conn),
         NEW o \in MailAndCommit(w, before)
  PROVE  Delivers(w, o)
<1>1. PICK v \in HostedMaybeMailClaimInvite(w, before) : o = Commit(v)
  BY DEF MailAndCommit
<1>2. /\ v.p = w.p /\ v.r.st = w.r.st /\ v.r.conn = w.r.conn /\ v.r.url = w.r.url
  BY MailKeeps
<1>3. w.r.st = "awaiting_claim" => v.r.url \in v.mails
  BY MailLinks
<1>4. w.p \in Platforms /\ o.w = v
  BY <1>1 DEF WorkInv, Works, Commit
<1> QED BY <1>2, <1>3, <1>4, GrowsOn DEF Delivers, Newest

(* Another link than the row had is minted and mailed.                     *)
LEMMA ReissueAndMailDelivers ==
  ASSUME RequireVerified, NEW u, NEW w, WorkInv(u, w), w.r.email # None,
         w.r.st = "awaiting_claim", w.r.conn \in Conns,
         NEW before, Issued(w.p, before), NEW o \in ReissueAndMail(w, w.r.conn, before)
  PROVE  Delivers(w, o)
<1> DEFINE c  == w.r.conn
           p1 == Minted(w.p, c)
           r1 == [w.r EXCEPT !.url = LatestLink(p1, c), !.conn = c]
<1>1. /\ w \in [r: Rows, p: Platforms, mails: SUBSET Links]
      /\ w.r \in Rows /\ w.p \in Platforms
  BY DEF WorkInv, Works
<1>2. PICK o1 \in ReissueClaimOnRow(w, c) :
        o \in IF o1.ok THEN MailAndCommit(o1.w, before) ELSE {o1}
  BY DEF ReissueAndMail
<1>3. CASE o1 = Raise(w)
  <2>1. o = Raise(w)
    BY <1>2, <1>3 DEF Raise
  <2> QED BY <1>1, <2>1, GrowsOn DEF Raise, Delivers
<1>4. CASE /\ CanMint(w.p, c)
           /\ o1 \in {Raise([w EXCEPT !.p = p1]), Commit([w EXCEPT !.p = p1, !.r = r1])}
  <2>1. /\ Grows(w.p, p1) /\ Issued(p1, LatestLink(p1, c))
        /\ before # LatestLink(p1, c)
    BY <1>1, <1>4, MintedLinks
  <2>2. o1.w.p = p1
    <3>1. [w EXCEPT !.p = p1].p = p1 /\ [w EXCEPT !.p = p1, !.r = r1].p = p1
      BY <1>1
    <3>2. o1.w \in {[w EXCEPT !.p = p1], [w EXCEPT !.p = p1, !.r = r1]}
      <4> HIDE DEF p1, r1
      <4> QED BY <1>4 DEF Raise, Commit
    <3> QED BY <3>1, <3>2
  <2>3. CASE ~o1.ok
    BY <1>2, <2>1, <2>2, <2>3 DEF Delivers
  <2>4. CASE o1.ok
    <3>1. o1.w = [w EXCEPT !.p = p1, !.r = r1]
      <4> HIDE DEF p1, r1
      <4> QED BY <1>4, <2>4, SMTT(20) DEF Raise, Commit
    <3>2. /\ o1.w.r.url = LatestLink(p1, c) /\ o1.w.r.conn = c
          /\ o1.w.r.email = w.r.email
      BY <1>1, <3>1, ZenonT(40) DEF Rows
    <3>3. WorkInv(u, o1.w)
      <4>1. c[1] = Contact(u, w.r)
        BY ProvisionAssumption DEF WorkInv
      <4> QED BY <1>2, <4>1, ReissueKeeps DEF Keeps
    <3> HIDE DEF c, p1, r1
    <3>4. Delivers(o1.w, o)
      BY <1>2, <2>1, <2>2, <2>4, <3>2, <3>3, MailAndCommitDelivers
    <3> QED BY <2>1, <2>2, <3>4, GrowsOn DEF Delivers
  <2> QED BY <2>3, <2>4
<1> QED BY <1>2, <1>3, <1>4 DEF ReissueClaimOnRow

(* The row that took a bootstrap's data.                                   *)
LEMMA BootstrappedRowData ==
  ASSUME NEW u, NEW w, WorkInv(u, w), w.r.conn \in Conns, NEW c \in Conns,
         NEW boot, boot.p \in Platforms, boot.p.claimed = w.p.claimed, boot.url \in Links,
         boot.agent \in Conns \cup {None}, boot.wallet \in Conns \cup {None},
         boot.key \in Conns \cup {None},
         NEW r2 \in Backfill(BootstrappedRow(w.r, c, boot))
  PROVE  /\ r2 \in Rows /\ r2.st = "awaiting_claim" /\ r2.email = w.r.email
         /\ r2.conn = w.r.conn /\ r2.url = boot.url
<1>1. /\ w \in [r: Rows, p: Platforms, mails: SUBSET Links]
      /\ w.r \in Rows /\ w.r.conn # None
  BY ProvisionAssumption DEF WorkInv, Works
<1> DEFINE r1 == BootstrappedRow(w.r, c, boot)
           agent1 == Overwrite(w.r.agent, boot.agent)
           wallet1 == IF w.r.wallet # None THEN w.r.wallet ELSE boot.wallet
           key1 == Overwrite(w.r.key, boot.key)
<1>2. r1 = [w.r EXCEPT !.st = "awaiting_claim", !.conn = w.r.conn, !.url = boot.url,
                       !.agent = agent1, !.wallet = wallet1, !.key = key1]
  BY <1>1 DEF BootstrappedRow
<1>3. agent1 \in Conns \cup {None} /\ wallet1 \in Conns \cup {None} /\ key1 \in Conns \cup {None}
  BY <1>1 DEF Overwrite, Rows
<1>4. r2 \in Backfill(r1)
  OBVIOUS
<1> HIDE DEF r1, agent1, wallet1, key1
<1>5. /\ r1 \in Rows /\ r1.st = "awaiting_claim" /\ r1.email = w.r.email
      /\ r1.url = boot.url /\ r1.conn = w.r.conn
  BY <1>1, <1>2, <1>3 DEF Rows, States
<1> QED BY <1>4, <1>5, BackfillKeeps DEF Rows

LEMMA AfterBootstrapDelivers ==
  ASSUME RequireVerified, NEW u, NEW w, WorkInv(u, w), w.r.email # None,
         w.r.conn \in Conns, NEW c \in Conns,
         NEW boot, boot.p \in Platforms, boot.p.claimed = w.p.claimed, boot.url \in Links,
         boot.agent \in Conns \cup {None}, boot.wallet \in Conns \cup {None},
         boot.key \in Conns \cup {None},
         Grows(w.p, boot.p), Issued(boot.p, boot.url),
         boot.url = LatestLink(boot.p, w.r.conn),
         NEW before, boot.url # before, NEW o \in AfterBootstrap(w, c, boot, before)
  PROVE  Delivers(w, o)
<1>1. PICK r2 \in Backfill(BootstrappedRow(w.r, c, boot)) :
        o \in MailAndCommit([w EXCEPT !.r = r2, !.p = boot.p], before)
  BY DEF AfterBootstrap
<1> DEFINE w2 == [w EXCEPT !.r = r2, !.p = boot.p]
<1>2. /\ w \in [r: Rows, p: Platforms, mails: SUBSET Links]
      /\ w.r.conn[1] = Contact(u, w.r)
  BY ProvisionAssumption DEF WorkInv, Works
<1>3. /\ r2 \in Rows /\ r2.st = "awaiting_claim" /\ r2.email = w.r.email
      /\ r2.conn = w.r.conn /\ r2.url = boot.url
  BY BootstrappedRowData
<1>4. w2 \in Works /\ w2.r = r2 /\ w2.p = boot.p
  BY <1>2, <1>3 DEF Works
<1>5. o \in MailAndCommit(w2, before)
  BY <1>1
<1> HIDE DEF w2
<1>6. w.r.conn # None /\ boot.url # None
  BY ProvisionAssumption
<1>7. WorkInv(u, w2)
  BY <1>2, <1>3, <1>4, <1>6 DEF WorkInv, Contact, Provisioned
<1>8. Delivers(w2, o)
  BY <1>3, <1>4, <1>5, <1>7, MailAndCommitDelivers
<1> QED BY <1>3, <1>4, <1>8, GrowsOn DEF Delivers
(* The last recovery stores and mails the link of the connection it made.  *)
LEMMA BootstrapOnUpsertIdDelivers ==
  ASSUME RequireVerified, NEW u, NEW w, WorkInv(u, w), w.r.email # None,
         w.r.st \notin {"absent", "ready"},
         NEW i \in Identities, i = Contact(u, w.r),
         NEW c \in Conns, c[1] = i, NEW before, Issued(w.p, before),
         NEW o \in BootstrapOnUpsertId(w, i, c, before)
  PROVE  Delivers(w, o)
<1>1. /\ w \in [r: Rows, p: Platforms, mails: SUBSET Links]
      /\ w.r \in Rows /\ w.p \in Platforms
  BY DEF WorkInv, Works
<1> DEFINE P1(p0) == Upserted(p0, i)
           C2(p0) == CurrentConn(P1(p0), i)
           R1(p0) == IF w.r.st # "absent" THEN [w.r EXCEPT !.conn = C2(p0)] ELSE w.r
           W1(p0) == [w EXCEPT !.p = P1(p0), !.r = R1(p0)]
           Tries(p0) ==
             IF C2(p0) = c
             THEN {Raise([w EXCEPT !.p = P1(p0)])}
             ELSE UNION {IF boot.res = "ok" THEN AfterBootstrap(W1(p0), c, boot, before)
                         ELSE {Raise([W1(p0) EXCEPT !.p = boot.p])}
                         : boot \in Bootstrap(P1(p0), C2(p0))}
           P0s == {w.p} \cup (IF CanRotate(w.p, i) THEN {Rotated(w.p, i)} ELSE {})
<1>2. ASSUME NEW p0 \in P0s, o \in Tries(p0)
      PROVE  Delivers(w, o)
  <2>1. p0 \in Platforms /\ p0.claimed = w.p.claimed /\ p0.link = w.p.link
    BY <1>1, RotatedType, UpsertedLinks
  <2>2. /\ P1(p0) \in Platforms /\ P1(p0).claimed = w.p.claimed
        /\ P1(p0).link = w.p.link
        /\ C2(p0) \in Conns /\ C2(p0)[1] = i
    BY <2>1, UpsertedType, UpsertedLinks
  <2> HIDE DEF P1, C2
  <2>3. Grows(w.p, P1(p0)) /\ Issued(P1(p0), before)
    <3>1. Grows(w.p, P1(p0))
      BY <1>1, <2>2, GrowsOn DEF Grows
    <3> QED BY <3>1, GrowsOn
  <2>4. ASSUME NEW p \in Platforms, Grows(w.p, p), NEW x, x.p = p, o = Raise(x)
        PROVE  Delivers(w, o)
    BY <2>4 DEF Raise, Delivers
  <2>5. CASE C2(p0) = c
    <3>1. [w EXCEPT !.p = P1(p0)].p = P1(p0)
      BY <1>1
    <3>2. o = Raise([w EXCEPT !.p = P1(p0)])
      BY <1>2, <2>5
    <3> QED BY <2>2, <2>3, <2>4, <3>1, <3>2
  <2>6. CASE C2(p0) # c
    <3>1. PICK boot \in Bootstrap(P1(p0), C2(p0)) :
            o \in IF boot.res = "ok" THEN AfterBootstrap(W1(p0), c, boot, before)
                  ELSE {Raise([W1(p0) EXCEPT !.p = boot.p])}
      BY <1>2, <2>6
    <3>2. /\ boot.p \in Platforms /\ boot.p.claimed = w.p.claimed
          /\ boot.agent \in Conns \cup {None} /\ boot.wallet \in Conns \cup {None}
          /\ boot.key \in Conns \cup {None}
          /\ boot.res = "ok" => boot.url \in Links
      BY <2>2, BootstrapType
    <3>3. /\ Grows(P1(p0), boot.p)
          /\ boot.res = "ok" => /\ boot.url = LatestLink(boot.p, C2(p0))
                                /\ Issued(boot.p, boot.url)
                                /\ boot.url # before
      BY <2>2, <2>3, BootstrapLinks
    <3>4. /\ R1(p0) \in Rows /\ R1(p0).st = w.r.st /\ R1(p0).email = w.r.email
          /\ R1(p0).url = w.r.url /\ R1(p0).agent = w.r.agent
          /\ R1(p0).conn = C2(p0)
      BY <1>1, <2>2 DEF Rows
    <3>5. W1(p0) \in Works /\ W1(p0).r = R1(p0) /\ W1(p0).p = P1(p0)
      <4> HIDE DEF R1
      <4> QED BY <1>1, <2>2, <3>4 DEF Works
    <3>6. Grows(w.p, boot.p)
      BY <2>3, <3>3, GrowsOn
    <3>7. CASE boot.res # "ok"
      <4>1. [W1(p0) EXCEPT !.p = boot.p].p = boot.p
        BY <3>5 DEF Works
      <4>2. o = Raise([W1(p0) EXCEPT !.p = boot.p])
        BY <3>1, <3>7
      <4> HIDE DEF W1
      <4> QED BY <2>4, <3>2, <3>6, <4>1, <4>2
    <3> HIDE DEF R1, W1
    <3>8. CASE boot.res = "ok"
      <4>1. C2(p0) # None
        BY <2>2, ProvisionAssumption
      <4>2. WorkInv(u, W1(p0))
        BY <2>2, <3>4, <3>5, <4>1 DEF WorkInv, Contact, Provisioned
      <4> DEFINE w1 == W1(p0)
      <4>3. /\ WorkInv(u, w1) /\ w1.p = P1(p0) /\ w1.r.conn = C2(p0)
            /\ w1.r.email # None /\ o \in AfterBootstrap(w1, c, boot, before)
        BY <3>1, <3>4, <3>5, <3>8, <4>2
      <4> HIDE DEF w1
      <4>4. Delivers(w1, o)
        BY <2>2, <3>2, <3>3, <3>8, <4>3, AfterBootstrapDelivers
      <4> QED BY <2>3, <4>3, <4>4, GrowsOn DEF Delivers
    <3> QED BY <3>7, <3>8
  <2> QED BY <2>5, <2>6
<1>3. CASE \E p0 \in P0s : o \in Tries(p0)
  BY <1>2, <1>3
<1>4. CASE o = Raise(w)
  BY <1>1, <1>4, GrowsOn DEF Delivers, Raise
<1> QED BY <1>3, <1>4 DEF BootstrapOnUpsertId

LEMMA RecoverBootstrapDelivers ==
  ASSUME RequireVerified, NEW u, NEW w, WorkInv(u, w), w.r.email # None,
         w.r.st \notin {"absent", "ready"}, Issued(w.p, w.r.url),
         w.r.conn \in Conns, NEW i \in Identities, i = Contact(u, w.r),
         NEW o \in RecoverBootstrap(w, i, w.r.conn, w.r.url)
  PROVE  Delivers(w, o)
<1> DEFINE c == w.r.conn
<1>1. c[1] = i /\ c # None
  BY ProvisionAssumption DEF WorkInv
<1>2. PICK q \in RefreshHostedUserClaimState(w) :
        o \in IF ~q.ok THEN {q}
              ELSE IF \/ q.w.r.st = "ready"
                      \/ q.w.r.url # None /\ q.w.r.url # w.r.url
                   THEN MailAndCommit(q.w, w.r.url)
              ELSE IF q.w.r.agent # None /\ q.w.r.conn # None
                   THEN ReissueAndMail(q.w, c, w.r.url)
              ELSE BootstrapOnUpsertId(q.w, i, c, w.r.url)
  BY DEF RecoverBootstrap
<1>3. /\ Keeps(u, w, q) /\ q.w.r.conn = c
      /\ q.w.r.st = w.r.st \/ (w.r.st = "awaiting_claim" /\ q.w.r.st = "ready")
  BY RefreshKeeps
<1>4. /\ q.w.p = w.p
      /\ \/ q.w.r.url = w.r.url
         \/ q.w.r.url = LatestLink(w.p, w.r.conn)
      /\ Grows(w.p, q.w.p) /\ Issued(q.w.p, q.w.r.url)
  BY RefreshLinks, RefreshDelivers
<1>5. WorkInv(u, q.w) /\ i = Contact(u, q.w.r) /\ q.w.r.email # None
  BY <1>3 DEF Keeps, Contact
<1>6. CASE ~q.ok /\ o = q
  BY <1>4, <1>6 DEF Delivers
<1>7. CASE /\ q.w.r.st = "ready" \/ q.w.r.url # w.r.url
           /\ o \in MailAndCommit(q.w, w.r.url)
  <2>1. q.w.r.st = "awaiting_claim" =>
          q.w.r.url # w.r.url /\ q.w.r.url = LatestLink(q.w.p, q.w.r.conn)
    BY <1>3, <1>4, <1>7
  <2>2. Delivers(q.w, o)
    BY <1>4, <1>5, <1>7, <2>1, MailAndCommitDelivers
  <2> QED BY <1>4, <2>2 DEF Delivers
<1>8. CASE q.w.r.agent # None /\ q.w.r.st # "ready" /\ o \in ReissueAndMail(q.w, c, w.r.url)
  <2>1. q.w.r.st = "awaiting_claim"
    BY <1>5, <1>8 DEF WorkInv, Provisioned
  <2>2. Delivers(q.w, o)
    BY <1>3, <1>4, <1>5, <1>8, <2>1, ReissueAndMailDelivers
  <2> QED BY <1>4, <2>2 DEF Delivers
<1>9. CASE q.w.r.st # "ready" /\ o \in BootstrapOnUpsertId(q.w, i, c, w.r.url)
  <2>1. q.w.r.st \notin {"absent", "ready"}
    BY <1>3, <1>9
  <2> HIDE DEF c
  <2>2. c \in Conns
    BY DEF c
  <2>3. Delivers(q.w, o)
    BY <1>1, <1>4, <1>5, <1>9, <2>1, <2>2, BootstrapOnUpsertIdDelivers
  <2> QED BY <1>4, <2>3 DEF Delivers
<1> QED BY <1>1, <1>2, <1>3, <1>6, <1>7, <1>8, <1>9

LEMMA BootstrapWithRecoveryDelivers ==
  ASSUME RequireVerified, NEW u, NEW w, WorkInv(u, w), w.r.email # None,
         w.r.st \notin {"absent", "ready"}, Issued(w.p, w.r.url),
         w.r.conn \in Conns, NEW i \in Identities, i = Contact(u, w.r),
         NEW o \in BootstrapWithRecovery(w, i, w.r.conn, w.r.url)
  PROVE  Delivers(w, o)
<1> DEFINE c == w.r.conn
<1>1. w.p \in Platforms /\ c # None
  BY ProvisionAssumption DEF WorkInv, Works
<1>2. PICK boot \in Bootstrap(w.p, c) :
        o \in CASE boot.res = "ok"   -> AfterBootstrap(w, c, boot, w.r.url)
                [] boot.res = "soft" ->
                     RecoverBootstrap([w EXCEPT !.p = boot.p], i, c, w.r.url)
                [] boot.res = "hard" -> {Raise([w EXCEPT !.p = boot.p])}
  BY DEF BootstrapWithRecovery
<1>3. /\ boot.p \in Platforms /\ boot.p.claimed = w.p.claimed
      /\ boot.res \in {"ok", "soft", "hard"}
      /\ boot.agent \in Conns \cup {None} /\ boot.wallet \in Conns \cup {None}
      /\ boot.key \in Conns \cup {None}
      /\ boot.res = "ok" => boot.url \in Links
  BY <1>1, BootstrapType
<1>4. /\ Grows(w.p, boot.p)
      /\ boot.res = "ok" => /\ boot.url = LatestLink(boot.p, c)
                            /\ Issued(boot.p, boot.url)
                            /\ boot.url # w.r.url
  BY <1>1, BootstrapLinks
<1> DEFINE w1 == [w EXCEPT !.p = boot.p]
<1>5. WorkInv(u, w1) /\ w1.r = w.r /\ w1.p = boot.p
  BY <1>3, PlatformChanges
<1>6. Issued(w1.p, w1.r.url)
  BY <1>4, <1>5, GrowsOn
<1> HIDE DEF w1
<1>7. CASE boot.res = "ok"
  <2>1. o \in AfterBootstrap(w, c, boot, w.r.url)
    BY <1>2, <1>7
  <2> QED BY <1>3, <1>4, <1>7, <2>1, AfterBootstrapDelivers
<1>8. CASE boot.res = "soft"
  <2>1. o \in RecoverBootstrap(w1, i, w1.r.conn, w1.r.url)
    BY <1>2, <1>5, <1>8 DEF w1
  <2>2. Delivers(w1, o)
    BY <1>5, <1>6, <2>1, RecoverBootstrapDelivers
  <2> QED BY <1>4, <1>5, <2>2, GrowsOn DEF Delivers
<1>9. CASE boot.res = "hard"
  <2>1. o = Raise(w1)
    BY <1>2, <1>9 DEF w1
  <2> QED BY <1>4, <1>5, <2>1 DEF Raise, Delivers
<1> QED BY <1>3, <1>7, <1>8, <1>9

(* A row that waits already is polled; if the poll brings no other link    *)
(* than the one known, a new one is minted and mailed.                     *)
LEMMA ProvisionDelivers ==
  ASSUME RequireVerified, NEW u, NEW w, WorkInv(u, w), w.r.email # None,
         w.r.st \notin {"absent", "ready"}, Issued(w.p, w.r.url),
         w.r.conn \in Conns, NEW i \in Identities, i = Contact(u, w.r),
         NEW o \in Provision(w, i, w.r.conn)
  PROVE  Delivers(w, o)
<1> DEFINE c == w.r.conn
<1>1. CASE w.r.st # "awaiting_claim"
  BY <1>1, BootstrapWithRecoveryDelivers DEF Provision
<1>2. CASE w.r.st = "awaiting_claim"
  <2>1. PICK q \in RefreshHostedUserClaimState(w) :
          o \in IF ~q.ok THEN {q}
                ELSE UNION {IF \/ v.r.st = "ready"
                               \/ v.r.url # None /\ v.r.url # w.r.url
                            THEN {Commit(v)}
                            ELSE IF v.r.agent # None /\ v.r.conn # None
                            THEN ReissueAndMail(v, c, v.r.url)
                            ELSE BootstrapWithRecovery(v, i, c, w.r.url)
                            : v \in HostedMaybeMailClaimInvite(q.w, w.r.url)}
    BY <1>2 DEF Provision
  <2>2. Keeps(u, w, q) /\ q.w.r.st \in Provisioned /\ q.w.r.conn = c
    BY <1>2, RefreshKeeps DEF Provisioned
  <2>3. /\ q.w.p = w.p
        /\ \/ q.w.r.url = w.r.url
           \/ q.w.r.url = LatestLink(w.p, w.r.conn)
        /\ Grows(w.p, q.w.p) /\ Issued(q.w.p, q.w.r.url)
    BY RefreshLinks, RefreshDelivers
  <2>4. CASE ~q.ok
    BY <2>1, <2>3, <2>4 DEF Delivers
  <2>5. CASE q.ok
    <3>1. PICK v \in HostedMaybeMailClaimInvite(q.w, w.r.url) :
            o \in IF \/ v.r.st = "ready"
                     \/ v.r.url # None /\ v.r.url # w.r.url
                  THEN {Commit(v)}
                  ELSE IF v.r.agent # None /\ v.r.conn # None
                  THEN ReissueAndMail(v, c, v.r.url)
                  ELSE BootstrapWithRecovery(v, i, c, w.r.url)
      BY <2>1, <2>5
    <3>2. /\ WorkInv(u, v) /\ v.r.email # None /\ v.r.email = w.r.email
          /\ v.r.st \in Provisioned /\ v.r.url # None
          /\ v.r.conn = c /\ v.r.url = q.w.r.url /\ v.p = q.w.p /\ v.r.st = q.w.r.st
      <4>1. WorkInv(u, q.w) /\ q.w.r.email = w.r.email
        BY <2>2 DEF Keeps
      <4>2. /\ WorkInv(u, v) /\ v.p = q.w.p /\ v.r.st = q.w.r.st
            /\ v.r.email = q.w.r.email /\ v.r.conn = q.w.r.conn /\ v.r.url = q.w.r.url
        BY <4>1, MailKeeps
      <4>3. v.r.url # None
        BY <2>2, <4>2 DEF WorkInv
      <4> QED BY <2>2, <4>1, <4>2, <4>3
    <3>3. i = Contact(u, v.r)
      BY <3>2 DEF Contact
    <3>4. v.r.st = "awaiting_claim" /\ v.r.url # w.r.url => v.r.url \in v.mails
      BY <2>2, <3>2, MailLinks DEF Keeps
    <3>5. CASE /\ v.r.st = "ready" \/ v.r.url # w.r.url
               /\ o = Commit(v)
      <4>1. Newest(v)
        BY <2>3, <3>2, <3>4, <3>5 DEF Newest
      <4> QED BY <2>3, <3>2, <3>5, <4>1 DEF Commit, Delivers
    <3>6. CASE v.r.st # "ready" /\ o \in ReissueAndMail(v, c, v.r.url)
      <4>1. Delivers(v, o)
        BY <2>3, <3>2, <3>6, ReissueAndMailDelivers DEF Provisioned
      <4> QED BY <2>3, <3>2, <4>1 DEF Delivers
    <3>7. CASE v.r.st # "ready" /\ v.r.url = w.r.url /\ o \in BootstrapWithRecovery(v, i, c, w.r.url)
      <4>1. Delivers(v, o)
        BY <2>3, <3>2, <3>3, <3>7, BootstrapWithRecoveryDelivers DEF Provisioned
      <4> QED BY <2>3, <3>2, <4>1 DEF Delivers
    <3> QED BY <3>1, <3>2, <3>5, <3>6, <3>7
  <2> QED BY <2>4, <2>5
<1> QED BY <1>1, <1>2

LEMMA EnsureDelivers ==
  ASSUME RequireVerified, NEW u \in Users, NEW w, WorkInv(u, w), Issued(w.p, w.r.url),
         NEW o \in EnsureTelegramUserProvisioned(u, w)
  PROVE  Delivers(w, o)
<1>1. /\ w \in [r: Rows, p: Platforms, mails: SUBSET Links]
      /\ w.r \in Rows /\ w.p \in Platforms
  BY DEF WorkInv, Works
<1> DEFINE i  == Contact(u, w.r)
           p1 == Upserted(w.p, i)
           c  == CurrentConn(p1, i)
           r1 == IF w.r.st = "email_verified" /\ RequireVerified
                 THEN [w.r EXCEPT !.conn = c] ELSE w.r
           w1 == [w EXCEPT !.p = p1, !.r = r1]
<1>2. i \in Identities
  BY <1>1 DEF Contact, Identities, Rows
<1>3. /\ p1 \in Platforms /\ p1.claimed = w.p.claimed /\ p1.link = w.p.link
      /\ c \in Conns /\ c[1] = i
  BY <1>1, <1>2, UpsertedType, UpsertedLinks
<1>4. Grows(w.p, w.p) /\ Grows(w.p, p1)
  <2> HIDE DEF p1
  <2> QED BY <1>1, <1>3, GrowsOn DEF Grows
<1>5. CASE o = Raise(w)
  BY <1>4, <1>5 DEF Raise, Delivers
<1>6. CASE o = Raise([w EXCEPT !.p = p1])
  <2>1. [w EXCEPT !.p = p1].p = p1
    BY <1>1
  <2> HIDE DEF p1
  <2> QED BY <1>4, <1>6, <2>1 DEF Raise, Delivers
<1>7. CASE AlreadyProvisioned(w.r) /\ o = Commit(w)
  BY <1>4, <1>7 DEF AlreadyProvisioned, Commit, Delivers, Newest
<1>8. CASE /\ w.r.email # None /\ ~AwaitsEmail(w.r) /\ ~AlreadyProvisioned(w.r)
           /\ w.r.conn # None /\ o \in Provision(w, i, w.r.conn)
  <2>1. w.r.st \notin {"absent", "ready"}
    BY <1>8 DEF AlreadyProvisioned, AwaitsEmail, WorkInv, Provisioned
  <2>2. w.r.conn \in Conns
    BY <1>1, <1>8 DEF Rows
  <2> QED BY <1>2, <1>8, <2>1, <2>2, ProvisionDelivers
<1>9. CASE /\ w.r.email # None /\ ~AwaitsEmail(w.r) /\ w.r.conn = None
           /\ o \in Provision(w1, i, c)
  <2>1. w.r.st = "email_verified"
    BY <1>1, <1>9 DEF AwaitsEmail, WorkInv, Provisioned, Rows, States
  <2> HIDE DEF p1, c, i
  <2>2. /\ r1 \in Rows /\ r1.st = w.r.st /\ r1.email = w.r.email /\ r1.url = w.r.url
        /\ r1.agent = w.r.agent /\ r1.conn = c
    BY <1>1, <1>3, <2>1 DEF Rows
  <2>3. w1 \in Works /\ w1.r = r1 /\ w1.p = p1
    <3> HIDE DEF r1
    <3> QED BY <1>1, <1>3, <2>2 DEF Works
  <2> HIDE DEF r1, w1
  <2>4. i = Contact(u, w.r)
    BY DEF i
  <2>5. WorkInv(u, w1) /\ i = Contact(u, w1.r) /\ w1.r.conn = c
    BY <1>3, <2>1, <2>2, <2>3, <2>4 DEF WorkInv, Contact, Provisioned
  <2>6. Issued(w1.p, w1.r.url)
    BY <1>4, <2>2, <2>3, GrowsOn
  <2>7. w1.r.st \notin {"absent", "ready"} /\ o \in Provision(w1, i, w1.r.conn)
    BY <1>9, <2>1, <2>2, <2>3, <2>5
  <2>8. Delivers(w1, o)
    BY <1>2, <1>3, <1>9, <2>2, <2>3, <2>5, <2>6, <2>7, ProvisionDelivers
  <2> QED BY <1>4, <2>3, <2>8, GrowsOn DEF Delivers
<1> QED BY <1>5, <1>6, <1>7, <1>8, <1>9 DEF EnsureTelegramUserProvisioned

(* The poll after provisioning finds the link that was just mailed.        *)
LEMMA EnsureAndRefreshDelivers ==
  ASSUME RequireVerified, NEW u \in Users, NEW w, WorkInv(u, w), Issued(w.p, w.r.url),
         NEW o \in EnsureAndRefresh(u, w)
  PROVE  Delivers(w, o)
<1>1. PICK o1 \in EnsureTelegramUserProvisioned(u, w) :
        o \in IF o1.ok THEN {Commit(q.w) : q \in RefreshHostedUserClaimState(o1.w)} ELSE {o1}
  BY DEF EnsureAndRefresh
<1>2. Keeps(u, w, o1) /\ Delivers(w, o1)
  BY EnsureKeeps, EnsureDelivers
<1>3. CASE ~o1.ok
  BY <1>1, <1>2, <1>3
<1>4. CASE o1.ok
  <2>1. PICK q \in RefreshHostedUserClaimState(o1.w) : o = Commit(q.w)
    BY <1>1, <1>4
  <2>2. /\ Grows(o1.w.p, q.w.p) /\ Issued(q.w.p, q.w.r.url)
        /\ Newest(o1.w) => Newest(q.w)
    BY <1>2, <1>4, RefreshDelivers DEF Keeps, Delivers
  <2>3. o.w = q.w
    BY <2>1 DEF Commit
  <2> QED BY <1>2, <1>4, <2>2, <2>3, GrowsOn DEF Delivers
<1> QED BY <1>3, <1>4
-----------------------------------------------------------------------------

RowInv(u) ==
  /\ WorkInv(u, Work(u, row[u]))
  /\ IF AwaitsEmail(row[u])
     THEN row[u].conn = None /\ row[u].url = None /\ row[u].email = None
     ELSE row[u].st \in Provisioned
  /\ RequireVerified => (row[u].st \in Provisioned => row[u].email # None)
  /\ ~RequireVerified => row[u].email = None /\ row[u].st \in {"absent"} \cup Provisioned
  /\ otp[u] # None <=> row[u].st = "awaiting_email_verification"

IInv == TypeOK /\ VerifiedEmailUnique /\ \A u \in Users : RowInv(u)

-----------------------------------------------------------------------------
LEMMA InitIInv == Init => IInv
<1> SUFFICES ASSUME Init PROVE IInv
  OBVIOUS
<1>1. NoRow \in Rows
  BY DEF NoRow, Rows, States
<1>2. plat \in Platforms
  BY ProvisionAssumption DEF Init, Platforms
<1>3. TypeOK
  BY <1>1, <1>2, AttemptsAssumption DEF Init, TypeOK
<1>4. VerifiedEmailUnique
  BY DEF Init, VerifiedEmailUnique, NoRow
<1>5. ASSUME NEW u \in Users PROVE RowInv(u)
  <2>1. row[u] = NoRow /\ otp[u] = None /\ mails[u] = {}
    BY DEF Init
  <2>2. /\ Work(u, row[u]) \in Works /\ Work(u, row[u]).r = NoRow
        /\ Work(u, row[u]).p = plat
    BY <1>1, <1>2, <2>1 DEF Work, Works
  <2> QED BY <2>1, <2>2 DEF RowInv, WorkInv, AwaitsEmail, NoRow, Provisioned
<1> QED BY <1>3, <1>4, <1>5 DEF IInv

-----------------------------------------------------------------------------
(* A step that does not touch a row and loses no claim keeps its RowInv.   *)
LEMMA RowUntouched ==
  ASSUME NEW u \in Users, RowInv(u), row'[u] = row[u], otp'[u] = otp[u],
         mails'[u] \subseteq Links, plat' \in Platforms, plat.claimed \subseteq plat'.claimed
  PROVE  RowInv(u)'
<1>1. Work(u, row[u]).r = row[u] /\ Work(u, row[u]).p = plat
  BY DEF Work
<1>2. row[u] \in Rows
  BY <1>1 DEF RowInv, WorkInv, Works
<1>3. /\ Work(u, row[u])' \in Works /\ Work(u, row[u])'.r = row[u]
      /\ Work(u, row[u])'.p = plat'
  BY <1>2 DEF Work, Works
<1>4. WorkInv(u, Work(u, row[u]))'
  BY <1>1, <1>3 DEF RowInv, WorkInv
<1> QED BY <1>4 DEF RowInv

(* The transaction a handler opens on a row r of its own making.           *)
LEMMA OpenWork ==
  ASSUME TypeOK, NEW u \in Users, NEW r \in Rows, r.agent = None, r.url = None, r.conn = None,
         r.st \notin Provisioned
  PROVE  WorkInv(u, Work(u, r))
<1>1. Work(u, r) \in Works /\ Work(u, r).r = r /\ Work(u, r).p = plat
  BY DEF Work, Works, TypeOK
<1> QED BY <1>1 DEF WorkInv, Provisioned

(* The effects of a transaction outside its row.                           *)
LEMMA ExternalEffects ==
  ASSUME TypeOK, NEW u \in Users, NEW r, NEW o, Keeps(u, Work(u, r), o), External(u, o)
  PROVE  /\ plat' \in Platforms /\ plat'.claimed = plat.claimed
         /\ mails' \in [Users -> SUBSET Links]
         /\ mails'[u] = o.w.mails
<1>1. o.w \in [r: Rows, p: Platforms, mails: SUBSET Links]
  BY DEF Keeps, WorkInv, Works
<1>2. Work(u, r).p = plat
  BY DEF Work
<1> QED BY <1>1, <1>2 DEF External, Keeps, TypeOK

(* A committed transaction whose row is provisioned.                       *)
LEMMA CommittedRow ==
  ASSUME IInv, NEW u \in Users, NEW r, NEW o, Keeps(u, Work(u, r), o), CommitRow(u, o),
         o.w.r.st \in Provisioned,
         IF RequireVerified THEN r.email # None ELSE r.email = None,
         otp'[u] = None
  PROVE  row' \in [Users -> Rows] /\ RowInv(u)'
<1>1. o.w \in [r: Rows, p: Platforms, mails: SUBSET Links] /\ o.w.r \in Rows
  BY DEF Keeps, WorkInv, Works
<1>2. /\ row' = [row EXCEPT ![u] = o.w.r] /\ plat' = o.w.p
      /\ mails' = [mails EXCEPT ![u] = o.w.mails]
  BY DEF CommitRow, External
<1>3. row' \in [Users -> Rows] /\ row'[u] = o.w.r /\ mails'[u] = o.w.mails
  BY <1>1, <1>2 DEF IInv, TypeOK
<1>4. o.w.r.email = r.email
  BY DEF Keeps, Work
<1>5. Work(u, row[u])' = [r |-> o.w.r, p |-> o.w.p, mails |-> o.w.mails]
  BY <1>2, <1>3 DEF Work
<1>6. Work(u, row[u])' = o.w
  BY <1>1, <1>5
<1>7. WorkInv(u, Work(u, row[u]))'
  <2>1. WorkInv(u, o.w)
    BY DEF Keeps
  <2> QED BY <1>6, <2>1 DEF WorkInv, Contact
<1> QED BY <1>3, <1>4, <1>7 DEF RowInv, AwaitsEmail, Provisioned

(* Every outcome of a /start.                                              *)
LEMMA StartKeeps ==
  ASSUME IInv, NEW u \in Users, NEW o \in StartOutcomes(u)
  PROVE  LET r == EnsureHostedTelegramRow(row[u])
         IN  /\ r.email = row[u].email
             /\ r.st # "awaiting_email_verification" => otp[u] = None
             /\ Keeps(u, Work(u, r), o)
             /\ IF RequireVerified /\ AwaitsEmail(r)
                THEN o.ok = TRUE /\ o.w = Work(u, r) /\ r.st # "absent"
                ELSE Done(o)
<1> DEFINE r == EnsureHostedTelegramRow(row[u])
           w == Work(u, r)
<1>1. row[u] \in Rows /\ RowInv(u)
  BY DEF IInv, TypeOK
<1>2. WorkInv(u, w) /\ r.email = row[u].email
      /\ (r.st # "awaiting_email_verification" => otp[u] = None)
      /\ (RequireVerified => r.st # "absent")
  <2>1. CASE r = row[u] /\ (RequireVerified => r.st # "absent")
    BY <1>1, <2>1 DEF RowInv
  <2>2. CASE row[u].st = "absent" /\ r = [row[u] EXCEPT !.st = "awaiting_email"]
    <3>1. /\ r \in Rows /\ r.st = "awaiting_email" /\ r.email = row[u].email
          /\ r.agent = row[u].agent /\ r.url = row[u].url /\ r.conn = row[u].conn
      BY <1>1, <2>2 DEF Rows, States
    <3>2. row[u].agent = None /\ row[u].url = None /\ row[u].conn = None /\ otp[u] = None
      BY <1>1, <2>2 DEF RowInv, WorkInv, Work, AwaitsEmail, Provisioned
    <3> HIDE DEF r
    <3> QED BY <3>1, <3>2, OpenWork DEF IInv, Provisioned
  <2> QED BY <2>1, <2>2 DEF EnsureHostedTelegramRow
<1>3. StartOutcomes(u) = IF RequireVerified /\ AwaitsEmail(r) THEN {Commit(w)}
                         ELSE EnsureAndRefresh(u, w)
  <2>1. w.r = r
    BY DEF Work
  <2> QED BY <2>1 DEF StartOutcomes
<1> HIDE DEF r, w
<1>4. CASE RequireVerified /\ AwaitsEmail(r)
  <2>1. o.ok = TRUE /\ o.w = w
    BY <1>3, <1>4 DEF Commit
  <2>2. Keeps(u, w, o)
    BY <1>2, <2>1 DEF Keeps
  <2> QED BY <1>2, <1>4, <2>1, <2>2 DEF r, w
<1>5. CASE ~(RequireVerified /\ AwaitsEmail(r))
  <2>1. Keeps(u, w, o) /\ Done(o)
    BY <1>2, <1>3, <1>5, EnsureAndRefreshKeeps
  <2> QED BY <1>2, <1>5, <2>1 DEF r, w
<1> QED BY <1>4, <1>5

LEMMA StartPreserves ==
  ASSUME IInv, NEW u \in Users, Start(u)
  PROVE  IInv'
<1> DEFINE r == EnsureHostedTelegramRow(row[u])
<1>1. PICK o \in StartOutcomes(u) : CommitRow(u, o) \/ Rollback(u, o)
  BY DEF Start
<1>2. /\ Keeps(u, Work(u, r), o) /\ r.email = row[u].email
      /\ r.st # "awaiting_email_verification" => otp[u] = None
      /\ IF RequireVerified /\ AwaitsEmail(r)
         THEN o.ok = TRUE /\ o.w = Work(u, r) /\ r.st # "absent"
         ELSE Done(o)
  BY StartKeeps
<1>3. External(u, o)
  BY <1>1 DEF CommitRow, Rollback
<1>4. /\ plat' \in Platforms /\ plat'.claimed = plat.claimed
      /\ mails' \in [Users -> SUBSET Links] /\ mails'[u] = o.w.mails
  BY <1>2, <1>3, ExternalEffects DEF IInv
<1>5. UNCHANGED <<otp, syncing, guesses>>
  BY DEF Start, IInv, TypeOK
<1> HIDE DEF r
<1>6. ASSUME NEW v \in Users, row'[v] = row[v] PROVE RowInv(v)'
  BY <1>4, <1>5, <1>6, RowUntouched DEF IInv
<1>7. CASE row' = row
  <2>1. TypeOK'
    BY <1>4, <1>5, <1>7 DEF IInv, TypeOK
  <2> QED BY <1>6, <1>7, <2>1 DEF IInv, VerifiedEmailUnique
<1>8. CASE CommitRow(u, o)
  <2>1. row' = [row EXCEPT ![u] = o.w.r] /\ o.w.r \in Rows /\ o.w.r.email = row[u].email
    BY <1>2, <1>8 DEF CommitRow, Keeps, WorkInv, Works, Work
  <2>2. row' \in [Users -> Rows] /\ VerifiedEmailUnique'
    BY <2>1 DEF IInv, TypeOK, VerifiedEmailUnique
  <2>3. TypeOK'
    BY <1>4, <1>5, <2>2 DEF IInv, TypeOK
  <2>4. RowInv(u)'
    <3>1. CASE r = row[u] /\ AwaitsEmail(r) /\ RequireVerified
      BY <1>2, <1>6, <2>1, <3>1 DEF Work, IInv, TypeOK
    <3>2. CASE /\ row[u].st = "absent" /\ RequireVerified
               /\ r = [row[u] EXCEPT !.st = "awaiting_email"]
      <4>1. /\ r \in Rows /\ r.st = "awaiting_email" /\ r.email = row[u].email
            /\ r.agent = row[u].agent /\ r.url = row[u].url /\ r.conn = row[u].conn
        BY <3>2 DEF IInv, TypeOK, Rows, States
      <4>2. /\ row[u].agent = None /\ row[u].url = None /\ row[u].conn = None
            /\ row[u].email = None /\ otp[u] = None
        BY <3>2 DEF IInv, RowInv, WorkInv, Work, AwaitsEmail, Provisioned
      <4>3. o.w = Work(u, r)
        BY <1>2, <3>2, <4>1 DEF AwaitsEmail
      <4>4. row'[u] = r
        BY <2>1, <4>3 DEF Work, IInv, TypeOK
      <4>5. WorkInv(u, Work(u, row[u]))'
        <5>1. /\ Work(u, row[u])' \in Works /\ Work(u, row[u])'.r = r
          BY <1>4, <4>1, <4>4 DEF Work, Works
        <5> QED BY <4>1, <4>2, <5>1 DEF WorkInv, Provisioned
      <4> QED BY <1>5, <3>2, <4>1, <4>2, <4>4, <4>5 DEF RowInv, AwaitsEmail, Provisioned
    <3>3. CASE ~(RequireVerified /\ AwaitsEmail(r)) /\ r = row[u]
      <4>1. IF RequireVerified THEN r.email # None ELSE r.email = None
        BY <3>3 DEF IInv, RowInv
      <4>2. otp'[u] = None
        BY <1>5, <3>3 DEF IInv, RowInv, AwaitsEmail, Provisioned
      <4>3. o.w.r.st \in Provisioned
        BY <1>2, <1>8, <3>3 DEF Done, CommitRow
      <4> QED BY <1>2, <1>8, <4>1, <4>2, <4>3, CommittedRow
    <3> QED BY <3>1, <3>2, <3>3 DEF EnsureHostedTelegramRow, r, AwaitsEmail
  <2>5. ASSUME NEW v \in Users, v # u PROVE row'[v] = row[v]
    BY <2>1, <2>5 DEF IInv, TypeOK
  <2> QED BY <1>6, <2>2, <2>3, <2>4, <2>5 DEF IInv
<1> QED BY <1>1, <1>7, <1>8 DEF Rollback

(* A row that is sent back, or on, within the email states.                *)
LEMMA EmailStatePreserves ==
  ASSUME IInv, RequireVerified, NEW u \in Users, row[u].st # "absent",
         row[u].st \notin Provisioned,
         NEW st \in {"awaiting_email", "awaiting_email_verification"},
         row' = [row EXCEPT ![u] = [row[u] EXCEPT !.st = st, !.email = None]],
         otp' \in [Users -> Otps \cup {None}],
         otp'[u] # None <=> st = "awaiting_email_verification",
         \A v \in Users \ {u} : otp'[v] = otp[v],
         guesses' \in [Users -> 0..(MaxAttempts + 1)],
         UNCHANGED <<plat, mails, syncing>>
  PROVE  IInv'
<1> DEFINE r == [row[u] EXCEPT !.st = st, !.email = None]
<1>1. /\ r \in Rows /\ r.st = st /\ r.email = None /\ r.agent = row[u].agent
      /\ r.url = row[u].url /\ r.conn = row[u].conn
  <2>1. row[u] \in Rows /\ st \in States
    BY DEF IInv, TypeOK, States
  <2>2. /\ r.st = st /\ r.email = None /\ r.agent = row[u].agent
        /\ r.url = row[u].url /\ r.conn = row[u].conn
    BY <2>1 DEF Rows
  <2>3. r \in Rows
    BY <2>1 DEF Rows
  <2> QED BY <2>2, <2>3
<1>2. row[u].agent = None /\ row[u].url = None /\ row[u].conn = None
  BY DEF IInv, RowInv, WorkInv, Work
<1> HIDE DEF r
<1>3. row' = [row EXCEPT ![u] = r]
  BY DEF r
<1>4. row' \in [Users -> Rows] /\ row'[u] = r /\ \A v \in Users \ {u} : row'[v] = row[v]
  BY <1>1, <1>3 DEF IInv, TypeOK
<1>5. TypeOK'
  BY <1>4 DEF IInv, TypeOK
<1>6. VerifiedEmailUnique'
  BY <1>1, <1>4 DEF IInv, VerifiedEmailUnique
<1>7. RowInv(u)'
  <2>1. WorkInv(u, Work(u, row[u]))'
    <3>1. Work(u, row[u])' \in Works /\ Work(u, row[u])'.r = r
      BY <1>1, <1>4 DEF Work, Works, IInv, TypeOK
    <3> QED BY <1>1, <1>2, <3>1 DEF WorkInv, Provisioned
  <2> QED BY <1>1, <1>2, <1>4, <2>1 DEF RowInv, AwaitsEmail, Provisioned
<1>8. ASSUME NEW v \in Users \ {u} PROVE RowInv(v)'
  BY <1>4, RowUntouched DEF IInv, TypeOK
<1> QED BY <1>5, <1>6, <1>7, <1>8 DEF IInv

LEMMA StartEmailVerificationPreserves ==
  ASSUME IInv, NEW u \in Users, NEW e \in Emails, StartEmailVerification(u, e)
  PROVE  IInv'
<1> DEFINE o == [email |-> e, expired |-> FALSE, attempts |-> 0]
<1>1. o \in Otps /\ o # None
  <2>1. 0 \in 0..MaxAttempts
    BY AttemptsAssumption
  <2>2. o \in Otps
    BY <2>1 DEF Otps
  <2> QED BY <2>2, AttemptsAssumption, Zenon
<1>2. row[u].st = "awaiting_email" /\ RowInv(u) /\ row[u] \in Rows
  BY DEF StartEmailVerification, IInv, TypeOK
<1>3. RequireVerified /\ row[u].email = None
  BY <1>2, ProvisionAssumption DEF RowInv, AwaitsEmail, Provisioned
<1>4. row' = [row EXCEPT ![u] = [row[u] EXCEPT !.st = "awaiting_email_verification",
                                               !.email = None]]
  <2>1. [row[u] EXCEPT !.st = "awaiting_email_verification", !.email = None]
          = [row[u] EXCEPT !.st = "awaiting_email_verification"]
    BY <1>2, <1>3 DEF Rows
  <2> QED BY <2>1 DEF StartEmailVerification
<1> HIDE DEF o
<1>5. otp' = [otp EXCEPT ![u] = o] /\ guesses' = [guesses EXCEPT ![u] = 0]
      /\ UNCHANGED <<plat, mails, syncing>>
  BY DEF StartEmailVerification, o
<1>6. /\ otp' \in [Users -> Otps \cup {None}] /\ otp'[u] # None
      /\ \A v \in Users \ {u} : otp'[v] = otp[v]
  BY <1>1, <1>5 DEF IInv, TypeOK
<1>7. /\ guesses' \in [Users -> 0..(MaxAttempts + 1)]
  BY <1>5, AttemptsAssumption DEF IInv, TypeOK
<1> QED BY <1>2, <1>3, <1>4, <1>5, <1>6, <1>7, EmailStatePreserves DEF Provisioned

LEMMA CancelHostedPreserves ==
  ASSUME IInv, NEW u \in Users, CancelHosted(u)
  PROVE  IInv'
<1>1. row' = [row EXCEPT ![u] = [row[u] EXCEPT !.st = "awaiting_email", !.email = None]]
  BY DEF CancelHosted
<1>2. /\ RequireVerified /\ row[u].st # "absent" /\ row[u].st \notin Provisioned
      /\ UNCHANGED <<plat, mails, syncing>>
  BY DEF CancelHosted, Provisioned
<1>3. /\ otp' \in [Users -> Otps \cup {None}] /\ otp'[u] = None
      /\ \A v \in Users \ {u} : otp'[v] = otp[v]
      /\ guesses' \in [Users -> 0..(MaxAttempts + 1)]
  BY AttemptsAssumption DEF CancelHosted, IInv, TypeOK
<1> QED BY <1>1, <1>2, <1>3, EmailStatePreserves

LEMMA RejectCodePreserves ==
  ASSUME IInv, NEW u \in Users, NEW code \in Codes, RejectCode(u, code)
  PROVE  IInv'
<1>1. UNCHANGED <<row, otp, plat, mails, syncing>>
  BY DEF RejectCode
<1>3. guesses' \in [Users -> 0..(MaxAttempts + 1)]
  <2>1. CASE guesses' = guesses
    BY <2>1 DEF IInv, TypeOK
  <2>2. CASE guesses[u] <= MaxAttempts /\ guesses' = [guesses EXCEPT ![u] = @ + 1]
    BY <2>2, AttemptsAssumption DEF IInv, TypeOK
  <2> QED BY <2>1, <2>2 DEF RejectCode
<1>4. TypeOK'
  BY <1>1, <1>3 DEF IInv, TypeOK
<1>5. ASSUME NEW v \in Users PROVE RowInv(v)'
  BY <1>1, RowUntouched DEF IInv, TypeOK
<1> QED BY <1>1, <1>4, <1>5 DEF IInv, VerifiedEmailUnique

(* A right code: only a free inbox is written, and what provisioning then  *)
(* leaves to commit is a provisioned row.                                  *)
LEMMA AcceptCodePreserves ==
  ASSUME IInv, NEW u \in Users, NEW code \in Codes, AcceptCode(u, code)
  PROVE  IInv'
<1> DEFINE r == [row[u] EXCEPT !.st = "email_verified", !.email = otp[u].email]
           s == ConfirmEmailVerification(u, code)
<1>1. row[u].st = "awaiting_email_verification" /\ s.error = "none"
  BY DEF AcceptCode
<1>2. /\ s.r = r /\ s.otp = None /\ otp[u] # None
      /\ ~VerifiedEmailAlreadyTaken(u, otp[u].email)
  BY <1>1 DEF ConfirmEmailVerification, Session
<1>3. otp[u] \in Otps /\ otp[u].email \in Emails /\ otp[u].email # None
  BY <1>2, ProvisionAssumption DEF IInv, TypeOK, Otps, Identities
<1>4. RequireVerified
  BY <1>1, ProvisionAssumption DEF IInv, RowInv, Provisioned
<1>5. /\ r \in Rows /\ r.st = "email_verified" /\ r.email = otp[u].email
      /\ r.agent = row[u].agent /\ r.url = row[u].url /\ r.conn = row[u].conn
  <2>1. row[u] \in Rows
    BY DEF IInv, TypeOK
  <2>2. r \in Rows
    BY <1>3, <2>1 DEF Rows, States
  <2> QED BY <2>1, <2>2 DEF Rows
<1>6. row[u].agent = None /\ row[u].url = None /\ row[u].conn = None
  BY <1>1 DEF IInv, RowInv, WorkInv, Work, AwaitsEmail, Provisioned
<1>7. PICK o \in EnsureAndRefresh(u, Work(u, s.r)) :
        \/ /\ CommitRow(u, o) /\ otp' = [otp EXCEPT ![u] = s.otp]
           /\ guesses' = [guesses EXCEPT ![u] = 0]
        \/ Rollback(u, o) /\ UNCHANGED <<otp, guesses>>
  BY DEF AcceptCode
<1>8. syncing' = syncing
  BY DEF AcceptCode, IInv, TypeOK
<1> HIDE DEF r, s
<1>9. Keeps(u, Work(u, r), o) /\ Done(o)
  BY <1>2, <1>5, <1>6, <1>7, OpenWork, EnsureAndRefreshKeeps DEF IInv, Provisioned
<1>10. /\ plat' \in Platforms /\ plat'.claimed = plat.claimed
       /\ mails' \in [Users -> SUBSET Links]
  BY <1>7, <1>9, ExternalEffects DEF IInv, CommitRow, Rollback
<1>11. ASSUME NEW v \in Users, row'[v] = row[v], otp'[v] = otp[v] PROVE RowInv(v)'
  BY <1>10, <1>11, RowUntouched DEF IInv
<1>12. CASE Rollback(u, o) /\ UNCHANGED <<otp, guesses>>
  <2>1. TypeOK'
    BY <1>8, <1>10, <1>12 DEF IInv, TypeOK, Rollback
  <2> QED BY <1>11, <1>12, <2>1 DEF IInv, VerifiedEmailUnique, Rollback
<1>13. CASE /\ CommitRow(u, o) /\ otp' = [otp EXCEPT ![u] = None]
            /\ guesses' = [guesses EXCEPT ![u] = 0]
  <2>1. otp' \in [Users -> Otps \cup {None}] /\ otp'[u] = None
    BY <1>13 DEF IInv, TypeOK
  <2>2. row' \in [Users -> Rows] /\ RowInv(u)'
    BY <1>3, <1>4, <1>5, <1>9, <1>13, <2>1, CommittedRow DEF Done, CommitRow
  <2>3. guesses' \in [Users -> 0..(MaxAttempts + 1)]
    BY <1>13, AttemptsAssumption DEF IInv, TypeOK
  <2>4. TypeOK'
    BY <1>8, <1>10, <2>1, <2>2, <2>3 DEF IInv, TypeOK
  <2>5. row' = [row EXCEPT ![u] = o.w.r] /\ o.w.r.email = otp[u].email
    BY <1>5, <1>9, <1>13 DEF CommitRow, Keeps, Work
  <2>6. VerifiedEmailUnique'
    <3>1. \A v \in Users \ {u} : row[v].email # otp[u].email
      BY <1>2 DEF VerifiedEmailAlreadyTaken
    <3> QED BY <2>5, <3>1 DEF IInv, TypeOK, VerifiedEmailUnique
  <2>7. ASSUME NEW v \in Users \ {u} PROVE row'[v] = row[v] /\ otp'[v] = otp[v]
    BY <1>13, <2>5 DEF IInv, TypeOK
  <2> QED BY <1>11, <2>2, <2>4, <2>6, <2>7 DEF IInv
<1> QED BY <1>2, <1>7, <1>12, <1>13

(* The gate meets provisioned rows only.                                   *)
LEMMA HostedUserMustFinishClaimPreserves ==
  ASSUME IInv, NEW u \in Users, HostedUserMustFinishClaim(u)
  PROVE  IInv'
<1> DEFINE r == row[u]
<1>1. PICK o \in RefreshHostedUserClaimState(Work(u, r)) : CommitRow(u, o)
  BY DEF HostedUserMustFinishClaim
<1>2. /\ RowInv(u) /\ r \in Rows /\ r.st \in Provisioned
      /\ IF RequireVerified THEN r.email # None ELSE r.email = None
  BY DEF HostedUserMustFinishClaim, IInv, TypeOK, RowInv
<1>3. Keeps(u, Work(u, r), o) /\ o.w.r.st \in Provisioned
  <2>1. Work(u, r).r = r
    BY DEF Work
  <2> QED BY <1>1, <1>2, <2>1, RefreshKeeps DEF RowInv, Provisioned
<1>4. UNCHANGED <<otp, syncing, guesses>>
  BY DEF HostedUserMustFinishClaim, IInv, TypeOK
<1>5. otp'[u] = None
  BY <1>2, <1>4 DEF RowInv, Provisioned
<1>6. /\ plat' \in Platforms /\ plat'.claimed = plat.claimed
      /\ mails' \in [Users -> SUBSET Links]
  BY <1>1, <1>3, ExternalEffects DEF IInv, CommitRow
<1>7. row' \in [Users -> Rows] /\ RowInv(u)'
  BY <1>1, <1>2, <1>3, <1>5, CommittedRow
<1>8. TypeOK'
  BY <1>4, <1>6, <1>7 DEF IInv, TypeOK
<1>9. row' = [row EXCEPT ![u] = o.w.r] /\ o.w.r.email = row[u].email
  BY <1>1, <1>3 DEF CommitRow, Keeps, Work
<1>10. VerifiedEmailUnique'
  BY <1>9 DEF IInv, TypeOK, VerifiedEmailUnique
<1>11. ASSUME NEW v \in Users \ {u} PROVE RowInv(v)'
  <2>1. row'[v] = row[v]
    BY <1>9 DEF IInv, TypeOK
  <2> QED BY <1>4, <1>6, <2>1, RowUntouched DEF IInv
<1> QED BY <1>7, <1>8, <1>10, <1>11 DEF IInv

(* A write of the wallet or of the time of the last mail.                  *)
LEMMA SideFieldPreserves ==
  ASSUME IInv, NEW u \in Users, NEW r \in Rows, row' = [row EXCEPT ![u] = r],
         r.st = row[u].st, r.email = row[u].email, r.conn = row[u].conn,
         r.url = row[u].url, r.agent = row[u].agent,
         syncing' \in [Users -> Conns \cup {None}],
         UNCHANGED <<otp, plat, mails, guesses>>
  PROVE  IInv'
<1>1. /\ row' \in [Users -> Rows] /\ row'[u] = r
      /\ \A v \in Users \ {u} : row'[v] = row[v]
  BY DEF IInv, TypeOK
<1>2. TypeOK'
  BY <1>1 DEF IInv, TypeOK
<1>3. VerifiedEmailUnique'
  BY <1>1 DEF IInv, VerifiedEmailUnique
<1>4. RowInv(u)'
  <2>1. /\ Work(u, row[u])' \in Works /\ Work(u, row[u])'.r = r
        /\ Work(u, row[u])'.p = plat
    BY <1>1 DEF Work, Works, IInv, TypeOK
  <2>2. Work(u, row[u]).r = row[u] /\ Work(u, row[u]).p = plat
    BY DEF Work
  <2>3. WorkInv(u, Work(u, row[u]))'
    BY <2>1, <2>2 DEF IInv, RowInv, WorkInv, Contact
  <2> QED BY <1>1, <2>3 DEF IInv, RowInv, AwaitsEmail
<1>5. ASSUME NEW v \in Users \ {u} PROVE RowInv(v)'
  BY <1>1, RowUntouched DEF IInv, TypeOK
<1> QED BY <1>2, <1>3, <1>4, <1>5 DEF IInv

(* A step of the Platform, of the clock or of a reader.                    *)
LEMMA RowsUntouchedPreserves ==
  ASSUME IInv, UNCHANGED <<row, mails, guesses>>,
         plat' \in Platforms, plat.claimed \subseteq plat'.claimed,
         otp' \in [Users -> Otps \cup {None}],
         \A u \in Users : otp'[u] = None <=> otp[u] = None,
         syncing' \in [Users -> Conns \cup {None}]
  PROVE  IInv'
<1>1. TypeOK'
  BY DEF IInv, TypeOK
<1>2. VerifiedEmailUnique'
  BY DEF IInv, VerifiedEmailUnique
<1>3. ASSUME NEW u \in Users PROVE RowInv(u)'
  <2>1. Work(u, row[u]).r = row[u] /\ Work(u, row[u]).p = plat
    BY DEF Work
  <2>2. /\ Work(u, row[u])' \in Works /\ Work(u, row[u])'.r = row[u]
        /\ Work(u, row[u])'.p = plat'
    BY DEF Work, Works, IInv, TypeOK
  <2>3. WorkInv(u, Work(u, row[u]))'
    BY <2>1, <2>2 DEF IInv, RowInv, WorkInv
  <2> QED BY <2>3 DEF IInv, RowInv
<1> QED BY <1>1, <1>2, <1>3 DEF IInv

LEMMA SyncWalletWritePreserves ==
  ASSUME IInv, NEW u \in Users, SyncWalletWrite(u)
  PROVE  IInv'
<1>1. /\ syncing' \in [Users -> Conns \cup {None}] /\ syncing[u] \in Conns \cup {None}
      /\ UNCHANGED <<otp, plat, mails, guesses>>
  BY DEF SyncWalletWrite, IInv, TypeOK
<1>2. row[u] \in Rows /\ row \in [Users -> Rows]
  BY DEF IInv, TypeOK
<1>3. CASE row' = [row EXCEPT ![u].wallet = syncing[u]]
  <2> DEFINE r == [row[u] EXCEPT !.wallet = syncing[u]]
  <2>1. r \in Rows
    BY <1>1, <1>2 DEF Rows
  <2>2. /\ r.st = row[u].st /\ r.email = row[u].email /\ r.conn = row[u].conn
        /\ r.url = row[u].url /\ r.agent = row[u].agent
    BY <1>2 DEF Rows
  <2>3. row' = [row EXCEPT ![u] = r]
    BY <1>3
  <2> HIDE DEF r
  <2> QED BY <1>1, <2>1, <2>2, <2>3, SideFieldPreserves
<1>4. CASE row' = row
  BY <1>1, <1>4, RowsUntouchedPreserves DEF IInv, TypeOK
<1> QED BY <1>3, <1>4 DEF SyncWalletWrite

LEMMA ThrottleElapsesPreserves ==
  ASSUME IInv, NEW u \in Users, ThrottleElapses(u)
  PROVE  IInv'
<1> DEFINE r == [row[u] EXCEPT !.sent = "old"]
<1>1. row[u] \in Rows
  BY DEF IInv, TypeOK
<1>2. r \in Rows
  BY <1>1 DEF Rows
<1>3. /\ r.st = row[u].st /\ r.email = row[u].email /\ r.conn = row[u].conn
      /\ r.url = row[u].url /\ r.agent = row[u].agent
  BY <1>1 DEF Rows
<1>4. row' = [row EXCEPT ![u] = r]
  BY DEF ThrottleElapses
<1>5. syncing' \in [Users -> Conns \cup {None}] /\ UNCHANGED <<otp, plat, mails, guesses>>
  BY DEF ThrottleElapses, IInv, TypeOK
<1> HIDE DEF r
<1> QED BY <1>2, <1>3, <1>4, <1>5, SideFieldPreserves

LEMMA EnvironmentPreserves ==
  ASSUME IInv,
         \/ \E u \in Users : SyncWalletRead(u) \/ OtpExpires(u)
         \/ \E c \in Conns : ClaimConnection(c)
         \/ \E i \in Identities : ResetConnection(i)
  PROVE  IInv'
<1>1. ASSUME NEW u \in Users, SyncWalletRead(u) PROVE IInv'
  <2>1. row[u].agent \in Conns \cup {None}
    BY DEF IInv, TypeOK, Rows
  <2>2. /\ syncing' \in [Users -> Conns \cup {None}]
        /\ UNCHANGED <<row, otp, plat, mails, guesses>>
    BY <1>1, <2>1 DEF SyncWalletRead, IInv, TypeOK
  <2> QED BY <2>2, RowsUntouchedPreserves DEF IInv, TypeOK
<1>2. ASSUME NEW u \in Users, OtpExpires(u) PROVE IInv'
  <2> DEFINE o == [otp[u] EXCEPT !.expired = TRUE]
  <2>1. otp[u] # None /\ otp[u] \in Otps
    BY <1>2 DEF OtpExpires, IInv, TypeOK
  <2>2. o \in Otps
    BY <2>1 DEF Otps
  <2>3. otp' = [otp EXCEPT ![u] = o]
    BY <1>2 DEF OtpExpires
  <2>4. UNCHANGED <<row, plat, mails, syncing, guesses>>
    BY <1>2 DEF OtpExpires
  <2> HIDE DEF o
  <2>5. o # None
    BY <2>2, AttemptsAssumption
  <2>6. /\ otp' \in [Users -> Otps \cup {None}]
        /\ \A v \in Users : otp'[v] = None <=> otp[v] = None
    BY <2>1, <2>2, <2>3, <2>5 DEF IInv, TypeOK
  <2> QED BY <2>4, <2>6, RowsUntouchedPreserves DEF IInv, TypeOK
<1>3. ASSUME NEW c \in Conns, ClaimConnection(c) PROVE IInv'
  <2>1. plat' \in Platforms /\ plat.claimed \subseteq plat'.claimed
    BY <1>3 DEF ClaimConnection, IInv, TypeOK, Platforms
  <2>2. UNCHANGED <<row, otp, mails, syncing, guesses>>
    BY <1>3 DEF ClaimConnection
  <2> QED BY <2>1, <2>2, RowsUntouchedPreserves DEF IInv, TypeOK
<1>4. ASSUME NEW i \in Identities, ResetConnection(i) PROVE IInv'
  <2>1. plat' \in Platforms /\ plat'.claimed = plat.claimed
    BY <1>4, RotatedType DEF ResetConnection, IInv, TypeOK
  <2>2. UNCHANGED <<row, otp, mails, syncing, guesses>>
    BY <1>4 DEF ResetConnection
  <2> QED BY <2>1, <2>2, RowsUntouchedPreserves DEF IInv, TypeOK
<1> QED BY <1>1, <1>2, <1>3, <1>4

-----------------------------------------------------------------------------
LEMMA NextPreserves == IInv /\ [Next]_vars => IInv'
<1> SUFFICES ASSUME IInv, [Next]_vars PROVE IInv'
  OBVIOUS
<1>1. ASSUME NEW u \in Users, Start(u) PROVE IInv'
  BY <1>1, StartPreserves
<1>2. ASSUME NEW u \in Users, NEW e \in Emails, StartEmailVerification(u, e) PROVE IInv'
  BY <1>2, StartEmailVerificationPreserves
<1>3. ASSUME NEW u \in Users, NEW code \in Codes, RejectCode(u, code) PROVE IInv'
  BY <1>3, RejectCodePreserves
<1>4. ASSUME NEW u \in Users, NEW code \in Codes, AcceptCode(u, code) PROVE IInv'
  BY <1>4, AcceptCodePreserves
<1>5. ASSUME NEW u \in Users, CancelHosted(u) PROVE IInv'
  BY <1>5, CancelHostedPreserves
<1>6. ASSUME NEW u \in Users, HostedUserMustFinishClaim(u) PROVE IInv'
  BY <1>6, HostedUserMustFinishClaimPreserves
<1>7. ASSUME NEW u \in Users, SyncWalletWrite(u) PROVE IInv'
  BY <1>7, SyncWalletWritePreserves
<1>8. ASSUME NEW u \in Users, ThrottleElapses(u) PROVE IInv'
  BY <1>8, ThrottleElapsesPreserves
<1>9. CASE UNCHANGED vars
  <2>1. UNCHANGED <<row, otp, plat, mails, syncing, guesses>>
    BY <1>9 DEF vars
  <2> QED BY <2>1, RowsUntouchedPreserves DEF IInv, TypeOK
<1> QED BY <1>1, <1>2, <1>3, <1>4, <1>5, <1>6, <1>7, <1>8, <1>9, EnvironmentPreserves DEF Next

LEMMA InvariantIInv == Spec => []IInv
BY InitIInv, NextPreserves, PTL DEF Spec

(* Every variable keeps its type: no state word, connection, link or       *)
(* counter outside the ones the code knows is ever committed.              *)
THEOREM TypeCorrect == Spec => []TypeOK
<1>1. IInv => TypeOK
  BY DEF IInv
<1> QED BY <1>1, InvariantIInv, PTL

(* One inbox is never verified for two Telegram users                      *)
(* (verified_email_already_taken, called by both steps of verification).   *)
THEOREM InboxVerifiedOnce == Spec => []VerifiedEmailUnique
<1>1. IInv => VerifiedEmailUnique
  BY DEF IInv
<1> QED BY <1>1, InvariantIInv, PTL

(* Two users never hold the same connection, whatever is cancelled,        *)
(* re-verified, reset or recovered in between.                             *)
THEOREM ConnectionsSeparate == Spec => []ConnectionNotShared
<1>1. ASSUME IInv PROVE ConnectionNotShared
  <2>1. SUFFICES ASSUME NEW u \in Users, NEW v \in Users, u # v, row[u].conn # None,
                        row[u].conn = row[v].conn
                 PROVE  FALSE
    BY DEF ConnectionNotShared
  <2>2. ASSUME NEW x \in {u, v}
        PROVE  /\ row[u].conn[1] = Contact(x, row[x])
               /\ IF RequireVerified THEN row[x].email # None ELSE row[x].email = None
    <3>1. RowInv(x) /\ row[x].conn = row[u].conn /\ Work(x, row[x]).r = row[x]
      BY <1>1, <2>1, <2>2 DEF IInv, Work
    <3> QED BY <2>1, <3>1 DEF RowInv, WorkInv
  <2>3. CASE RequireVerified
    BY <1>1, <2>1, <2>2, <2>3 DEF IInv, VerifiedEmailUnique, Contact
  <2>4. CASE ~RequireVerified
    BY <2>1, <2>2, <2>4 DEF Contact
  <2> QED BY <2>3, <2>4
<1> QED BY <1>1, InvariantIInv, PTL

(* A committed row is either before provisioning or fully provisioned, for *)
(* every way a Platform call can fail in the transaction.                  *)
THEOREM RowsComplete == Spec => []ProvisionedRowComplete
<1>1. ASSUME IInv PROVE ProvisionedRowComplete
  <2>1. SUFFICES ASSUME NEW u \in Users
                 PROVE  IF AwaitsEmail(row[u])
                        THEN row[u].conn = None /\ row[u].url = None /\ row[u].email = None
                        ELSE /\ row[u].st \in {"awaiting_claim", "ready"}
                             /\ row[u].conn # None /\ row[u].url # None
                             /\ RequireVerified => row[u].email # None
    BY DEF ProvisionedRowComplete
  <2>2. RowInv(u) /\ Work(u, row[u]).r = row[u]
    BY <1>1 DEF IInv, Work
  <2> QED BY <2>2 DEF RowInv, WorkInv, Provisioned
<1> QED BY <1>1, InvariantIInv, PTL

(* A code is stored exactly while one is awaited.                          *)
THEOREM CodeStoredIffAwaited == Spec => []OtpIffAwaited
<1>1. ASSUME IInv PROVE OtpIffAwaited
  BY <1>1 DEF IInv, RowInv, OtpIffAwaited
<1> QED BY <1>1, InvariantIInv, PTL

(* A user is called ready only after the Platform recorded the claim of    *)
(* the connection in his row.                                              *)
THEOREM ReadyIsClaimed == Spec => []ReadyMeansClaimed
<1>1. ASSUME IInv PROVE ReadyMeansClaimed
  <2>1. SUFFICES ASSUME NEW u \in Users, row[u].st = "ready"
                 PROVE  row[u].conn \in plat.claimed
    BY DEF ReadyMeansClaimed
  <2>2. RowInv(u) /\ Work(u, row[u]).r = row[u] /\ Work(u, row[u]).p = plat
    BY <1>1 DEF IInv, Work
  <2> QED BY <2>1, <2>2 DEF RowInv, WorkInv
<1> QED BY <1>1, InvariantIInv, PTL

-----------------------------------------------------------------------------
LEMMA ReadyKept ==
  ASSUME IInv, Next, NEW u \in Users, row[u].st = "ready"
  PROVE  row'[u].st = "ready" /\ row'[u].conn = row[u].conn
<1> DEFINE Kept == row'[u].st = "ready" /\ row'[u].conn = row[u].conn
<1>1. row \in [Users -> Rows] /\ row[u] \in Rows
  BY DEF IInv, TypeOK
<1>2. WorkInv(u, Work(u, row[u])) /\ Work(u, row[u]).r = row[u]
  BY DEF IInv, RowInv, Work
<1>3. ASSUME NEW v \in Users, NEW r, row' = [row EXCEPT ![v] = r],
             v = u => r.st = "ready" /\ r.conn = row[u].conn
      PROVE  Kept
  BY <1>1, <1>3
<1>4. ASSUME NEW v \in Users, Start(v) PROVE Kept
  <2>1. PICK o \in StartOutcomes(v) : CommitRow(v, o) \/ Rollback(v, o)
    BY <1>4 DEF Start
  <2>2. CASE Rollback(v, o)
    BY <2>2 DEF Rollback
  <2>3. CASE CommitRow(v, o)
    <3>1. ASSUME v = u PROVE o.w.r.st = "ready" /\ o.w.r.conn = row[u].conn
      <4>1. EnsureHostedTelegramRow(row[u]) = row[u]
        BY DEF EnsureHostedTelegramRow
      <4>2. o \in EnsureAndRefresh(u, Work(u, row[u]))
        BY <1>2, <2>1, <3>1, <4>1 DEF StartOutcomes, AwaitsEmail
      <4> QED BY <1>2, <4>2, ReadyIsLeftAlone
    <3> QED BY <1>3, <2>3, <3>1 DEF CommitRow
  <2> QED BY <2>1, <2>2, <2>3
<1>5. ASSUME NEW v \in Users, HostedUserMustFinishClaim(v) PROVE Kept
  <2>1. PICK o \in RefreshHostedUserClaimState(Work(v, row[v])) : CommitRow(v, o)
    BY <1>5 DEF HostedUserMustFinishClaim
  <2>2. ASSUME v = u PROVE o.w.r.st = "ready" /\ o.w.r.conn = row[u].conn
    BY <1>2, <2>1, <2>2, RefreshKeeps
  <2> QED BY <1>3, <2>1, <2>2 DEF CommitRow
<1>6. ASSUME NEW v \in Users, NEW code \in Codes, AcceptCode(v, code) PROVE Kept
  <2>1. row[v].st = "awaiting_email_verification"
    BY <1>6 DEF AcceptCode
  <2>2. v # u
    BY <2>1
  <2>3. (\E r : row' = [row EXCEPT ![v] = r]) \/ row' = row
    BY <1>6 DEF AcceptCode, CommitRow, Rollback
  <2> QED BY <1>3, <2>2, <2>3
<1>7. ASSUME NEW v \in Users,
             (\E e \in Emails : StartEmailVerification(v, e)) \/ CancelHosted(v)
      PROVE  Kept
  <2>1. v # u
    BY <1>7 DEF StartEmailVerification, CancelHosted
  <2>2. row'[u] = row[u]
    BY <1>1, <1>7, <2>1 DEF StartEmailVerification, CancelHosted
  <2> QED BY <2>2
<1>8. ASSUME NEW v \in Users, SyncWalletWrite(v) \/ ThrottleElapses(v) PROVE Kept
  <2>1. row[v] \in Rows
    BY <1>1
  <2>2. CASE row' = row
    BY <2>2
  <2>3. CASE row' = [row EXCEPT ![v].wallet = syncing[v]]
    BY <1>3, <2>1, <2>3 DEF Rows
  <2>4. CASE row' = [row EXCEPT ![v].sent = "old"]
    BY <1>3, <2>1, <2>4 DEF Rows
  <2> QED BY <1>8, <2>2, <2>3, <2>4 DEF SyncWalletWrite, ThrottleElapses
<1>9. CASE row' = row
  BY <1>9
<1>10. ASSUME NEW v \in Users, NEW code \in Codes, RejectCode(v, code) PROVE row' = row
  BY <1>10 DEF RejectCode
<1>11. ASSUME NEW v \in Users, SyncWalletRead(v) \/ OtpExpires(v) PROVE row' = row
  BY <1>11 DEF SyncWalletRead, OtpExpires
<1>12. ASSUME (\E c \in Conns : ClaimConnection(c)) \/ (\E i \in Identities : ResetConnection(i))
       PROVE  row' = row
  BY <1>12 DEF ClaimConnection, ResetConnection
<1> QED BY <1>4, <1>5, <1>6, <1>7, <1>8, <1>9, <1>10, <1>11, <1>12 DEF Next

(* Once ready, always ready, with the same connection: neither /start, nor *)
(* /cancel, nor a late poll or write takes it back.                        *)
THEOREM ReadyForGood == Spec => ReadyStable
<1>1. ASSUME IInv, [Next]_vars
      PROVE  [\A u \in Users : row[u].st = "ready" =>
                row'[u].st = "ready" /\ row'[u].conn = row[u].conn]_vars
  <2>1. CASE Next
    BY <1>1, <2>1, ReadyKept
  <2>2. CASE UNCHANGED vars
    BY <2>2
  <2> QED BY <1>1, <2>1, <2>2
<1> QED BY <1>1, InvariantIInv, PTL DEF Spec, ReadyStable

-----------------------------------------------------------------------------
(* Every row names one connection, and what the HTTP process is about to   *)
(* write as the wallet is of the agent that the row still has.             *)
NamesInv ==
  \A u \in Users :
    /\ Named(row[u])
    /\ AgentAlwaysReported => syncing[u] \in {None, row[u].agent}

-----------------------------------------------------------------------------
LEMMA InitNames == Init => NamesInv
<1> SUFFICES ASSUME Init, NEW u \in Users
             PROVE  Named(row[u]) /\ (AgentAlwaysReported => syncing[u] \in {None, row[u].agent})
  BY DEF NamesInv
<1>1. row[u] = NoRow /\ syncing[u] = None
  BY DEF Init
<1> QED BY <1>1 DEF Named, NoRow

(* One row changes and still names one connection; its agent stays.        *)
LEMMA RowNamed ==
  ASSUME IInv, NamesInv, NEW u \in Users, NEW q, row' = [row EXCEPT ![u] = q],
         Named(q), SameAgent(row[u], q), syncing' = syncing
  PROVE  NamesInv'
<1>1. row'[u] = q /\ \A v \in Users \ {u} : row'[v] = row[v]
  BY DEF IInv, TypeOK
<1>2. ASSUME NEW v \in Users \ {u}
      PROVE  Named(row[v])' /\ (AgentAlwaysReported => syncing'[v] \in {None, row'[v].agent})
  BY <1>1 DEF NamesInv, Named
<1>3. Named(row[u])' /\ (AgentAlwaysReported => syncing'[u] \in {None, row'[u].agent})
  BY <1>1 DEF NamesInv, Named, SameAgent
<1> QED BY <1>2, <1>3 DEF NamesInv

(* A change of the state word and of the address names nothing anew.       *)
LEMMA StageNamed ==
  ASSUME NEW r \in Rows, Named(r), NEW st, NEW email
  PROVE  LET q == [r EXCEPT !.st = st, !.email = email]
         IN  Named(q) /\ q.agent = r.agent
BY DEF Named, Rows

LEMMA StartNames ==
  ASSUME RequireVerified, IInv, NamesInv, NEW u \in Users, Start(u)
  PROVE  NamesInv'
<1> DEFINE r == EnsureHostedTelegramRow(row[u])
           w == Work(u, r)
<1>1. PICK o \in StartOutcomes(u) : CommitRow(u, o) \/ Rollback(u, o)
  BY DEF Start
<1>2. row[u] \in Rows /\ RowInv(u) /\ Named(row[u]) /\ w.r = r
  BY DEF IInv, TypeOK, NamesInv, Work
<1>3. syncing' = syncing
  BY DEF Start, IInv, TypeOK
<1>4. \/ r = row[u]
      \/ r.st = "awaiting_email" /\ Named(r) /\ r.agent = row[u].agent
  BY <1>2 DEF EnsureHostedTelegramRow, Named, Rows
<1>5. CASE Rollback(u, o)
  BY <1>3, <1>5 DEF Rollback, NamesInv, Named
<1>6. CASE CommitRow(u, o)
  <2>1. row' = [row EXCEPT ![u] = o.w.r] /\ o.ok
    BY <1>6 DEF CommitRow
  <2>2. Named(o.w.r) /\ SameAgent(row[u], o.w.r)
    <3>1. CASE AwaitsEmail(r)
      <4>1. o.w.r = r
        BY <1>1, <1>2, <3>1 DEF StartOutcomes, Commit
      <4> QED BY <1>2, <1>4, <4>1 DEF SameAgent
    <3>2. CASE ~AwaitsEmail(r)
      <4>1. r = row[u]
        BY <1>4, <3>2 DEF AwaitsEmail
      <4>2. WorkInv(u, w) /\ Named(w.r)
        BY <1>2, <4>1 DEF RowInv
      <4>3. o \in EnsureAndRefresh(u, w)
        BY <1>1, <1>2, <3>2 DEF StartOutcomes
      <4>4. Names(w, o)
        BY <4>2, <4>3, EnsureAndRefreshNames
      <4> QED BY <1>2, <2>1, <4>1, <4>4 DEF Names
    <3> QED BY <3>1, <3>2
  <2> QED BY <1>3, <2>1, <2>2, RowNamed
<1> QED BY <1>1, <1>5, <1>6

LEMMA AcceptCodeNames ==
  ASSUME RequireVerified, IInv, NamesInv, NEW u \in Users, NEW code \in Codes,
         AcceptCode(u, code)
  PROVE  NamesInv'
<1> DEFINE r == [row[u] EXCEPT !.st = "email_verified", !.email = otp[u].email]
           s == ConfirmEmailVerification(u, code)
<1>1. row[u].st = "awaiting_email_verification" /\ s.error = "none"
  BY DEF AcceptCode
<1>2. s.r = r /\ otp[u] # None
  BY <1>1 DEF ConfirmEmailVerification, Session
<1>3. row[u] \in Rows /\ otp[u].email \in Emails /\ Named(row[u])
  BY <1>2 DEF IInv, TypeOK, Otps, NamesInv
<1>4. /\ r \in Rows /\ r.st = "email_verified" /\ r.agent = row[u].agent
      /\ r.url = row[u].url /\ r.conn = row[u].conn /\ Named(r)
  <2>1. r \in Rows
    BY <1>3 DEF Rows, States
  <2>2. Named(r)
    BY <1>3, StageNamed
  <2> QED BY <1>3, <2>1, <2>2 DEF Rows
<1>5. row[u].agent = None /\ row[u].url = None /\ row[u].conn = None
  BY <1>1 DEF IInv, RowInv, WorkInv, Work, AwaitsEmail, Provisioned
<1>6. PICK o \in EnsureAndRefresh(u, Work(u, s.r)) : CommitRow(u, o) \/ Rollback(u, o)
  BY DEF AcceptCode
<1>7. syncing' = syncing
  BY DEF AcceptCode, IInv, TypeOK
<1> HIDE DEF r, s
<1>8. Work(u, r).r = r
  BY DEF Work
<1>9. Names(Work(u, r), o)
  <2>1. WorkInv(u, Work(u, r))
    BY <1>4, <1>5, OpenWork DEF IInv, Provisioned
  <2> QED BY <1>2, <1>4, <1>6, <1>8, <2>1, EnsureAndRefreshNames
<1>10. CASE Rollback(u, o)
  BY <1>7, <1>10 DEF Rollback, NamesInv, Named
<1>11. CASE CommitRow(u, o)
  <2>1. row' = [row EXCEPT ![u] = o.w.r] /\ Named(o.w.r) /\ SameAgent(row[u], o.w.r)
    BY <1>4, <1>8, <1>9, <1>11 DEF CommitRow, Names, SameAgent
  <2> QED BY <1>7, <2>1, RowNamed
<1> QED BY <1>6, <1>10, <1>11

LEMMA HostedUserMustFinishClaimNames ==
  ASSUME IInv, NamesInv, NEW u \in Users, HostedUserMustFinishClaim(u)
  PROVE  NamesInv'
<1>1. PICK o \in RefreshHostedUserClaimState(Work(u, row[u])) : CommitRow(u, o)
  BY DEF HostedUserMustFinishClaim
<1>2. WorkInv(u, Work(u, row[u])) /\ Work(u, row[u]).r = row[u] /\ Named(row[u])
  BY DEF IInv, RowInv, Work, NamesInv
<1>3. Named(o.w.r) /\ SameAgent(row[u], o.w.r)
  BY <1>1, <1>2, RefreshNames
<1>4. syncing' = syncing
  BY DEF HostedUserMustFinishClaim, IInv, TypeOK
<1> QED BY <1>1, <1>3, <1>4, RowNamed DEF CommitRow

LEMMA EmailStateNames ==
  ASSUME IInv, NamesInv, NEW u \in Users,
         (\E e \in Emails : StartEmailVerification(u, e)) \/ CancelHosted(u)
  PROVE  NamesInv'
<1>1. row[u] \in Rows /\ Named(row[u])
  BY DEF IInv, TypeOK, NamesInv
<1>2. syncing' = syncing
  BY DEF StartEmailVerification, CancelHosted, IInv, TypeOK
<1>3. CASE CancelHosted(u)
  <2> DEFINE q == [row[u] EXCEPT !.st = "awaiting_email", !.email = None]
  <2>1. row' = [row EXCEPT ![u] = q]
    BY <1>3 DEF CancelHosted
  <2>2. Named(q) /\ q.agent = row[u].agent
    BY <1>1, StageNamed
  <2> HIDE DEF q
  <2> QED BY <1>2, <2>1, <2>2, RowNamed DEF SameAgent
<1>4. CASE \E e \in Emails : StartEmailVerification(u, e)
  <2> DEFINE q == [row[u] EXCEPT !.st = "awaiting_email_verification"]
  <2>1. row' = [row EXCEPT ![u] = q]
    BY <1>4 DEF StartEmailVerification
  <2>2. Named(q) /\ q.agent = row[u].agent
    BY <1>1 DEF Named, Rows
  <2> HIDE DEF q
  <2> QED BY <1>2, <2>1, <2>2, RowNamed DEF SameAgent
<1> QED BY <1>3, <1>4

(* The late write of the HTTP process: the agent it read is still there.   *)
LEMMA HttpProcessNames ==
  ASSUME IInv, NamesInv, NEW u \in Users, SyncWalletRead(u) \/ SyncWalletWrite(u)
  PROVE  NamesInv'
<1>1. /\ row[u] \in Rows /\ Named(row[u]) /\ syncing \in [Users -> Conns \cup {None}]
      /\ AgentAlwaysReported => syncing[u] \in {None, row[u].agent}
  BY DEF IInv, TypeOK, NamesInv
<1>2. CASE SyncWalletRead(u)
  BY <1>1, <1>2 DEF SyncWalletRead, NamesInv, Named
<1>3. CASE SyncWalletWrite(u)
  <2>1. /\ syncing[u] # None /\ syncing' = [syncing EXCEPT ![u] = None]
        /\ row' = row \/ row' = [row EXCEPT ![u].wallet = syncing[u]]
    BY <1>3 DEF SyncWalletWrite
  <2>2. CASE row' = row
    BY <1>1, <2>1, <2>2 DEF NamesInv, Named
  <2>3. CASE row' = [row EXCEPT ![u].wallet = syncing[u]]
    <3> DEFINE q == [row[u] EXCEPT !.wallet = syncing[u]]
    <3>1. row'[u] = q /\ \A v \in Users \ {u} : row'[v] = row[v]
      BY <2>3 DEF IInv, TypeOK
    <3>2. Named(q)
      BY <1>1, <2>1 DEF Named, Rows
    <3> HIDE DEF q
    <3>3. Named(row[u])' /\ syncing'[u] = None
      BY <1>1, <2>1, <3>1, <3>2 DEF Named
    <3>4. ASSUME NEW v \in Users \ {u}
          PROVE  /\ Named(row[v])'
                 /\ AgentAlwaysReported => syncing'[v] \in {None, row'[v].agent}
      BY <1>1, <2>1, <3>1 DEF NamesInv, Named
    <3> QED BY <3>3, <3>4 DEF NamesInv
  <2> QED BY <2>1, <2>2, <2>3
<1> QED BY <1>2, <1>3

LEMMA NextNames == RequireVerified /\ IInv /\ NamesInv /\ [Next]_vars => NamesInv'
<1> SUFFICES ASSUME RequireVerified, IInv, NamesInv, [Next]_vars PROVE NamesInv'
  OBVIOUS
<1>1. ASSUME NEW u \in Users, Start(u) PROVE NamesInv'
  BY <1>1, StartNames
<1>2. ASSUME NEW u \in Users, NEW code \in Codes, AcceptCode(u, code) PROVE NamesInv'
  BY <1>2, AcceptCodeNames
<1>3. ASSUME NEW u \in Users,
             (\E e \in Emails : StartEmailVerification(u, e)) \/ CancelHosted(u)
      PROVE  NamesInv'
  BY <1>3, EmailStateNames
<1>4. ASSUME NEW u \in Users, HostedUserMustFinishClaim(u) PROVE NamesInv'
  BY <1>4, HostedUserMustFinishClaimNames
<1>5. ASSUME NEW u \in Users, SyncWalletRead(u) \/ SyncWalletWrite(u) PROVE NamesInv'
  BY <1>5, HttpProcessNames
<1>6. ASSUME NEW u \in Users, ThrottleElapses(u) PROVE NamesInv'
  <2> DEFINE q == [row[u] EXCEPT !.sent = "old"]
  <2>1. row' = [row EXCEPT ![u] = q] /\ syncing' = syncing
    BY <1>6 DEF ThrottleElapses
  <2>2. Named(q) /\ q.agent = row[u].agent
    BY DEF IInv, TypeOK, NamesInv, Named, Rows
  <2> HIDE DEF q
  <2> QED BY <2>1, <2>2, RowNamed DEF SameAgent
<1>7. CASE UNCHANGED <<row, syncing>>
  BY <1>7 DEF NamesInv, Named
<1>8. ASSUME NEW u \in Users, (\E code \in Codes : RejectCode(u, code)) \/ OtpExpires(u)
      PROVE  UNCHANGED <<row, syncing>>
  BY <1>8 DEF RejectCode, OtpExpires
<1>9. ASSUME (\E c \in Conns : ClaimConnection(c)) \/ (\E i \in Identities : ResetConnection(i))
      PROVE  UNCHANGED <<row, syncing>>
  BY <1>9 DEF ClaimConnection, ResetConnection
<1>10. CASE UNCHANGED vars
  BY <1>7, <1>10 DEF vars
<1> QED BY <1>1, <1>2, <1>3, <1>4, <1>5, <1>6, <1>7, <1>8, <1>9, <1>10 DEF Next

LEMMA InvariantNames == ASSUME RequireVerified PROVE Spec => []NamesInv
BY InitNames, NextNames, InvariantIInv, PTL DEF Spec

(* The claim link kept for a user opens the connection kept for him, when  *)
(* verified inboxes are required, whatever is reset, recovered, reissued   *)
(* or lost (provision.py: connection_id and claim_url are written by six   *)
(* paths). Without that setting the row of a user who has none yet is      *)
(* recovered with another connection's link.                               *)
THEOREM LinksMatch ==
  ASSUME RequireVerified
  PROVE  Spec => []ClaimLinkOfConnection
<1>1. NamesInv => ClaimLinkOfConnection
  BY DEF NamesInv, Named, ClaimLinkOfConnection
<1> QED BY <1>1, InvariantNames, PTL

(* Only where every answer of the Platform names the agent, which the code *)
(* does not demand (platform_client.py reads it as optional), are wallet   *)
(* and key always those of the agent that signs for the row; without it    *)
(* CredentialsOfOneAgent fails.                                            *)
LEMMA CredentialsIfReported ==
  ASSUME RequireVerified, AgentAlwaysReported
  PROVE  Spec => []CredentialsOfOneAgent
<1>1. NamesInv => CredentialsOfOneAgent
  BY DEF NamesInv, Named, CredentialsOfOneAgent
<1> QED BY <1>1, InvariantNames, PTL
-----------------------------------------------------------------------------
(* The links in the rows were minted by the Platform.                      *)
LinksInv == \A u \in Users : Issued(plat, row[u].url)

LEMMA InitLinks == Init => LinksInv
<1> SUFFICES ASSUME Init, NEW u \in Users
             PROVE  Issued(plat, row[u].url)
  BY DEF LinksInv
<1>1. row[u] = NoRow
  BY DEF Init
<1> QED BY <1>1 DEF Issued, NoRow

(* A transaction on one row that keeps its link an issued one.             *)
LEMMA RowIssued ==
  ASSUME IInv, LinksInv, NEW u \in Users, NEW q, row' = [row EXCEPT ![u] = q],
         Grows(plat, plat'), Issued(plat', q.url)
  PROVE  LinksInv'
<1>1. row'[u] = q /\ \A v \in Users \ {u} : row'[v] = row[v]
  BY DEF IInv, TypeOK
<1>2. \A v \in Users : Issued(plat', row[v].url)
  BY GrowsOn DEF LinksInv
<1> QED BY <1>1, <1>2 DEF LinksInv

LEMMA RowsIssued ==
  ASSUME LinksInv, Grows(plat, plat'), row' = row
  PROVE  LinksInv'
BY GrowsOn DEF LinksInv

(* What /start commits for a user who waits for the claim was mailed.      *)
LEMMA StartLinks ==
  ASSUME RequireVerified, IInv, LinksInv, NEW u \in Users, Start(u)
  PROVE  /\ LinksInv'
         /\ row'[u] # row[u] /\ row'[u].st = "awaiting_claim" => row'[u].url \in mails'[u]
<1> DEFINE r == EnsureHostedTelegramRow(row[u])
           w == Work(u, r)
<1>1. PICK o \in StartOutcomes(u) : CommitRow(u, o) \/ Rollback(u, o)
  BY DEF Start
<1>2. /\ row \in [Users -> Rows] /\ row[u] \in Rows /\ plat \in Platforms /\ RowInv(u)
      /\ Issued(plat, row[u].url) /\ w.r = r /\ w.p = plat
  BY DEF IInv, TypeOK, LinksInv, Work
<1>3. /\ plat' = o.w.p /\ mails'[u] = o.w.mails
  BY <1>1 DEF CommitRow, Rollback, External, IInv, TypeOK
<1>4. \/ r = row[u]
      \/ r.st = "awaiting_email" /\ r.url = row[u].url
  BY <1>2 DEF EnsureHostedTelegramRow, Rows
<1>5. CASE AwaitsEmail(r)
  <2>1. o = Commit(w)
    BY <1>1, <1>2, <1>5 DEF StartOutcomes
  <2>2. o.w = w
    BY <2>1 DEF Commit
  <2>3. Grows(plat, plat') /\ Issued(plat', r.url) /\ r.st # "awaiting_claim"
    BY <1>2, <1>3, <1>4, <1>5, <2>2, GrowsOn DEF AwaitsEmail
  <2>4. row' = row \/ row' = [row EXCEPT ![u] = r]
    BY <1>1, <1>2, <2>2 DEF CommitRow, Rollback
  <2> HIDE DEF r, w
  <2>5. LinksInv'
    BY <2>3, <2>4, RowIssued, RowsIssued
  <2> QED BY <1>2, <2>3, <2>4, <2>5
<1>6. CASE ~AwaitsEmail(r)
  <2>1. r = row[u]
    BY <1>4, <1>6 DEF AwaitsEmail
  <2>2. WorkInv(u, w) /\ Issued(w.p, w.r.url)
    BY <1>2, <2>1 DEF RowInv
  <2>3. o \in EnsureAndRefresh(u, w)
    BY <1>1, <1>2, <1>6 DEF StartOutcomes
  <2>4. Delivers(w, o)
    BY <2>2, <2>3, EnsureAndRefreshDelivers
  <2> HIDE DEF r, w
  <2>5. Grows(plat, plat')
    BY <1>2, <1>3, <2>4 DEF Delivers
  <2>6. CASE Rollback(u, o)
    BY <2>5, <2>6, RowsIssued DEF Rollback
  <2>7. CASE CommitRow(u, o)
    <3>1. o.ok /\ row' = [row EXCEPT ![u] = o.w.r]
      BY <2>7 DEF CommitRow
    <3>2. Issued(plat', o.w.r.url) /\ Newest(o.w)
      BY <1>3, <2>4, <3>1 DEF Delivers
    <3>3. row'[u] = o.w.r
      BY <1>2, <3>1
    <3> QED BY <1>3, <2>5, <3>1, <3>2, <3>3, RowIssued DEF Newest
  <2> QED BY <1>1, <2>6, <2>7
<1> QED BY <1>5, <1>6

LEMMA AcceptCodeLinks ==
  ASSUME RequireVerified, IInv, LinksInv, NEW u \in Users, NEW code \in Codes,
         AcceptCode(u, code)
  PROVE  LinksInv'
<1> DEFINE r == [row[u] EXCEPT !.st = "email_verified", !.email = otp[u].email]
           s == ConfirmEmailVerification(u, code)
<1>1. row[u].st = "awaiting_email_verification" /\ s.error = "none"
  BY DEF AcceptCode
<1>2. s.r = r /\ otp[u] # None
  BY <1>1 DEF ConfirmEmailVerification, Session
<1>3. row[u] \in Rows /\ otp[u].email \in Emails /\ plat \in Platforms
  BY <1>2 DEF IInv, TypeOK, Otps
<1>4. row[u].agent = None /\ row[u].url = None /\ row[u].conn = None
  BY <1>1 DEF IInv, RowInv, WorkInv, Work, AwaitsEmail, Provisioned
<1>5. /\ r \in Rows /\ r.st = "email_verified" /\ r.agent = None
      /\ r.url = None /\ r.conn = None
  BY <1>3, <1>4 DEF Rows, States
<1>6. PICK o \in EnsureAndRefresh(u, Work(u, s.r)) : CommitRow(u, o) \/ Rollback(u, o)
  BY DEF AcceptCode
<1> HIDE DEF r, s
<1>7. Work(u, r).r = r /\ Work(u, r).p = plat
  BY DEF Work
<1>8. Delivers(Work(u, r), o)
  <2>1. WorkInv(u, Work(u, r))
    BY <1>5, OpenWork DEF IInv, Provisioned
  <2>2. Issued(plat, None)
    BY DEF Issued
  <2> QED BY <1>2, <1>5, <1>6, <1>7, <2>1, <2>2, EnsureAndRefreshDelivers
<1>9. plat' = o.w.p
  BY <1>6 DEF CommitRow, Rollback, External
<1>10. Grows(plat, plat')
  BY <1>7, <1>8, <1>9 DEF Delivers
<1>11. CASE Rollback(u, o)
  BY <1>10, <1>11, RowsIssued DEF Rollback
<1>12. CASE CommitRow(u, o)
  BY <1>8, <1>9, <1>10, <1>12, RowIssued DEF CommitRow, Delivers
<1> QED BY <1>6, <1>11, <1>12

LEMMA NextLinks == RequireVerified /\ IInv /\ LinksInv /\ [Next]_vars => LinksInv'
<1> SUFFICES ASSUME RequireVerified, IInv, LinksInv, [Next]_vars PROVE LinksInv'
  OBVIOUS
<1>1. /\ row \in [Users -> Rows] /\ plat \in Platforms /\ Grows(plat, plat)
      /\ \A u \in Users : Issued(plat, row[u].url)
  BY GrowsOn DEF IInv, TypeOK, LinksInv
<1>2. ASSUME NEW u \in Users, Start(u) PROVE LinksInv'
  BY <1>2, StartLinks
<1>3. ASSUME NEW u \in Users, NEW code \in Codes, AcceptCode(u, code) PROVE LinksInv'
  BY <1>3, AcceptCodeLinks
<1>4. ASSUME NEW u \in Users, HostedUserMustFinishClaim(u) PROVE LinksInv'
  <2>1. PICK o \in RefreshHostedUserClaimState(Work(u, row[u])) : CommitRow(u, o)
    BY <1>4 DEF HostedUserMustFinishClaim
  <2>2. /\ WorkInv(u, Work(u, row[u])) /\ Work(u, row[u]).r = row[u]
        /\ Work(u, row[u]).p = plat
    BY DEF IInv, RowInv, Work
  <2>3. Grows(plat, o.w.p) /\ Issued(o.w.p, o.w.r.url)
    BY <1>1, <2>1, <2>2, RefreshDelivers
  <2> QED BY <2>1, <2>3, RowIssued DEF CommitRow, External
<1>5. ASSUME plat' = plat, NEW u \in Users, NEW q, q.url = row[u].url,
             row' = [row EXCEPT ![u] = q]
      PROVE  LinksInv'
  BY <1>1, <1>5, RowIssued
<1>6. ASSUME NEW u \in Users,
             \/ \E e \in Emails : StartEmailVerification(u, e)
             \/ CancelHosted(u) \/ SyncWalletWrite(u) \/ ThrottleElapses(u)
      PROVE  LinksInv'
  <2>1. plat' = plat /\ row[u] \in Rows
    BY <1>1, <1>6 DEF StartEmailVerification, CancelHosted, SyncWalletWrite, ThrottleElapses
  <2>2. CASE row' = row
    BY <1>1, <2>1, <2>2, RowsIssued
  <2>3. CASE row' = [row EXCEPT ![u].st = "awaiting_email_verification"]
    BY <2>1, <2>3, <1>5 DEF Rows
  <2>4. CASE row' = [row EXCEPT ![u].st = "awaiting_email", ![u].email = None]
    BY <2>1, <2>4, <1>5, ZenonT(40) DEF Rows
  <2>5. CASE row' = [row EXCEPT ![u].wallet = syncing[u]]
    BY <2>1, <2>5, <1>5 DEF Rows
  <2>6. CASE row' = [row EXCEPT ![u].sent = "old"]
    BY <2>1, <2>6, <1>5 DEF Rows
  <2> QED BY <1>6, <2>2, <2>3, <2>4, <2>5, <2>6
        DEF StartEmailVerification, CancelHosted, SyncWalletWrite, ThrottleElapses
<1>7. CASE UNCHANGED <<row, plat>>
  BY <1>1, <1>7, RowsIssued
<1>8. ASSUME NEW u \in Users, \/ \E code \in Codes : RejectCode(u, code)
                              \/ SyncWalletRead(u) \/ OtpExpires(u)
      PROVE  UNCHANGED <<row, plat>>
  BY <1>8 DEF RejectCode, SyncWalletRead, OtpExpires
<1>9. ASSUME NEW c \in Conns, ClaimConnection(c) PROVE LinksInv'
  <2>1. plat' \in Platforms /\ plat'.link = plat.link /\ row' = row
    BY <1>1, <1>9 DEF ClaimConnection, Platforms
  <2>2. Grows(plat, plat')
    BY <1>1, <2>1 DEF Grows
  <2> QED BY <2>1, <2>2, RowsIssued
<1>10. ASSUME NEW i \in Identities, ResetConnection(i) PROVE LinksInv'
  <2>1. plat' \in Platforms /\ plat'.link = plat.link /\ row' = row
    BY <1>1, <1>10, RotatedType, UpsertedLinks DEF ResetConnection
  <2>2. Grows(plat, plat')
    BY <1>1, <2>1 DEF Grows
  <2> QED BY <2>1, <2>2, RowsIssued
<1>11. CASE UNCHANGED vars
  BY <1>7, <1>11 DEF vars
<1> QED BY <1>2, <1>3, <1>4, <1>6, <1>7, <1>8, <1>9, <1>10, <1>11 DEF Next

(* A /start outside the throttle that leaves the user waiting has mailed   *)
(* him the very link it stored, on each of its paths (bootstrap, poll,     *)
(* reissue, recovery), for any number of users, inboxes and links, and     *)
(* although the poll that ends it may write the link once more.            *)
THEOREM LinkIsMailed == Spec => StartMailsLink
<1>1. ASSUME RequireVerified PROVE Spec => StartMailsLink
  <2>1. RequireVerified /\ IInv /\ LinksInv /\ [Next]_vars =>
          [\A u \in Users :
             RequireVerified /\ Start(u) /\ row[u].sent # "recent"
             /\ row'[u] # row[u] /\ row'[u].st = "awaiting_claim"
               => row'[u].url \in mails'[u]]_vars
    BY StartLinks
  <2> QED
    BY <1>1, <2>1, InitLinks, NextLinks, InvariantIInv, PTL DEF Spec, StartMailsLink
<1>2. ASSUME ~RequireVerified PROVE Spec => StartMailsLink
  <2>1. ~RequireVerified =>
          [\A u \in Users :
             RequireVerified /\ Start(u) /\ row[u].sent # "recent"
             /\ row'[u] # row[u] /\ row'[u].st = "awaiting_claim"
               => row'[u].url \in mails'[u]]_vars
    OBVIOUS
  <2> QED BY <1>2, <2>1, PTL DEF StartMailsLink
<1> QED BY <1>1, <1>2
-----------------------------------------------------------------------------
(* HostedOnboarding implements OnboardingPromise: its initial state is one *)
(* of the promise, and each of its steps is a step of the promise or a     *)
(* stutter. IInv is what makes the promised guards true.                   *)

(* What the promise may rely on for one user.                              *)
Seen(u) ==
  /\ StageOf(u) \in {"outside", "code", "waiting", "ready"}
  /\ StageOf(u) \in {"waiting", "ready"} <=> row[u].st \in Provisioned
  /\ StageOf(u) = "ready" <=> row[u].st = "ready"
  /\ StageOf(u) = "code" <=> CodeOf(u) # None
  /\ CodeOf(u) \in Emails \cup {None}
  /\ row[u].st \in Provisioned =>
       /\ AccountOf(u) = IF RequireVerified THEN row[u].email ELSE u
       /\ AccountOf(u) # None
       /\ RequireVerified => row[u].email \in Emails
  /\ row[u].st \notin Provisioned => AccountOf(u) = None /\ row[u].email = None
  /\ ~RequireVerified => StageOf(u) # "code"
  /\ StageOf(u) = "ready" => AccountOf(u) \in claimedBar

LEMMA IInvSeen == IInv => \A u \in Users : Seen(u)
<1> SUFFICES ASSUME IInv, NEW u \in Users PROVE Seen(u)
  OBVIOUS
<1>1. /\ RowInv(u) /\ row[u] \in Rows /\ otp[u] \in Otps \cup {None}
      /\ Work(u, row[u]).r = row[u] /\ Work(u, row[u]).p = plat
  BY DEF IInv, TypeOK, Work
<1>2. /\ row[u].st \in States /\ row[u].email \in Emails \cup {None}
      /\ row[u].conn \in Conns \cup {None}
  BY <1>1 DEF Rows
<1>3. /\ row[u].conn # None => row[u].conn[1] = Contact(u, row[u])
      /\ row[u].st \in Provisioned => row[u].conn # None
      /\ row[u].st = "ready" => row[u].conn \in plat.claimed
      /\ row[u].st \notin Provisioned => row[u].conn = None /\ row[u].email = None
      /\ RequireVerified => (row[u].st \in Provisioned => row[u].email # None)
      /\ ~RequireVerified => row[u].email = None /\ row[u].st \in {"absent"} \cup Provisioned
      /\ otp[u] # None <=> row[u].st = "awaiting_email_verification"
  BY <1>1 DEF RowInv, WorkInv, AwaitsEmail, Provisioned
<1>4. /\ StageOf(u) \in {"outside", "code", "waiting", "ready"}
      /\ StageOf(u) \in {"waiting", "ready"} <=> row[u].st \in Provisioned
      /\ StageOf(u) = "ready" <=> row[u].st = "ready"
      /\ StageOf(u) = "code" <=> row[u].st = "awaiting_email_verification"
  BY DEF StageOf, Provisioned
<1>5. CodeOf(u) \in Emails \cup {None} /\ (CodeOf(u) # None <=> otp[u] # None)
  <2>1. None \notin Emails
    BY ProvisionAssumption DEF Identities
  <2>2. CASE otp[u] = None
    BY <2>2 DEF CodeOf
  <2>3. CASE otp[u] # None
    <3>1. otp[u].email \in Emails
      BY <1>1, <2>3 DEF Otps
    <3> QED BY <2>1, <2>3, <3>1 DEF CodeOf
  <2> QED BY <2>2, <2>3
<1>6. row[u].st \in Provisioned =>
        /\ AccountOf(u) = IF RequireVerified THEN row[u].email ELSE u
        /\ AccountOf(u) # None
        /\ RequireVerified => row[u].email \in Emails
  <2>1. u # None
    BY ProvisionAssumption DEF Identities
  <2> QED BY <1>2, <1>3, <2>1 DEF AccountOf, Contact
<1>7. row[u].st = "ready" => AccountOf(u) \in claimedBar
  BY <1>3 DEF AccountOf, claimedBar, Provisioned
<1>8. row[u].st \notin Provisioned => AccountOf(u) = None
  BY <1>3 DEF AccountOf
<1>9. ~RequireVerified => row[u].st # "awaiting_email_verification"
  BY <1>3 DEF Provisioned
<1> QED BY <1>3, <1>4, <1>5, <1>6, <1>7, <1>8, <1>9 DEF Seen

LEMMA IInvSeenNext == IInv' => (\A u \in Users : Seen(u))'
BY IInvSeen, PTL

(* Under the invariant an account belongs to one user.                     *)
OneHolder ==
  \A u, v \in Users : u # v /\ AccountOf(u) # None => AccountOf(u) # AccountOf(v)

LEMMA IInvOneHolder == IInv => OneHolder
<1> SUFFICES ASSUME IInv, NEW u \in Users, NEW v \in Users, u # v, AccountOf(u) # None
             PROVE  AccountOf(u) # AccountOf(v)
  BY DEF OneHolder
<1>1. Seen(u) /\ Seen(v)
  BY IInvSeen
<1>2. CASE RequireVerified
  BY <1>1, <1>2 DEF Seen, IInv, VerifiedEmailUnique
<1>3. CASE ~RequireVerified
  BY <1>1, <1>3 DEF Seen
<1> QED BY <1>2, <1>3

LEMMA IInvOneHolderNext == IInv' => OneHolder'
BY IInvOneHolder, PTL

-----------------------------------------------------------------------------
(* A step of one user changes the promise's state at that user only.       *)
LEMMA BarsAt ==
  ASSUME NEW u \in Users, \A v \in Users \ {u} : row'[v] = row[v] /\ otp'[v] = otp[v]
  PROVE  /\ stageBar' = [stageBar EXCEPT ![u] = StageOf(u)']
         /\ codeBar' = [codeBar EXCEPT ![u] = CodeOf(u)']
         /\ accountBar' = [accountBar EXCEPT ![u] = AccountOf(u)']
         /\ \A v \in Users : /\ stageBar[v] = StageOf(v) /\ codeBar[v] = CodeOf(v)
                             /\ accountBar[v] = AccountOf(v)
         /\ \A v \in Users \ {u} : AccountOf(v)' = AccountOf(v)
<1>1. ASSUME NEW v \in Users \ {u}
      PROVE  /\ StageOf(v)' = StageOf(v) /\ CodeOf(v)' = CodeOf(v)
             /\ AccountOf(v)' = AccountOf(v)
  BY DEF StageOf, CodeOf, AccountOf
<1>2. stageBar' = [stageBar EXCEPT ![u] = StageOf(u)']
  BY <1>1 DEF stageBar
<1>3. codeBar' = [codeBar EXCEPT ![u] = CodeOf(u)']
  BY <1>1 DEF codeBar
<1>4. accountBar' = [accountBar EXCEPT ![u] = AccountOf(u)']
  BY <1>1 DEF accountBar
<1> QED BY <1>1, <1>2, <1>3, <1>4 DEF stageBar, codeBar, accountBar

(* A step that keeps the user's address and code: the promise sees nothing,*)
(* or the account being opened at his own address, or his being let in.    *)
LEMMA QuietStep ==
  ASSUME IInv, IInv', NEW u \in Users,
         \A v \in Users \ {u} : row'[v] = row[v] /\ otp'[v] = otp[v],
         CodeOf(u)' = CodeOf(u), plat'.claimed = plat.claimed,
         row'[u].email = row[u].email,
         row[u].st \in Provisioned => row'[u].st \in Provisioned,
         row[u].st = "ready" => row'[u].st = "ready"
  PROVE  [Promise!Next]_(Promise!vars)
<1>1. Seen(u) /\ Seen(u)'
  BY IInvSeen, IInvSeenNext
<1>2. claimedBar' = claimedBar
  BY DEF claimedBar
<1>3. codeBar' = codeBar
  BY BarsAt DEF codeBar
<1>4. CASE StageOf(u)' = StageOf(u)
  <2>1. AccountOf(u)' = AccountOf(u)
    BY <1>1, <1>4 DEF Seen
  <2>2. stageBar' = stageBar /\ accountBar' = accountBar
    BY <1>4, <2>1, BarsAt DEF stageBar, accountBar
  <2> QED BY <1>2, <1>3, <2>2 DEF Promise!vars
<1>5. CASE StageOf(u) = "waiting" /\ StageOf(u)' = "ready"
  <2>1. AccountOf(u)' = AccountOf(u) /\ AccountOf(u) \in claimedBar
    BY <1>1, <1>2, <1>5 DEF Seen
  <2>2. accountBar' = accountBar
    BY <2>1, BarsAt DEF accountBar
  <2>3. Promise!LetIn(u)
    BY <1>2, <1>3, <1>5, <2>1, <2>2, BarsAt DEF Promise!LetIn
  <2> QED BY <2>3 DEF Promise!Next
<1>6. CASE StageOf(u) = "outside" /\ StageOf(u)' \in {"waiting", "ready"}
  <2>1. ~RequireVerified /\ AccountOf(u)' = u /\ u # None
    BY <1>1, <1>6, ProvisionAssumption DEF Seen, Identities
  <2>2. \A v \in Users : AccountOf(v) # u
    <3>1. \A v \in Users : AccountOf(v) = None \/ AccountOf(v) = v
      BY <2>1, IInvSeen DEF Seen
    <3>2. AccountOf(u) = None
      BY <1>1, <1>6 DEF Seen
    <3> QED BY <2>1, <3>1, <3>2
  <2>3. StageOf(u)' = "ready" => u \in claimedBar
    BY <1>1, <1>2, <2>1 DEF Seen
  <2>4. codeBar' = [codeBar EXCEPT ![u] = None]
    BY <1>1, <1>6, BarsAt DEF Seen
  <2>5. Promise!Free(u)
    BY <2>2, BarsAt DEF Promise!Free
  <2>6. Promise!Open(u, u, StageOf(u)')
    BY <1>2, <1>6, <2>1, <2>3, <2>4, <2>5, BarsAt DEF Promise!Open
  <2>7. u \in Promise!Accounts
    BY DEF Promise!Accounts
  <2> QED BY <1>6, <2>6, <2>7 DEF Promise!Next
<1> QED BY <1>1, <1>4, <1>5, <1>6 DEF Seen

(* A step that changes neither stage nor code nor account of anybody, and  *)
(* no claim.                                                               *)
LEMMA InvisibleStep ==
  ASSUME row' = row, \A v \in Users : CodeOf(v)' = CodeOf(v), plat'.claimed = plat.claimed
  PROVE  UNCHANGED Promise!vars
<1>1. \A v \in Users : StageOf(v)' = StageOf(v) /\ AccountOf(v)' = AccountOf(v)
  BY DEF StageOf, AccountOf
<1> QED BY <1>1 DEF Promise!vars, stageBar, codeBar, accountBar, claimedBar

-----------------------------------------------------------------------------
(* One lemma per handler.                                                  *)
LEMMA StartImplements ==
  ASSUME IInv, IInv', Next, NEW u \in Users, Start(u)
  PROVE  [Promise!Next]_(Promise!vars)
<1> DEFINE r == EnsureHostedTelegramRow(row[u])
<1>1. PICK o \in StartOutcomes(u) : CommitRow(u, o) \/ Rollback(u, o)
  BY DEF Start
<1>2. /\ Keeps(u, Work(u, r), o) /\ r.email = row[u].email
      /\ ~(RequireVerified /\ AwaitsEmail(r)) => Done(o)
  BY StartKeeps
<1>3. plat'.claimed = plat.claimed /\ otp' = otp
  <2>1. External(u, o)
    BY <1>1 DEF CommitRow, Rollback
  <2> QED BY <1>2, <2>1, ExternalEffects DEF IInv, Start
<1>4. \A v \in Users : CodeOf(v)' = CodeOf(v)
  BY <1>3 DEF CodeOf
<1>5. CASE Rollback(u, o)
  BY <1>3, <1>4, <1>5, InvisibleStep DEF Rollback
<1>6. CASE CommitRow(u, o)
  <2>1. row' = [row EXCEPT ![u] = o.w.r] /\ o.w.r.email = row[u].email
    BY <1>2, <1>6 DEF CommitRow, Keeps, Work
  <2>2. row'[u] = o.w.r /\ \A v \in Users \ {u} : row'[v] = row[v] /\ otp'[v] = otp[v]
    BY <1>3, <2>1 DEF IInv, TypeOK
  <2>3. ASSUME row[u].st \in Provisioned PROVE row'[u].st \in Provisioned
    <3>1. r = row[u] /\ ~AwaitsEmail(r)
      BY <2>3 DEF EnsureHostedTelegramRow, AwaitsEmail, Provisioned
    <3> QED BY <1>2, <1>6, <2>2, <3>1 DEF Done, CommitRow
  <2>4. row[u].st = "ready" => row'[u].st = "ready"
    BY ReadyKept
  <2> QED BY <1>3, <1>4, <2>1, <2>2, <2>3, <2>4, QuietStep
<1> QED BY <1>1, <1>5, <1>6

LEMMA GateImplements ==
  ASSUME IInv, IInv', Next, NEW u \in Users, HostedUserMustFinishClaim(u)
  PROVE  [Promise!Next]_(Promise!vars)
<1>1. PICK o \in RefreshHostedUserClaimState(Work(u, row[u])) : CommitRow(u, o)
  BY DEF HostedUserMustFinishClaim
<1>2. RowInv(u) /\ Work(u, row[u]).r = row[u]
  BY DEF IInv, Work
<1>3. /\ Keeps(u, Work(u, row[u]), o)
      /\ row[u].st \in Provisioned => o.w.r.st \in Provisioned
  BY <1>1, <1>2, RefreshKeeps DEF RowInv, Provisioned
<1>4. plat'.claimed = plat.claimed /\ otp' = otp
  BY <1>1, <1>3, ExternalEffects DEF IInv, CommitRow, HostedUserMustFinishClaim
<1>5. row' = [row EXCEPT ![u] = o.w.r] /\ o.w.r.email = row[u].email
  BY <1>1, <1>2, <1>3 DEF CommitRow, Keeps
<1>6. row'[u] = o.w.r /\ \A v \in Users \ {u} : row'[v] = row[v] /\ otp'[v] = otp[v]
  BY <1>4, <1>5 DEF IInv, TypeOK
<1>7. CodeOf(u)' = CodeOf(u)
  BY <1>4 DEF CodeOf
<1>8. row[u].st = "ready" => row'[u].st = "ready"
  BY ReadyKept
<1> QED BY <1>3, <1>4, <1>5, <1>6, <1>7, <1>8, QuietStep

(* The check of the address when the code is sent is the promise's guard.  *)
LEMMA SendImplements ==
  ASSUME IInv, NEW u \in Users, NEW e \in Emails, StartEmailVerification(u, e)
  PROVE  Promise!Next
<1>1. /\ row[u].st = "awaiting_email" /\ ~VerifiedEmailAlreadyTaken(u, e)
      /\ otp' = [otp EXCEPT ![u] = [email |-> e, expired |-> FALSE, attempts |-> 0]]
      /\ row' = [row EXCEPT ![u].st = "awaiting_email_verification"] /\ plat' = plat
  BY DEF StartEmailVerification
<1>2. row \in [Users -> Rows] /\ row[u] \in Rows /\ otp \in [Users -> Otps \cup {None}]
  BY DEF IInv, TypeOK
<1>3. /\ row'[u].st = "awaiting_email_verification" /\ row'[u].conn = row[u].conn
      /\ \A v \in Users \ {u} : row'[v] = row[v] /\ otp'[v] = otp[v]
  BY <1>1, <1>2 DEF Rows
<1>4. RequireVerified /\ AccountOf(u) = None
  BY <1>1, IInvSeen, ProvisionAssumption DEF Seen, IInv, RowInv, Provisioned
<1>5. otp'[u] # None /\ otp'[u].email = e
  <2> DEFINE o == [email |-> e, expired |-> FALSE, attempts |-> 0]
  <2>1. o \in Otps
    BY AttemptsAssumption DEF Otps
  <2>2. otp'[u] = o /\ o.email = e
    BY <1>1, <1>2
  <2> HIDE DEF o
  <2> QED BY <2>1, <2>2, AttemptsAssumption
<1>6. StageOf(u) = "outside" /\ StageOf(u)' = "code" /\ CodeOf(u)' = e
      /\ AccountOf(u)' = AccountOf(u)
  BY <1>1, <1>3, <1>5 DEF StageOf, CodeOf, AccountOf
<1>7. Promise!Free(e)
  <2>1. e # None
    BY ProvisionAssumption DEF Identities
  <2>2. ASSUME NEW v \in Users PROVE AccountOf(v) # e
    BY <1>1, <1>4, <2>1, IInvSeen DEF Seen, VerifiedEmailAlreadyTaken
  <2> QED BY <2>2, BarsAt, <1>3 DEF Promise!Free
<1>8. accountBar' = accountBar /\ claimedBar' = claimedBar
  BY <1>1, <1>3, <1>6, BarsAt DEF accountBar, claimedBar
<1>9. Promise!SendCode(u, e)
  BY <1>3, <1>4, <1>6, <1>7, <1>8, BarsAt DEF Promise!SendCode
<1> QED BY <1>9 DEF Promise!Next

LEMMA CancelImplements ==
  ASSUME IInv, IInv', NEW u \in Users, CancelHosted(u)
  PROVE  [Promise!Next]_(Promise!vars)
<1>1. /\ row[u].st \notin Provisioned /\ otp' = [otp EXCEPT ![u] = None] /\ plat' = plat
      /\ row' = [row EXCEPT ![u] = [row[u] EXCEPT !.st = "awaiting_email", !.email = None]]
  BY DEF CancelHosted, Provisioned
<1>2. row \in [Users -> Rows] /\ row[u] \in Rows /\ otp \in [Users -> Otps \cup {None}]
  BY DEF IInv, TypeOK
<1>3. /\ row'[u].st = "awaiting_email" /\ row'[u].conn = row[u].conn /\ otp'[u] = None
      /\ \A v \in Users \ {u} : row'[v] = row[v] /\ otp'[v] = otp[v]
  BY <1>1, <1>2 DEF Rows
<1>4. StageOf(u)' = "outside" /\ CodeOf(u)' = None /\ AccountOf(u)' = AccountOf(u)
  BY <1>3 DEF StageOf, CodeOf, AccountOf
<1>5. StageOf(u) \in {"outside", "code"} /\ (StageOf(u) = "code" <=> CodeOf(u) # None)
  BY <1>1, IInvSeen DEF Seen
<1>6. accountBar' = accountBar /\ claimedBar' = claimedBar
  BY <1>1, <1>3, <1>4, BarsAt DEF accountBar, claimedBar
<1>7. CASE StageOf(u) = "code"
  <2>1. Promise!GiveUp(u)
    BY <1>3, <1>4, <1>6, <1>7, BarsAt DEF Promise!GiveUp
  <2> QED BY <2>1 DEF Promise!Next
<1>8. CASE StageOf(u) = "outside"
  <2>1. stageBar' = stageBar /\ codeBar' = codeBar
    BY <1>3, <1>4, <1>5, <1>8, BarsAt, ZenonT(40) DEF stageBar, codeBar
  <2> QED BY <1>6, <2>1 DEF Promise!vars
<1> QED BY <1>5, <1>7, <1>8

(* A right code, with the provisioning that follows, opens the account.    *)
LEMMA AcceptImplements ==
  ASSUME IInv, IInv', NEW u \in Users, NEW code \in Codes, AcceptCode(u, code)
  PROVE  [Promise!Next]_(Promise!vars)
<1> DEFINE r == [row[u] EXCEPT !.st = "email_verified", !.email = otp[u].email]
           s == ConfirmEmailVerification(u, code)
<1>1. row[u].st = "awaiting_email_verification" /\ s.error = "none"
  BY DEF AcceptCode
<1>2. s.r = r /\ s.otp = None /\ otp[u] # None
  BY <1>1 DEF ConfirmEmailVerification, Session
<1>3. Seen(u) /\ Seen(u)' /\ row[u] \in Rows
  BY IInvSeen, IInvSeenNext DEF IInv, TypeOK
<1>4. StageOf(u) = "code" /\ CodeOf(u) = otp[u].email /\ RequireVerified
      /\ CodeOf(u) \in Emails /\ CodeOf(u) # None
  BY <1>1, <1>2, <1>3, ProvisionAssumption DEF StageOf, CodeOf, Seen
<1>5. /\ r \in Rows /\ r.st = "email_verified" /\ r.email = CodeOf(u)
      /\ r.agent = row[u].agent /\ r.url = row[u].url /\ r.conn = row[u].conn
  <2>1. r \in Rows
    BY <1>3, <1>4 DEF Rows, States
  <2> QED BY <1>3, <1>4, <2>1 DEF Rows
<1>6. row[u].agent = None /\ row[u].url = None /\ row[u].conn = None
  BY <1>1 DEF IInv, RowInv, WorkInv, Work, AwaitsEmail, Provisioned
<1>7. PICK o \in EnsureAndRefresh(u, Work(u, s.r)) :
        \/ CommitRow(u, o) /\ otp' = [otp EXCEPT ![u] = s.otp]
        \/ Rollback(u, o) /\ otp' = otp
  BY DEF AcceptCode
<1> HIDE DEF r, s
<1>8. Keeps(u, Work(u, r), o) /\ Done(o)
  BY <1>2, <1>5, <1>6, <1>7, OpenWork, EnsureAndRefreshKeeps DEF IInv, Provisioned
<1>9. plat'.claimed = plat.claimed
  BY <1>7, <1>8, ExternalEffects DEF IInv, CommitRow, Rollback
<1>10. CASE Rollback(u, o) /\ otp' = otp
  <2>1. \A v \in Users : CodeOf(v)' = CodeOf(v)
    BY <1>10 DEF CodeOf
  <2> QED BY <1>9, <1>10, <2>1, InvisibleStep DEF Rollback
<1>11. CASE CommitRow(u, o) /\ otp' = [otp EXCEPT ![u] = None]
  <2>1. row' = [row EXCEPT ![u] = o.w.r] /\ o.w.r.email = CodeOf(u) /\ o.w.r.st \in Provisioned
    BY <1>5, <1>8, <1>11 DEF CommitRow, Keeps, Work, Done
  <2>2. /\ row'[u] = o.w.r /\ otp'[u] = None
        /\ \A v \in Users \ {u} : row'[v] = row[v] /\ otp'[v] = otp[v]
    BY <1>11, <2>1 DEF IInv, TypeOK
  <2>3. /\ StageOf(u)' \in {"waiting", "ready"} /\ CodeOf(u)' = None
        /\ AccountOf(u)' = CodeOf(u)
    BY <1>3, <1>4, <2>1, <2>2 DEF Seen, CodeOf
  <2>4. claimedBar' = claimedBar
    BY <1>9 DEF claimedBar
  <2>5. StageOf(u)' = "ready" => CodeOf(u) \in claimedBar
    BY <1>3, <2>3, <2>4 DEF Seen
  <2>6. Promise!Free(CodeOf(u))
    <3>1. ASSUME NEW v \in Users PROVE AccountOf(v) # CodeOf(u)
      <4>1. CASE v = u
        BY <1>1, <1>3, <1>4, <4>1 DEF Seen, Provisioned
      <4>2. CASE v # u
        <5>1. AccountOf(u)' # None => AccountOf(u)' # AccountOf(v)'
          BY <4>2, IInvOneHolderNext DEF OneHolder
        <5>2. AccountOf(v)' = AccountOf(v)
          BY <2>2, <4>2, BarsAt
        <5> QED BY <1>4, <2>3, <5>1, <5>2
      <4> QED BY <4>1, <4>2
    <3> QED BY <2>2, <3>1, BarsAt DEF Promise!Free
  <2>7. Promise!Open(u, CodeOf(u), StageOf(u)')
    BY <1>4, <2>2, <2>3, <2>4, <2>5, <2>6, BarsAt DEF Promise!Open
  <2>8. CodeOf(u) \in Promise!Accounts
    BY <1>4 DEF Promise!Accounts
  <2> QED BY <2>3, <2>7, <2>8 DEF Promise!Next
<1> QED BY <1>2, <1>7, <1>10, <1>11

(* The wallet write of the HTTP process and the clock of the mail throttle.*)
LEMMA SideWriteImplements ==
  ASSUME IInv, NEW u \in Users, SyncWalletWrite(u) \/ ThrottleElapses(u)
  PROVE  UNCHANGED Promise!vars
<1>1. row \in [Users -> Rows] /\ otp' = otp /\ plat' = plat
  BY DEF SyncWalletWrite, ThrottleElapses, IInv, TypeOK
<1>2. \A v \in Users : row'[v].st = row[v].st /\ row'[v].conn = row[v].conn
  BY <1>1 DEF SyncWalletWrite, ThrottleElapses, Rows
<1>3. \A v \in Users : /\ StageOf(v)' = StageOf(v) /\ CodeOf(v)' = CodeOf(v)
                       /\ AccountOf(v)' = AccountOf(v)
  BY <1>1, <1>2 DEF StageOf, CodeOf, AccountOf
<1> QED BY <1>1, <1>3 DEF Promise!vars, stageBar, codeBar, accountBar, claimedBar

LEMMA ClaimImplements ==
  ASSUME IInv, NEW c \in Conns, ClaimConnection(c)
  PROVE  Promise!Next
<1>1. plat \in Platforms /\ plat' = [plat EXCEPT !.claimed = @ \cup {c}] /\ row' = row /\ otp' = otp
  BY DEF ClaimConnection, IInv, TypeOK
<1>2. plat'.claimed = plat.claimed \cup {c}
  BY <1>1 DEF Platforms
<1>3. claimedBar' = claimedBar \cup {c[1]}
  BY <1>2 DEF claimedBar
<1>4. stageBar' = stageBar /\ codeBar' = codeBar /\ accountBar' = accountBar
  BY <1>1 DEF stageBar, codeBar, accountBar, StageOf, CodeOf, AccountOf
<1>5. c[1] \in Promise!Accounts
  BY DEF Conns, Identities, Promise!Accounts
<1> QED BY <1>3, <1>4, <1>5 DEF Promise!Claim, Promise!Next

LEMMA UnseenImplements ==
  ASSUME IInv,
         \/ \E u \in Users : \/ \E code \in Codes : RejectCode(u, code)
                             \/ SyncWalletRead(u) \/ OtpExpires(u)
         \/ \E i \in Identities : ResetConnection(i)
         \/ UNCHANGED vars
  PROVE  UNCHANGED Promise!vars
<1>1. ASSUME UNCHANGED <<row, otp>>, plat'.claimed = plat.claimed
      PROVE  UNCHANGED Promise!vars
  BY <1>1, InvisibleStep DEF CodeOf
<1>2. ASSUME NEW u \in Users, NEW code \in Codes, RejectCode(u, code)
      PROVE  UNCHANGED Promise!vars
  BY <1>1, <1>2 DEF RejectCode
<1>3. ASSUME NEW u \in Users, SyncWalletRead(u) PROVE UNCHANGED Promise!vars
  BY <1>1, <1>3 DEF SyncWalletRead
<1>4. ASSUME NEW u \in Users, OtpExpires(u) PROVE UNCHANGED Promise!vars
  <2>1. otp[u] # None /\ otp[u] \in Otps /\ otp \in [Users -> Otps \cup {None}]
    BY <1>4 DEF OtpExpires, IInv, TypeOK
  <2> DEFINE o == [otp[u] EXCEPT !.expired = TRUE]
  <2>2. o \in Otps /\ o.email = otp[u].email
    BY <2>1 DEF Otps
  <2>3. otp' = [otp EXCEPT ![u] = o] /\ row' = row /\ plat' = plat
    BY <1>4 DEF OtpExpires
  <2> HIDE DEF o
  <2>4. \A v \in Users : CodeOf(v)' = CodeOf(v)
    BY <2>1, <2>2, <2>3, AttemptsAssumption DEF CodeOf
  <2> QED BY <2>3, <2>4, InvisibleStep
<1>5. ASSUME NEW i \in Identities, ResetConnection(i) PROVE UNCHANGED Promise!vars
  <2>1. plat'.claimed = plat.claimed
    BY <1>5, RotatedType DEF ResetConnection, IInv, TypeOK
  <2> QED BY <1>1, <1>5, <2>1 DEF ResetConnection
<1>6. ASSUME UNCHANGED vars PROVE UNCHANGED Promise!vars
  BY <1>1, <1>6 DEF vars
<1> QED BY <1>2, <1>3, <1>4, <1>5, <1>6

-----------------------------------------------------------------------------
LEMMA InitImplements == Init => Promise!Init
<1> SUFFICES ASSUME Init PROVE Promise!Init
  OBVIOUS
<1>1. \A u \in Users : row[u].st = "absent" /\ row[u].conn = None /\ otp[u] = None
  BY DEF Init, NoRow
<1>2. \A u \in Users : StageOf(u) = "outside" /\ CodeOf(u) = None /\ AccountOf(u) = None
  BY <1>1 DEF StageOf, CodeOf, AccountOf
<1>3. claimedBar = {}
  BY DEF Init, claimedBar
<1> QED BY <1>2, <1>3 DEF Promise!Init, stageBar, codeBar, accountBar

LEMMA NextImplements == IInv /\ IInv' /\ [Next]_vars => [Promise!Next]_(Promise!vars)
<1> SUFFICES ASSUME IInv, IInv', [Next]_vars PROVE [Promise!Next]_(Promise!vars)
  OBVIOUS
<1>1. CASE UNCHANGED vars
  BY <1>1, UnseenImplements
<1>2. CASE Next
  <2>1. ASSUME NEW u \in Users, Start(u) PROVE [Promise!Next]_(Promise!vars)
    BY <1>2, <2>1, StartImplements
  <2>2. ASSUME NEW u \in Users, HostedUserMustFinishClaim(u)
        PROVE  [Promise!Next]_(Promise!vars)
    BY <1>2, <2>2, GateImplements
  <2>3. ASSUME NEW u \in Users, NEW e \in Emails, StartEmailVerification(u, e)
        PROVE  Promise!Next
    BY <2>3, SendImplements
  <2>4. ASSUME NEW u \in Users, CancelHosted(u) PROVE [Promise!Next]_(Promise!vars)
    BY <2>4, CancelImplements
  <2>5. ASSUME NEW u \in Users, NEW code \in Codes, AcceptCode(u, code)
        PROVE  [Promise!Next]_(Promise!vars)
    BY <2>5, AcceptImplements
  <2>6. ASSUME NEW u \in Users, SyncWalletWrite(u) \/ ThrottleElapses(u)
        PROVE  UNCHANGED Promise!vars
    BY <2>6, SideWriteImplements
  <2>7. ASSUME NEW c \in Conns, ClaimConnection(c) PROVE Promise!Next
    BY <2>7, ClaimImplements
  <2> QED BY <1>2, <2>1, <2>2, <2>3, <2>4, <2>5, <2>6, <2>7, UnseenImplements DEF Next
<1> QED BY <1>1, <1>2

(* Onboarding keeps its promise for any number of users and inboxes,       *)
(* however its remote calls fail and its transactions interleave with the  *)
(* HTTP process, the Platform and the clock: an account is opened only     *)
(* where the code went, for one user, for good, and ready follows a claim. *)
THEOREM PromiseKept == Spec => KeepsPromise
<1>1. Init => Promise!Init
  BY InitImplements
<1>2. IInv /\ IInv' /\ [Next]_vars => [Promise!Next]_(Promise!vars)
  BY NextImplements
<1> QED BY <1>1, <1>2, InvariantIInv, PTL DEF Spec, KeepsPromise, Promise!Spec
=============================================================================
