-------------------------- MODULE HostedOnboarding --------------------------
(***************************************************************************)
(* Onboarding of hosted Telegram users: email OTP, provisioning at the     *)
(* 1Claw Platform, claim, readiness.                                       *)
(*                                                                         *)
(* The Telegram process handles one update at a time (python-telegram-bot  *)
(* without concurrent updates), so a handler is one action whose database  *)
(* transaction commits or rolls back; what it did at the Platform and the  *)
(* mails it sent stay either way. The HTTP process works on the same       *)
(* table: its wallet write happens some time after its read.               *)
(***************************************************************************)
EXTENDS HostedProvision

CONSTANT MaxAttempts   \* settings.hosted_email_verification_max_attempts

VARIABLES
  row,      \* [Users -> Rows]: hosted_platform_users
  otp,      \* [Users -> Otps or None]: hosted_email_verifications
  plat,     \* the Platform
  mails,    \* [Users -> SUBSET Links]: claim links handed to the mailer
  syncing,  \* [Users -> agent]: agent id the HTTP process read for a wallet
            \* write it has not done yet
  guesses   \* history: wrong codes compared with the OTP now stored

vars == <<row, otp, plat, mails, syncing, guesses>>

Otps == [email: Emails, expired: BOOLEAN, attempts: 0..MaxAttempts]

ASSUME AttemptsAssumption == MaxAttempts \in Nat \ {0} /\ None \notin Otps

Codes == {"right", "wrong", "not_a_code"}

Init ==
  /\ row = [u \in Users |-> NoRow]
  /\ otp = [u \in Users |-> None]
  /\ plat = [cur |-> [i \in Identities |-> 0], booted |-> {}, claimed |-> {},
             link |-> [c \in Conns |-> 0]]
  /\ mails = [u \in Users |-> {}]
  /\ syncing = [u \in Users |-> None]
  /\ guesses = [u \in Users |-> 0]

-----------------------------------------------------------------------------
(* ensure_hosted_telegram_row.                                             *)
EnsureHostedTelegramRow(r) ==
  IF r.st = "absent" /\ RequireVerified THEN [r EXCEPT !.st = "awaiting_email"] ELSE r

(* verified_email_already_taken.                                           *)
VerifiedEmailAlreadyTaken(u, e) == \E v \in Users \ {u} : row[v].email = e

Work(u, r) == [r |-> r, p |-> plat, mails |-> mails[u]]

(* The end of a transaction with outcome o: db.commit() writes the row,    *)
(* an exception or a crash before the commit leaves it.                    *)
External(u, o) ==
  /\ plat' = o.w.p
  /\ mails' = [mails EXCEPT ![u] = o.w.mails]

(* Seeded bug: the row is committed though provisioning failed.            *)
CommitRow_IgnoresError(u, o) == row' = [row EXCEPT ![u] = o.w.r] /\ External(u, o)

CommitRow(u, o) == o.ok /\ row' = [row EXCEPT ![u] = o.w.r] /\ External(u, o)
Rollback(u, o) == row' = row /\ External(u, o)

(* /start: an email prompt, or provisioning and a claim poll.              *)
StartOutcomes(u) ==
  LET w == Work(u, EnsureHostedTelegramRow(row[u]))
  IN  IF RequireVerified /\ AwaitsEmail(w.r) THEN {Commit(w)} ELSE EnsureAndRefresh(u, w)

Start(u) ==
  /\ \E o \in StartOutcomes(u) : CommitRow(u, o) \/ Rollback(u, o)
  /\ UNCHANGED <<otp, syncing, guesses>>

(* A message with an address while one is awaited: start_email_verification. *)
(* An invalid or taken address, or an undeliverable mail, rolls back.      *)
StartEmailVerification(u, e) ==
  /\ row[u].st = "awaiting_email"
  /\ ~VerifiedEmailAlreadyTaken(u, e)
  /\ otp' = [otp EXCEPT ![u] = [email |-> e, expired |-> FALSE, attempts |-> 0]]
  /\ row' = [row EXCEPT ![u].st = "awaiting_email_verification"]
  /\ guesses' = [guesses EXCEPT ![u] = 0]
  /\ UNCHANGED <<plat, mails, syncing>>

(* confirm_email_verification: what it leaves in the session. error is the *)
(* HostedVerificationError it raises, if any.                              *)
Session(r, o, error) == [r |-> r, otp |-> o, error |-> error]

(* Seeded bug: the address is only checked when the code is sent.          *)
ConfirmEmailVerification_NoTakenCheck(u, code) ==
  LET r == row[u]
      o == otp[u]
      restart == Session([r EXCEPT !.st = "awaiting_email"], None, "send_email")
  IN  IF code = "not_a_code" THEN Session(r, o, "bad_code")
      ELSE IF o = None THEN Session(r, o, "send_email")
      ELSE IF o.expired \/ o.attempts >= MaxAttempts THEN restart
      ELSE IF code = "wrong"
           THEN Session(r, [o EXCEPT !.attempts = @ + 1], "bad_code")
      ELSE Session([r EXCEPT !.st = "email_verified", !.email = o.email], None, "none")

ConfirmEmailVerification(u, code) ==
  LET r == row[u]
      o == otp[u]
      restart == Session([r EXCEPT !.st = "awaiting_email"], None, "send_email")
  IN  IF code = "not_a_code" THEN Session(r, o, "bad_code")
      ELSE IF o = None THEN Session(r, o, "send_email")
      ELSE IF \/ VerifiedEmailAlreadyTaken(u, o.email)
              \/ o.expired
              \/ o.attempts >= MaxAttempts
           THEN restart
      ELSE IF code = "wrong"
           THEN Session(r, [o EXCEPT !.attempts = @ + 1], "bad_code")
      ELSE Session([r EXCEPT !.st = "email_verified", !.email = o.email], None, "none")

(* The code was compared with the stored hash and found wrong.             *)
Compared(u, code, s) == code = "wrong" /\ s.error = "bad_code"

(* The chat handler around it rolls the session back on every              *)
(* HostedVerificationError.                                                *)
RejectCode(u, code) ==
  /\ row[u].st = "awaiting_email_verification"
  /\ LET s == ConfirmEmailVerification(u, code)
     IN  /\ s.error # "none"
         /\ guesses' = IF Compared(u, code, s) /\ guesses[u] <= MaxAttempts
                       THEN [guesses EXCEPT ![u] = @ + 1]
                       ELSE guesses
  /\ UNCHANGED <<row, otp, plat, mails, syncing>>

(* A right code goes on to provisioning in the same transaction.           *)
AcceptCode(u, code) ==
  /\ row[u].st = "awaiting_email_verification"
  /\ LET s == ConfirmEmailVerification(u, code)
     IN  /\ s.error = "none"
         /\ \E o \in EnsureAndRefresh(u, Work(u, s.r)) :
              \/ CommitRow(u, o) /\ otp' = [otp EXCEPT ![u] = s.otp]
                                 /\ guesses' = [guesses EXCEPT ![u] = 0]
              \/ Rollback(u, o) /\ UNCHANGED <<otp, guesses>>
  /\ UNCHANGED syncing

(* Seeded bug: /cancel in any state.                                       *)
CancelHosted_AnyState(u) ==
  /\ row[u].st # "absent"
  /\ otp' = [otp EXCEPT ![u] = None]
  /\ row' = [row EXCEPT ![u].st = "awaiting_email", ![u].email = None]
  /\ guesses' = [guesses EXCEPT ![u] = 0]
  /\ UNCHANGED <<plat, mails, syncing>>

(* /cancel.                                                                *)
CancelHosted(u) ==
  /\ RequireVerified
  /\ row[u].st \in {"awaiting_email", "awaiting_email_verification", "email_verified"}
  /\ otp' = [otp EXCEPT ![u] = None]
  /\ row' = [row EXCEPT ![u].st = "awaiting_email", ![u].email = None]
  /\ guesses' = [guesses EXCEPT ![u] = 0]
  /\ UNCHANGED <<plat, mails, syncing>>

(* Seeded bug: the gate polls and rolls back.                              *)
HostedUserMustFinishClaim_RollsBack(u) ==
  /\ ~(RequireVerified /\ AwaitsEmail(row[u]))
  /\ row[u].st # "absent"
  /\ \E o \in RefreshHostedUserClaimState(Work(u, row[u])) : Rollback(u, o)
  /\ UNCHANGED <<otp, syncing, guesses>>

(* Any other message meets the gate, which polls the claim.                *)
HostedUserMustFinishClaim(u) ==
  /\ ~(RequireVerified /\ AwaitsEmail(row[u]))
  /\ row[u].st # "absent"
  /\ \E o \in RefreshHostedUserClaimState(Work(u, row[u])) : CommitRow(u, o)
  /\ UNCHANGED <<otp, syncing, guesses>>

-----------------------------------------------------------------------------
(* The HTTP process. POST /v1/hosted/sync-wallet overwrites the wallet     *)
(* with the one of the agent it read; the backfill of the wallet tools     *)
(* does so only when it read an empty column.                              *)
SyncWalletRead(u) ==
  /\ syncing[u] = None /\ row[u].agent # None
  /\ syncing' = [syncing EXCEPT ![u] = row[u].agent]
  /\ UNCHANGED <<row, otp, plat, mails, guesses>>

SyncWalletWrite(u) ==
  /\ syncing[u] # None
  /\ \/ row' = [row EXCEPT ![u].wallet = syncing[u]]
     \/ row' = row      \* signing-keys GET failed
  /\ syncing' = [syncing EXCEPT ![u] = None]
  /\ UNCHANGED <<otp, plat, mails, guesses>>

(* Environment.                                                            *)
ClaimConnection(c) ==
  /\ c \in plat.booted \ plat.claimed /\ Known(plat, c)
  /\ plat' = [plat EXCEPT !.claimed = @ \cup {c}]
  /\ UNCHANGED <<row, otp, mails, syncing, guesses>>

ResetConnection(i) ==
  /\ CanRotate(plat, i)
  /\ plat' = Rotated(plat, i)
  /\ UNCHANGED <<row, otp, mails, syncing, guesses>>

OtpExpires(u) ==
  /\ otp[u] # None /\ ~otp[u].expired
  /\ otp' = [otp EXCEPT ![u].expired = TRUE]
  /\ UNCHANGED <<row, plat, mails, syncing, guesses>>

ThrottleElapses(u) ==
  /\ row[u].sent = "recent"
  /\ row' = [row EXCEPT ![u].sent = "old"]
  /\ UNCHANGED <<otp, plat, mails, syncing, guesses>>

Next ==
  \/ \E u \in Users :
       \/ Start(u)
       \/ \E e \in Emails : StartEmailVerification(u, e)
       \/ \E code \in Codes : RejectCode(u, code)
       \/ \E code \in Codes : AcceptCode(u, code)
       \/ CancelHosted(u)
       \/ HostedUserMustFinishClaim(u)
       \/ SyncWalletRead(u)
       \/ SyncWalletWrite(u)
       \/ OtpExpires(u)
       \/ ThrottleElapses(u)
  \/ \E c \in Conns : ClaimConnection(c)
  \/ \E i \in Identities : ResetConnection(i)

Spec == Init /\ [][Next]_vars

-----------------------------------------------------------------------------
(* Type invariant.                                                         *)
TypeOK ==
  /\ row \in [Users -> Rows]
  /\ otp \in [Users -> Otps \cup {None}]
  /\ plat \in Platforms
  /\ mails \in [Users -> SUBSET Links]
  /\ syncing \in [Users -> Conns \cup {None}]
  /\ guesses \in [Users -> 0..(MaxAttempts + 1)]

-----------------------------------------------------------------------------
(* Safety.                                                                 *)

(* No inbox is verified for two Telegram users, whoever asked first and    *)
(* whoever confirmed first: the address is only reserved by the second of  *)
(* the two checks, in confirm_email_verification.                          *)
VerifiedEmailUnique ==
  \A u, v \in Users : u # v /\ row[u].email # None => row[u].email # row[v].email

(* Two users never hold the same Platform connection, hence never the same *)
(* agent and wallet, though the Platform keys connections by the address   *)
(* and /cancel gives addresses back.                                       *)
ConnectionNotShared ==
  \A u, v \in Users : u # v /\ row[u].conn # None => row[u].conn # row[v].conn

(* A committed row is either before provisioning, without any Platform     *)
(* data, or provisioned, with a connection, a claim link and (when it is   *)
(* mandatory) a verified inbox; email_verified is never left behind.       *)
ProvisionedRowComplete ==
  \A u \in Users :
    IF AwaitsEmail(row[u])
    THEN row[u].conn = None /\ row[u].url = None /\ row[u].email = None
    ELSE /\ row[u].st \in {"awaiting_claim", "ready"}
         /\ row[u].conn # None /\ row[u].url # None
         /\ RequireVerified => row[u].email # None

(* An OTP is stored exactly while a code is awaited, whichever of send,    *)
(* confirm, /cancel and their rollbacks came last.                         *)
OtpIffAwaited ==
  \A u \in Users : otp[u] # None <=> row[u].st = "awaiting_email_verification"

(* Aurey calls a user ready only when the Platform recorded the claim of   *)
(* the very connection the row holds.                                      *)
ReadyMeansClaimed ==
  \A u \in Users : row[u].st = "ready" => row[u].conn \in plat.claimed

(* The wallet shown to the user and the stored ocv_ key belong to the      *)
(* agent that signs for the row, across lost answers, reissues, polls and  *)
(* the writes of the HTTP process. Needs replies that name the agent.      *)
CredentialsOfOneAgent ==
  \A u \in Users :
    /\ row[u].wallet # None => row[u].wallet = row[u].agent
    /\ row[u].key # None => row[u].key = row[u].agent
    /\ row[u].agent # None => row[u].agent = row[u].conn

(* The claim link kept for the user opens the connection kept for him.     *)
ClaimLinkOfConnection ==
  \A u \in Users : row[u].url # None => row[u].url[1] = row[u].conn

(* Once ready, a user stays ready with the same connection: /start does    *)
(* not bootstrap again, /cancel and late polls do not take it back.        *)
ReadyStable ==
  [][\A u \in Users : row[u].st = "ready" =>
       row'[u].st = "ready" /\ row'[u].conn = row[u].conn]_vars

(* A /start outside the throttle (hosted_claim_email_throttle_seconds)     *)
(* whose commit leaves the user waiting for the claim has handed the link  *)
(* now stored to the mailer, whichever of bootstrap, recovery, poll and    *)
(* reissue put it there and whatever was lost before.                      *)
StartMailsLink ==
  [][\A u \in Users :
       RequireVerified /\ Start(u) /\ row[u].sent # "recent"
       /\ row'[u] # row[u] /\ row'[u].st = "awaiting_claim"
         => row'[u].url \in mails'[u]]_vars

-----------------------------------------------------------------------------
(* Refinement. What the promise sees of the detailed state: the stage a    *)
(* committed row is in, the inbox of the stored OTP, and the identity of   *)
(* the connection in the row.                                              *)
StageOf(u) ==
  CASE row[u].st = "awaiting_email_verification" -> "code"
    [] row[u].st = "awaiting_claim" -> "waiting"
    [] row[u].st = "ready" -> "ready"
    [] OTHER -> "outside"
CodeOf(u) == IF otp[u] = None THEN None ELSE otp[u].email
AccountOf(u) == IF row[u].conn = None THEN None ELSE row[u].conn[1]

stageBar == [u \in Users |-> StageOf(u)]
codeBar == [u \in Users |-> CodeOf(u)]
accountBar == [u \in Users |-> AccountOf(u)]
claimedBar == {c[1] : c \in plat.claimed}

Promise == INSTANCE OnboardingPromise WITH
             Inboxes <- Emails, InboxRequired <- RequireVerified,
             stage <- stageBar, code <- codeBar, account <- accountBar, claimed <- claimedBar

(* Onboarding keeps its promise: every handler, with all its remote calls, *)
(* its recovery and its commit or rollback, is one step of it or none.     *)
KeepsPromise == Promise!Spec

-----------------------------------------------------------------------------
(* What the code says of itself and does not do.                           *)

(* hosted_email_verification_max_attempts: "Too many wrong attempts - send *)
(* your email again for a fresh code".                                     *)
GuessesBounded == \A u \in Users : guesses[u] <= MaxAttempts

(* hosted_claim_email_throttle_seconds: "Minimum seconds between outbound  *)
(* claim emails for the same user". No link is handed to the mailer while  *)
(* the last claim mail is younger than that.                               *)
ClaimMailsSpaced ==
  [][\A u \in Users : row[u].sent = "recent" => mails'[u] = mails[u]]_vars

-----------------------------------------------------------------------------
(* Liveness. A user who keeps writing reaches the gate again and again,    *)
(* and the Platform does not report a claimed connection as unclaimed for  *)
(* ever, so a poll that makes the row ready is eventually taken.           *)
GateMakesReady(u) == HostedUserMustFinishClaim(u) /\ row'[u].st = "ready"
FairSpec == Spec /\ \A u \in Users : WF_vars(GateMakesReady(u))

(* A user whose connection was claimed becomes ready.                      *)
ClaimedBecomesReady ==
  \A u \in Users : row[u].conn \in plat.claimed ~> row[u].st = "ready"

=============================================================================
