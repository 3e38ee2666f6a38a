---------------------------- MODULE SendInvites ----------------------------
(***************************************************************************)
(* Payments by Telegram handle (cloud/hosted_recipient_lookup.py,          *)
(* hosted_send_invite.py, hosted_handle_claim.py,                          *)
(* hosted_invite_sender_notify.py): the agent resolves a handle to a       *)
(* wallet or makes an invite link; the invited user opens it and claims    *)
(* the handle; when his wallet is known the senders are told.              *)
(*                                                                         *)
(* Usernames are Telegram's and move from account to account; a row keeps  *)
(* the one its user had at his last /start. Rows get their wallet in the   *)
(* Telegram process, which handles one update at a time, or in the HTTP    *)
(* process, which has no loop to send a message with.                      *)
(***************************************************************************)
EXTENDS Naturals, Sequences, FiniteSets

CONSTANTS
  Users, Handles,  \* recipients, normalized handles
  Senders,         \* those whose agent resolves handles
  Lookups,         \* tool threads that run a lookup
  Movers,          \* users who may change their username
  HttpUsers,       \* users who use the mini app or POST /v1/invoke
  None,
  MaxInvites       \* bound: rows of hosted_send_invites

ASSUME InvitesAssumption ==
  /\ Movers \subseteq Users /\ HttpUsers \subseteq Users
  /\ MaxInvites \in Nat
  /\ None \notin Users \cup Handles
  /\ None \notin [sender: Senders, target: Handles]

VARIABLES
  username,  \* username[u]: what Telegram says u is called
  name,      \* name[u]: telegram_username of u's row
  stage,     \* of u's row; provisioned when it has an agent
  wallet,    \* has u's row a wallet_address?
  invites,   \* hosted_send_invites, in the order of creation
  claim,     \* hosted_handle_claims
  looking,   \* looking[l]: the invite lookup l is about to insert
  starting   \* the user whose /start has handled its invite link

vars == <<username, name, stage, wallet, invites, claim, looking, starting>>

Stages == {"absent", "email", "provisioned"}
Requests == [sender: Senders, target: Handles]
Fates == {"no", "sent", "dropped"}  \* scheduled, or dropped for want of a loop
Invites == [sender: Senders, target: Handles, expired: BOOLEAN,
            consumed: BOOLEAN,  \* consumed_at
            notified: BOOLEAN,  \* sender_notified_at
            told: Fates]        \* history: the message to the sender

Distinct(f) == \A u, v \in Users : f[u] = f[v] /\ f[u] # None => u = v

Init ==
  /\ username \in {f \in [Users -> Handles \cup {None}] : Distinct(f)}
  /\ name = [u \in Users |-> None]
  /\ stage = [u \in Users |-> "absent"]
  /\ wallet = [u \in Users |-> FALSE]
  /\ invites = <<>>
  /\ claim = [h \in Handles |-> None]
  /\ looking = [l \in Lookups |-> None]
  /\ starting = None

-----------------------------------------------------------------------------
(* The agent's tool resolve_hosted_recipient_by_handle.                    *)

(* _resolve_hosted_row_for_handle: the rows a handle may mean; a claim     *)
(* decides alone, and its user may have no row.                            *)
Matches(h) ==
  IF claim[h] # None THEN {claim[h]} \ {u \in Users : stage[u] = "absent"}
  ELSE {u \in Users : name[u] = h}

(* No row and no claim, or one row without a wallet.                       *)
OffersInvite(h) ==
  \/ Matches(h) = {} /\ claim[h] = None
  \/ Cardinality(Matches(h)) = 1 /\ \A u \in Matches(h) : ~wallet[u]

Open(i) == ~invites[i].consumed /\ ~invites[i].expired

Existing(r) ==
  {i \in DOMAIN invites : /\ Open(i)
                          /\ invites[i].sender = r.sender /\ invites[i].target = r.target}

(* try_create_invite_for_not_found reads; an invite it finds is reused.    *)
LookupHostedRecipient(l) ==
  /\ looking[l] = None
  /\ \E r \in Requests :
       /\ OffersInvite(r.target) /\ Existing(r) = {}
       /\ looking' = [looking EXCEPT ![l] = r]
  /\ UNCHANGED <<username, name, stage, wallet, invites, claim, starting>>

(* ... and inserts, committed with the lookup.                             *)
CreateInvite(l) ==
  /\ looking[l] # None /\ Len(invites) < MaxInvites
  /\ invites' = Append(invites, [sender |-> looking[l].sender, target |-> looking[l].target,
                                 expired |-> FALSE, consumed |-> FALSE,
                                 notified |-> FALSE, told |-> "no"])
  /\ looking' = [looking EXCEPT ![l] = None]
  /\ UNCHANGED <<username, name, stage, wallet, claim, starting>>

LookupFails(l) ==
  /\ looking[l] # None
  /\ looking' = [looking EXCEPT ![l] = None]
  /\ UNCHANGED <<username, name, stage, wallet, invites, claim, starting>>

-----------------------------------------------------------------------------
(* /start inv_<token>: a transaction of its own, before provisioning.      *)

(* Expired, opened from another account, claimed by another, or the        *)
(* transaction fails: nothing changes and /start goes on.                  *)
OpenInviteInVain(u, i) ==
  /\ starting = None /\ i \in DOMAIN invites
  /\ starting' = u
  /\ UNCHANGED <<username, name, stage, wallet, invites, claim, looking>>

(* Seeded bug: the handle goes to whoever has the username now.            *)
AcceptInvite_Moves(u, i) ==
  /\ starting = None /\ i \in DOMAIN invites
  /\ ~invites[i].expired /\ username[u] = invites[i].target
  /\ starting' = u
  /\ invites' = [invites EXCEPT ![i].consumed = TRUE]
  /\ claim' = [claim EXCEPT ![invites[i].target] = u]
  /\ UNCHANGED <<username, name, stage, wallet, looking>>

(* consume_send_invite and register_handle_claim; a link already consumed  *)
(* is accepted again.                                                      *)
AcceptInvite(u, i) ==
  /\ starting = None /\ i \in DOMAIN invites
  /\ ~invites[i].expired /\ username[u] = invites[i].target
  /\ claim[invites[i].target] \in {None, u}
  /\ starting' = u
  /\ invites' = [invites EXCEPT ![i].consumed = TRUE]
  /\ claim' = [claim EXCEPT ![invites[i].target] = u]
  /\ UNCHANGED <<username, name, stage, wallet, looking>>

-----------------------------------------------------------------------------
(* maybe_notify_invite_senders_recipient_wallet_ready.                     *)

(* Seeded bug: only claimed handles are looked at.                         *)
TargetHandles_ClaimsOnly(u, n) == {h \in Handles : claim[h] = u}

(* _target_handles_for_recipient, n the name in the row.                   *)
TargetHandles(u, n) == {h \in Handles : h = n \/ claim[h] = u}

Unnotified(u, n) ==
  {i \in DOMAIN invites : invites[i].target \in TargetHandles(u, n) /\ ~invites[i].notified}

(* Mark the invites notified, which the commit keeps, and send the         *)
(* messages or drop them, whether or not the commit happens.               *)
Notify(u, n, marks, fate) ==
  invites' = [i \in DOMAIN invites |->
                IF i \in Unnotified(u, n)
                THEN [invites[i] EXCEPT !.notified = @ \/ marks,
                                        !.told = IF @ = "sent" THEN @ ELSE fate]
                ELSE invites[i]]

NotifyIfReady(u, n) ==
  IF wallet'[u] THEN Notify(u, n, TRUE, "sent") ELSE UNCHANGED invites

(* refresh_hosted_user_claim_state of a provisioned row, which may learn   *)
(* the wallet.                                                             *)
Refresh(u, n) ==
  /\ wallet' \in {wallet, [wallet EXCEPT ![u] = TRUE]}
  /\ NotifyIfReady(u, n)

(* An exception or a crash before the commit: the messages already         *)
(* scheduled stay.                                                         *)
RefreshRolledBack(u, n) ==
  /\ UNCHANGED wallet
  /\ \/ UNCHANGED invites
     \/ Notify(u, n, FALSE, "sent")

-----------------------------------------------------------------------------
(* The Telegram process.                                                   *)

(* The name /start writes to the row: a missing username leaves it.        *)
NameAtStart(u) == IF username[u] = None THEN name[u] ELSE username[u]

(* /start, an email or a code: the row keeps the name, and may become      *)
(* provisioned.                                                            *)
Start(u) ==
  /\ starting \in {None, u}
  /\ starting' = None
  /\ \/ /\ name' = [name EXCEPT ![u] = NameAtStart(u)]
        /\ \/ /\ stage[u] # "provisioned"
              /\ stage' = [stage EXCEPT ![u] = "email"]
              /\ UNCHANGED <<wallet, invites>>
           \/ /\ stage' = [stage EXCEPT ![u] = "provisioned"]
              /\ Refresh(u, NameAtStart(u))
     \/ UNCHANGED <<name, stage>> /\ RefreshRolledBack(u, NameAtStart(u))
  /\ UNCHANGED <<username, claim, looking>>

(* Any other message of a provisioned user meets the gate, which commits.  *)
Message(u) ==
  /\ starting = None /\ stage[u] = "provisioned"
  /\ Refresh(u, name[u])
  /\ UNCHANGED <<username, name, stage, claim, looking, starting>>

MessageRolledBack(u) ==
  /\ starting = None /\ stage[u] = "provisioned"
  /\ RefreshRolledBack(u, name[u])
  /\ UNCHANGED <<username, name, stage, claim, looking, starting>>

(* The HTTP process. POST /v1/hosted/sync-wallet writes the wallet; the    *)
(* wallet tools and the mini app backfill it when it is missing, and mark  *)
(* the invites, but schedule_invite_sender_recipient_ready_notify returns  *)
(* without a registered loop.                                              *)
HostedSyncWallet(u) ==
  /\ u \in HttpUsers /\ stage[u] = "provisioned"
  /\ wallet' = [wallet EXCEPT ![u] = TRUE]
  /\ UNCHANGED <<username, name, stage, invites, claim, looking, starting>>

BackfillOverHttp(u) ==
  /\ u \in HttpUsers /\ stage[u] = "provisioned" /\ ~wallet[u]
  /\ wallet' = [wallet EXCEPT ![u] = TRUE]
  /\ Notify(u, name[u], TRUE, "dropped")
  /\ UNCHANGED <<username, name, stage, claim, looking, starting>>

-----------------------------------------------------------------------------
(* Environment: Telegram moves a username; time passes.                    *)
ChangeUsername(u) ==
  /\ u \in Movers
  /\ \E h \in Handles \cup {None} : username' = [username EXCEPT ![u] = h]
  /\ Distinct(username')
  /\ UNCHANGED <<name, stage, wallet, invites, claim, looking, starting>>

InviteExpires(i) ==
  /\ i \in DOMAIN invites /\ ~invites[i].expired
  /\ invites' = [invites EXCEPT ![i].expired = TRUE]
  /\ UNCHANGED <<username, name, stage, wallet, claim, looking, starting>>

OpenInvite(u, i) ==
  OpenInviteInVain(u, i) \/ AcceptInvite(u, i)

Next ==
  \/ \E l \in Lookups : LookupHostedRecipient(l) \/ CreateInvite(l) \/ LookupFails(l)
  \/ \E u \in Users :
       \/ \E i \in 1..MaxInvites : OpenInvite(u, i)
       \/ Start(u)
       \/ Message(u)
       \/ MessageRolledBack(u)
       \/ HostedSyncWallet(u)
       \/ BackfillOverHttp(u)
       \/ ChangeUsername(u)
  \/ \E i \in 1..MaxInvites : InviteExpires(i)

Spec == Init /\ [][Next]_vars

(* A started /start ends, and users keep writing: the gate commits again   *)
(* and again.                                                              *)
FairSpec ==
  /\ Spec
  /\ \A u \in Users : WF_vars(starting = u /\ Start(u)) /\ SF_vars(Message(u))

-----------------------------------------------------------------------------
(* Type invariant.                                                         *)
TypeOK ==
  /\ username \in [Users -> Handles \cup {None}]
  /\ name \in [Users -> Handles \cup {None}]
  /\ stage \in [Users -> Stages]
  /\ wallet \in [Users -> BOOLEAN]
  /\ invites \in Seq(Invites) /\ Len(invites) <= MaxInvites
  /\ claim \in [Handles -> Users \cup {None}]
  /\ looking \in [Lookups -> Requests \cup {None}]
  /\ starting \in Users \cup {None}

(* A claimed handle stays with the Telegram account that claimed it,       *)
(* whoever gets the username later ("for future sends (even if they change *)
(* username later)"), and only its holder of the moment claims it.         *)
ClaimsStay ==
  [][\A h \in Handles : claim'[h] # claim[h] =>
       claim[h] = None /\ username[claim'[h]] = h]_vars

(* An invite was consumed by the one whose claim it left.                  *)
ConsumedMeansClaimed ==
  \A i \in DOMAIN invites : invites[i].consumed => claim[invites[i].target] # None

(* The sender of an invite is told if its recipient has the handle in his  *)
(* row and a wallet, and keeps both; only the HTTP process, which finds no *)
(* loop to send with, may mark the invite first and drop the message.      *)
SenderTold ==
  \A i \in 1..MaxInvites, u \in Users :
    (i \in DOMAIN invites /\ wallet[u] /\ name[u] = invites[i].target)
    ~> (i \in DOMAIN invites /\ (invites[i].told # "no" \/ name[u] # invites[i].target))

=============================================================================
