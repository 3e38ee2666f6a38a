----------------------------- MODULE AgentTurns -----------------------------
(***************************************************************************)
(* A turn of the agent that moves money: the prepared-transaction store    *)
(* (runtime.py), the prepare and execute tools (tools/agent_tools.py) over *)
(* the Web3 pipeline (graphs/evm_tx_pipeline.py), the retries of the model *)
(* call (service/invoke.py) and the message to a transfer's recipient      *)
(* (telegram/notifications.py).                                            *)
(*                                                                         *)
(* Telegram's updates are handled one at a time, so turns follow each      *)
(* other; the tool calls of one turn run in parallel threads.  The model   *)
(* is the environment: it may call any tool with anything it has seen.     *)
(***************************************************************************)
EXTENDS TxEnvelopes, FiniteSets

CONSTANTS
  Talkers,     \* the users whose messages start turns
  Configs,     \* the settings under which the process may run
  Asked,       \* what the model asks the prepare tools for
  Copied,      \* envelopes it writes out itself
  Quoted,      \* what LI.FI may answer: [from, chainId, nonce]
  MaxEntries,  \* PreparedTransactionStore: capacity ...
  Ttl,         \* ... and lifetime, in clock ticks
  MaxAttempts, \* _MODEL_TRANSIENT_ATTEMPTS
  MaxClock, MaxPuts, MaxExec, MaxTurns,  \* bounds of the instance ...
  MaxUsed      \* ... and on the last three and the retries together

ASSUME TurnsAssumption ==
  /\ Talkers \subseteq Users
  /\ Configs \subseteq Settings /\ Asked \subseteq Prompts /\ Copied \subseteq Envelopes
  /\ MaxEntries \in Nat \ {0} /\ Ttl \in Nat /\ MaxAttempts \in Nat \ {0}
  /\ MaxClock \in Nat /\ MaxPuts \in Nat /\ MaxExec \in Nat /\ MaxTurns \in Nat
  /\ MaxUsed \in Nat
  /\ Quoted \subseteq QuoteAnswers
  /\ None \notin Written /\ None \notin Envelopes

VARIABLES
  cfg,    \* settings, fixed at start
  clock,  \* monotonic()
  recs,   \* recs[i]: the i-th record put into the store
  ex,     \* ex[n]: the n-th call of tx_execute
  pool,   \* transactions the node holds
  mined,  \* transactions in blocks, with their receipt's status
  turn,   \* the turn in progress
  turns,  \* how many there were
  dms     \* "sent you a transfer on Aurey", as scheduled

vars == <<cfg, clock, recs, ex, pool, mined, turn, turns, dms>>
chain == <<pool, mined>>

Puts == 1..MaxPuts
Execs == 1..MaxExec
Times == 0..MaxClock

(* by is the user of the turn; src the lifi_prepared record an envelope    *)
(* was made of, 0 if none; from the wallet asked for.                      *)
NoRecord == [st |-> "absent", kind |-> None, body |-> None, by |-> None, born |-> 0,
             src |-> 0, from |-> None]

Outcomes == {"ok", "invalid_input", "broadcast_failed", "secret_not_configured",
             "hosted_signing_context_required", "policy_rejected", "simulation_failed",
             "raised", "secret_not_found", "secret_unavailable"}

(* How tx_execute was told what to do: prepared_id, the summary that a     *)
(* prepare tool returned (its prepared_id inside), or a whole envelope.    *)
Forms == {"id", "summary", "envelope"}

NoExec == [st |-> "absent", form |-> None, id |-> 0, env |-> None,
           by |-> None, signer |-> None, nonce |-> None,
           sent |-> FALSE, out |-> None, status |-> 0]

NoTurn == [user |-> None, ctx |-> "none", attempt |-> 0, pending |-> None,
           bound |-> None, resolved |-> {}, raised |-> FALSE]

(* A transaction is what was signed; equal ones have one hash.             *)
Tx(e) == [from |-> e.signer, nonce |-> e.nonce, kind |-> e.env.kind, pay |-> e.env.pay]

Init ==
  /\ cfg \in Configs
  /\ clock = 0
  /\ recs = [i \in Puts |-> NoRecord]
  /\ ex = [n \in Execs |-> NoExec]
  /\ pool = {} /\ mined = {}
  /\ turn = NoTurn /\ turns = 0
  /\ dms = {}

Retries == IF turn.attempt = 0 THEN 0 ELSE turn.attempt - 1
Puttings == {i \in Puts : recs[i].st # "absent" /\ recs[i].src \in {0, i - 1}}
Used == turns + Retries + Cardinality(Puttings)  \* a quote prepared again is free
        + Cardinality({n \in Execs : ex[n].st # "absent"})

NextId(i) == recs[i].st = "absent" /\ \A j \in 1..(i - 1) : recs[j].st # "absent"
Free(i) == Used < MaxUsed /\ NextId(i)
Unused(n) ==
  Used < MaxUsed /\ ex[n].st = "absent" /\ \A m \in 1..(n - 1) : ex[m].st # "absent"

(* Tool calls run between two calls of the model.                          *)
InTurn == turn.user # None /\ ~turn.raised
Busy == \E n \in Execs : ex[n].st \notin {"absent", "closed"}

-----------------------------------------------------------------------------
(* PreparedTransactionStore.                                               *)

(* Seeded bug: a lookup does not purge.                                    *)
Purged_Never(rs, now) == rs

(* _purge_locked.                                                          *)
Purged(rs, now) ==
  [i \in Puts |-> IF rs[i].st = "live" /\ now - rs[i].born > Ttl
                  THEN [rs[i] EXCEPT !.st = "gone"] ELSE rs[i]]

(* Ids are in the order of put, and so are the times of the records.       *)
LiveIds(rs) == {i \in Puts : rs[i].st = "live"}
Oldest(rs) == CHOOSE i \in LiveIds(rs) : \A j \in LiveIds(rs) : i <= j

(* Seeded bug: the newest record makes room.                               *)
Stored_Newest(rs, i, rec) ==
  LET in == Purged([rs EXCEPT ![i] = rec], rec.born)
  IN  IF Cardinality(LiveIds(in)) > MaxEntries THEN [in EXCEPT ![i].st = "gone"] ELSE in

(* put: purge, add, and make room by age.                                  *)
Stored(rs, i, rec) ==
  LET in == Purged([rs EXCEPT ![i] = rec], rec.born)
  IN  IF Cardinality(LiveIds(in)) > MaxEntries THEN [in EXCEPT ![Oldest(in)].st = "gone"]
      ELSE in

Record(kind, body, src, from) ==
  [st |-> "live", kind |-> kind, body |-> body, by |-> turn.user, born |-> clock,
   src |-> src, from |-> from]

(* The ids a tool has returned to this user's conversation.                *)
Shown(i) ==
  /\ recs[i].st # "absent" /\ recs[i].by = turn.user
  /\ \/ recs[i].kind = "execute_envelope"
     \/ \E j \in Puts : recs[j].src = i

-----------------------------------------------------------------------------
(* Prepare tools; a refusal is an answer to the model and changes nothing. *)

TxPrepare(i, in) ==
  /\ InTurn /\ Free(i)
  /\ in.kind \in EvmKinds /\ TxPrepareError(cfg, turn.ctx, in) = None
  /\ recs' = Stored(recs, i, Record("execute_envelope", TxPrepareEnvelope(cfg, in), 0,
                                      in.from))
  /\ UNCHANGED <<cfg, clock, ex, chain, turn, turns, dms>>

(* _swap_prepare_with_prepared_storage: the quote is stored, then its      *)
(* envelope if the quote converts (where the bound leaves an id for it).   *)
SwapPrepareWithPreparedStorage(i, in) ==
  /\ InTurn /\ Free(i)
  /\ SwapPrepareError(in) = None
  /\ \E tr \in SwapQuotes(in, Quoted) :
       LET quoted == Stored(recs, i, Record("lifi_prepared", tr, 0, in.from))
       IN  IF PrepareLiFiSucceeds(cfg, turn.ctx, TRUE, in.from, tr)
           THEN /\ i < MaxPuts /\ Used + 1 < MaxUsed
                /\ recs' = Stored(quoted, i + 1, Record("execute_envelope",
                                                        LiFiEnvelope(cfg, in.from, tr),
                                                        i, in.from))
           ELSE recs' = quoted
  /\ UNCHANGED <<cfg, clock, ex, chain, turn, turns, dms>>

SwapPrepare(i, in) ==
  in.kind = "lifi_swap" /\ SwapPrepareWithPreparedStorage(i, in)

(* A deposit is a swap into the vault's share token.                       *)
EarnPrepareDeposit(i, in, vault) ==
  /\ in.kind = "earn_deposit" /\ EarnDepositVaultEligible(vault)
  /\ SwapPrepareWithPreparedStorage(i, in)

(* tx_prepare_lifi_swap of a stored quote for the wallet the model names;  *)
(* an execute_envelope is answered with its own id.                        *)
PrepareLiFiSwap(i, j, from) ==
  /\ InTurn /\ Shown(i) /\ NextId(j)
  /\ LET rs == Purged(recs, clock)
     IN  IF rs[i].st = "live" /\ rs[i].kind = "lifi_prepared"
            /\ PrepareLiFiSucceeds(cfg, turn.ctx, TRUE, from, rs[i].body)
         THEN recs' = Stored(rs, j, Record("execute_envelope",
                                            LiFiEnvelope(cfg, from, rs[i].body), i, from))
         ELSE recs' = rs
  /\ UNCHANGED <<cfg, clock, ex, chain, turn, turns, dms>>

(* resolve_hosted_recipient_by_handle, as on_tool_end sees its answer: the *)
(* peer is kept in the callback and in the context of the tool's thread,   *)
(* which the turn's own context may or may not be.                         *)
ResolvePeer(p, seen) ==
  /\ InTurn /\ cfg.hosted
  /\ turn' = [turn EXCEPT !.pending = p, !.bound = IF seen THEN p ELSE @,
                          !.resolved = @ \cup {p}]
  /\ UNCHANGED <<cfg, clock, recs, ex, chain, turns, dms>>

-----------------------------------------------------------------------------
(* tx_execute.                                                             *)

Return(n, e, out) == [ex EXCEPT ![n] = [e EXCEPT !.st = "returned", !.out = out]]

(* Envelope of a stored record, None if the id is refused.                 *)
Looked(rs, i) ==
  IF rs[i].st # "live" THEN None
  ELSE IF rs[i].kind = "execute_envelope" THEN rs[i].body
  ELSE IF CoercibleLiFi(cfg, turn.ctx, rs[i].body)
       THEN LiFiEnvelope(cfg, rs[i].body.from, rs[i].body)
  ELSE None

Begun(n, e) ==
  LET refused == TxExecuteError(cfg, turn.ctx, e.env)
  IN  IF e.env = None THEN Return(n, e, "invalid_input")
      ELSE IF refused # None THEN Return(n, e, refused)
      ELSE [ex EXCEPT ![n] = [e EXCEPT !.st = "nonce"]]

(* By id, or by a summary that carries it: the stored envelope counts.     *)
ExecuteById(n, i, form) ==
  /\ InTurn /\ Unused(n) /\ Shown(i)
  /\ LET rs == Purged(recs, clock)
     IN  /\ recs' = rs
         /\ ex' = Begun(n, [NoExec EXCEPT !.form = form, !.id = i,
                                          !.by = turn.user, !.env = Looked(rs, i)])
  /\ UNCHANGED <<cfg, clock, chain, turn, turns, dms>>

ExecuteEnvelope(n, env) ==
  /\ InTurn /\ Unused(n)
  /\ ex' = Begun(n, [NoExec EXCEPT !.form = "envelope", !.by = turn.user,
                                   !.env = env])
  /\ UNCHANGED <<cfg, clock, recs, chain, turn, turns, dms>>

(* eth_getTransactionCount(from, "pending"), unless the envelope has one.  *)
PendingCount(a) ==
  Cardinality({t \in pool : t.from = a}) + Cardinality({m \in mined : m.tx.from = a})

ReadNonce(n) ==
  /\ ex[n].st = "nonce"
  /\ ex' = [ex EXCEPT ![n].st = "sign",
                      ![n].nonce = IF ex[n].env.nonce # None THEN ex[n].env.nonce
                                   ELSE PendingCount(ex[n].env.from)]
  /\ UNCHANGED <<cfg, clock, recs, chain, turn, turns, dms>>

(* Preparing the transaction fails, before or after the nonce is read: gas *)
(* estimate, fees, balance, eth_call.                                      *)
FailUnsigned(n) ==
  /\ ex[n].st \in {"nonce", "sign"}
  /\ \E out \in UnsignedFailures(cfg) : ex' = Return(n, ex[n], out)
  /\ UNCHANGED <<cfg, clock, recs, chain, turn, turns, dms>>

(* The signer may name the wallet it signed for, which must be the         *)
(* envelope's; signing may fail or give no hex.                            *)
Sign(n) ==
  /\ ex[n].st = "sign"
  /\ \E signed, named \in BOOLEAN :
       LET signer == SigningWallet(cfg, ex[n].by)
           matches == signer = ex[n].env.from
       IN  ex' = IF signed /\ (named => matches)
                 THEN [ex EXCEPT ![n].st = "send", ![n].signer = signer]
                 ELSE Return(n, ex[n], "policy_rejected")
  /\ UNCHANGED <<cfg, clock, recs, chain, turn, turns, dms>>

(* eth_sendRawTransaction: the node takes a nonce that is not spent; for   *)
(* one it already holds it refuses or replaces; its answer may be lost.    *)
Spent(t) == Cardinality({m \in mined : m.tx.from = t.from}) > t.nonce
Rivals(t) == {s \in pool : s.from = t.from /\ s.nonce = t.nonce}

(* Seeded bug: a lost answer of the node is reported as a failed simulation*)
Send_Mislabelled(n) ==
  /\ ex[n].st = "send"
  /\ LET t == Tx(ex[n])
     IN  /\ ~Spent(t) /\ t \notin pool
         /\ pool' = (pool \ Rivals(t)) \cup {t}
         /\ \E heard \in BOOLEAN :
              LET e == [ex[n] EXCEPT !.sent = TRUE]
              IN  ex' = IF heard THEN [ex EXCEPT ![n] = [e EXCEPT !.st = "receipt"]]
                        ELSE Return(n, e, "simulation_failed")
  /\ UNCHANGED <<cfg, clock, recs, mined, turn, turns, dms>>

Send(n) ==
  /\ ex[n].st = "send"
  /\ LET t == Tx(ex[n])
     IN  \/ /\ ex' = Return(n, ex[n], "broadcast_failed")
            /\ pool' = pool
         \/ /\ ~Spent(t) /\ t \notin pool
            /\ pool' = (pool \ Rivals(t)) \cup {t}
            /\ \E heard \in BOOLEAN :
                 LET e == [ex[n] EXCEPT !.sent = TRUE]
                 IN  ex' = IF heard THEN [ex EXCEPT ![n] = [e EXCEPT !.st = "receipt"]]
                           ELSE Return(n, e, "broadcast_failed")
  /\ UNCHANGED <<cfg, clock, recs, mined, turn, turns, dms>>

(* _wait_receipt: the receipt's status, 0 when it is late; another failure *)
(* of the wait leaves the graph.                                           *)
WaitReceipt(n) ==
  /\ ex[n].st = "receipt"
  /\ \/ \E m \in mined :
          /\ m.tx = Tx(ex[n])
          /\ ex' = Return(n, [ex[n] EXCEPT !.status = IF m.ok THEN 1 ELSE 0], "ok")
     \/ ex' = Return(n, ex[n], "ok")
     \/ ex' = Return(n, ex[n], "raised")
  /\ UNCHANGED <<cfg, clock, recs, chain, turn, turns, dms>>

Mine(t, ok) ==
  /\ t \in pool /\ t.nonce = Cardinality({m \in mined : m.tx.from = t.from})
  /\ pool' = pool \ {t}
  /\ mined' = mined \cup {[tx |-> t, ok |-> ok]}
  /\ UNCHANGED <<cfg, clock, recs, ex, turn, turns, dms>>

-----------------------------------------------------------------------------
(* TransferNotifyCallback.on_tool_end of tx_execute.                       *)

(* _execute_payload reads the store again, by then the record may be gone; *)
(* a summary is read as it stands, and has no calldata.                    *)
PayloadKnown(rs, e) == e.form = "id" => rs[e.id].st = "live" /\ rs[e.id].kind = "execute_envelope"

(* recipient_evm_from_transfer_execute, lookup_peer_recipient_by_wallet.   *)
Inferred(e) ==
  IF /\ cfg.hosted /\ e.env.pay \in Users /\ e.env.kind \in TransferKinds
     /\ ~(e.form = "summary" /\ e.env.kind = "erc20_transfer")
  THEN e.env.pay ELSE None

PeerOf(e) ==
  IF turn.bound # None THEN turn.bound
  ELSE IF turn.pending # None THEN turn.pending
  ELSE Inferred(e)

(* Seeded bug: no transfer's recipient is compared.                        *)
ShouldNotify_AnyPeer(e, peer) == e.env.kind \in TransferKinds

(* _should_notify_peer_transfer_execute: an ERC-20 recipient is not        *)
(* compared with the peer.                                                 *)
ShouldNotify(e, peer) ==
  /\ e.env.kind \in TransferKinds
  /\ e.env.kind = "native_transfer" => peer = e.env.pay

Displayable(e) == ~(e.form = "summary" /\ e.env.kind = "erc20_transfer")

(* Nothing of a finished call is kept but that its number is used.         *)
Closed == [NoExec EXCEPT !.st = "closed"]

ToolEnd(n) ==
  LET e == ex[n]
      rs == Purged(recs, clock)
      peer == PeerOf(e)
      tells == /\ e.out = "ok" /\ PayloadKnown(rs, e)
               /\ peer # None /\ ShouldNotify(e, peer)
  IN  /\ e.st = "returned"
      /\ ex' = [ex EXCEPT ![n] = Closed]
      /\ recs' = IF e.out = "ok" /\ e.form = "id" THEN rs ELSE recs
      /\ \/ /\ tells
            /\ dms' = IF Displayable(e) THEN dms \cup {[to |-> peer, exec |-> n]} ELSE dms
            /\ \E seen \in BOOLEAN :
                 turn' = [turn EXCEPT !.pending = None,
                                      !.bound = IF seen THEN None ELSE @]
         \/ /\ ~tells /\ dms' = dms
            /\ turn' = [turn EXCEPT !.raised = @ \/ e.out = "raised"]
      /\ UNCHANGED <<cfg, clock, chain, turns>>

-----------------------------------------------------------------------------
(* The turn: invoke_deep_agent_turn around _invoke_graph_with_...retries.  *)

(* A user without a row or not ready has no signing context; over HTTP     *)
(* nobody has.                                                             *)
BeginTurn(u, ctx) ==
  /\ turn.user = None /\ turns < MaxTurns /\ Used < MaxUsed
  /\ cfg.hosted \/ ctx = "none"
  /\ turn' = [NoTurn EXCEPT !.user = u, !.ctx = ctx, !.attempt = 1]
  /\ turns' = turns + 1
  /\ UNCHANGED <<cfg, clock, recs, ex, chain, dms>>

(* Seeded bug: a tool that raised leaves the turn without an end.          *)
EndTurn_OnlyWithReply ==
  /\ turn.user # None /\ ~Busy /\ ~turn.raised
  /\ turn' = NoTurn
  /\ UNCHANGED <<cfg, clock, recs, ex, chain, turns, dms>>

(* The model answers, fails for good, or a tool raised: the scopes and the *)
(* callback end with the turn.                                             *)
EndTurn ==
  /\ turn.user # None /\ ~Busy
  /\ turn' = NoTurn
  /\ UNCHANGED <<cfg, clock, recs, ex, chain, turns, dms>>

(* Seeded bug: the attempts are not bounded.                               *)
RetryModel_Unbounded ==
  /\ InTurn /\ ~Busy /\ Used < MaxUsed
  /\ turn' = [turn EXCEPT !.attempt = @ + 1]
  /\ UNCHANGED <<cfg, clock, recs, ex, chain, turns, dms>>

(* A transient failure of the model call: the message is sent once more.   *)
RetryModel ==
  /\ InTurn /\ ~Busy /\ turn.attempt < MaxAttempts
  /\ turn' = [turn EXCEPT !.attempt = @ + 1]
  /\ UNCHANGED <<cfg, clock, recs, ex, chain, turns, dms>>

(* Time matters while the store holds something.                           *)
Tick ==
  /\ clock < MaxClock /\ LiveIds(recs) # {}
  /\ clock' = clock + 1
  /\ UNCHANGED <<cfg, recs, ex, chain, turn, turns, dms>>

-----------------------------------------------------------------------------
ModelReplies == EndTurn \/ RetryModel

Prepare(i) ==
  \/ \E in \in Asked : TxPrepare(i, in) \/ SwapPrepare(i, in)
  \/ \E in \in Asked, vault \in EarnVaults : EarnPrepareDeposit(i, in, vault)
  \/ \E j \in Puts, from \in Accounts : PrepareLiFiSwap(j, i, from)

Execute(n) ==
  \/ \E i \in Puts, form \in {"id", "summary"} : ExecuteById(n, i, form)
  \/ \E env \in Copied : ExecuteEnvelope(n, env)

Pipeline(n) ==
  \/ ReadNonce(n) \/ FailUnsigned(n) \/ Sign(n) \/ Send(n)
  \/ WaitReceipt(n) \/ ToolEnd(n)

Next ==
  \/ \E u \in Talkers, ctx \in Contexts : BeginTurn(u, ctx)
  \/ \E i \in Puts : Prepare(i)
  \/ \E p \in Users \ {turn.user}, seen \in BOOLEAN : ResolvePeer(p, seen)
  \/ \E n \in Execs : Execute(n) \/ Pipeline(n)
  \/ \E t \in pool, ok \in BOOLEAN : Mine(t, ok)
  \/ ModelReplies
  \/ Tick

Spec == Init /\ [][Next]_vars

(* Every step of the pipeline has a timeout, and LangGraph's recursion     *)
(* limit ends a conversation of model and tools: something goes on.        *)
Fairness == WF_vars(ModelReplies \/ \E n \in Execs : Pipeline(n))

FairSpec == Spec /\ Fairness

-----------------------------------------------------------------------------
(* Types; what is stored is an envelope or a LI.FI request.                *)
Records == [st: {"absent", "live", "gone"},
            kind: {None, "execute_envelope", "lifi_prepared"},
            body: Envelopes \cup LiFiRequests \cup {None}, by: Users \cup {None},
            born: Times, src: Puts \cup {0}, from: Written \cup {None}]
Calls == [st: {"absent", "nonce", "sign", "send", "receipt", "returned", "closed"},
          form: Forms \cup {None}, id: Puts \cup {0}, env: Envelopes \cup {None},
          by: Users \cup {None}, signer: Accounts \cup {None},
          nonce: Nonces, sent: BOOLEAN, out: Outcomes \cup {None}, status: {0, 1}]
Txs == [from: Accounts, nonce: Nat, kind: Kinds, pay: Addresses]
Turns == [user: Users \cup {None}, ctx: Contexts, attempt: 0..MaxAttempts,
          pending: Users \cup {None}, bound: Users \cup {None},
          resolved: SUBSET Users, raised: BOOLEAN]

TypeOK ==
  /\ cfg \in Configs
  /\ clock \in Times
  /\ recs \in [Puts -> Records]
  /\ ex \in [Execs -> Calls]
  /\ pool \subseteq Txs
  /\ mined \subseteq [tx: Txs, ok: BOOLEAN]
  /\ turn \in Turns
  /\ turns \in 0..MaxTurns
  /\ dms \subseteq [to: Users, exec: Execs]

(* A prepared transaction the model still holds the id of disappears only  *)
(* because it is too old or because the store took a full capacity of      *)
(* records since (PreparedTransactionStore.put and _purge_locked, with the *)
(* time read before the lock).                                             *)
RecordsLostOnlyByAgeOrCrowding ==
  [][\A i \in Puts :
       recs[i].st # "gone" /\ recs'[i].st = "gone" =>
         \/ clock - recs'[i].born > Ttl
         \/ Cardinality({j \in Puts : j > i /\ recs'[j].st # "absent"}) >= MaxEntries]_vars

(* What tx_execute runs by id is what that id was stored with, for a       *)
(* prepare of the same user not longer ago than the lifetime               *)
(* (PreparedTransactionStore.get, _attach_prepared_from_store).            *)
FreshWhenUsed ==
  [][\A n \in Execs :
       LET e == ex'[n]
           r == recs[e.id]
       IN  ex[n].st = "absent" /\ e.env # None /\ e.form # "envelope" =>
             /\ r.st = "live" /\ clock - r.born <= Ttl
             /\ e.by = r.by
             /\ e.env.pay = r.body.pay
             /\ r.kind = "execute_envelope" => e.env.from = r.from]_vars

(* Calldata LI.FI made for one wallet is never broadcast for another       *)
(* (lifi_transaction_request_to_envelope, whichever tool converts it).     *)
SwapsKeepTheirWallet ==
  \A n \in Execs :
    ex[n].sent /\ ex[n].form # "envelope" =>
      LET r == recs[ex[n].id]
          quote == IF r.kind = "lifi_prepared" THEN r
                   ELSE IF r.src # 0 THEN recs[r.src] ELSE NoRecord
      IN  quote.body # None => quote.body.from \in {None, ex[n].env.from}

(* A code that says the transaction was not made is never returned for one *)
(* the node may hold (broadcast_failed and an exception leave it open), and *)
(* status 1 is reported only of a transaction that is in a block and       *)
(* succeeded, also when another execution read the same nonce and replaced *)
(* it (run_prepared, _error_code_from_pipeline_exc, _wait_receipt).        *)
AnswersAreTrue ==
  \A n \in Execs : ex[n].st = "returned" =>
    /\ ex[n].sent => ex[n].out \in {"ok", "broadcast_failed", "raised"}
    /\ ex[n].status = 1 => [tx |-> Tx(ex[n]), ok |-> TRUE] \in mined

(* A message goes to a peer of this turn, not of an earlier one, or to the *)
(* one who was paid; about a native transfer it goes to nobody else,       *)
(* whoever was resolved last (_should_notify_peer_transfer_execute,        *)
(* peer_transfer_scope).                                                   *)
MessageOfThisTurn ==
  [][\A d \in dms' \ dms :
       \/ d.to = ex[d.exec].env.pay
       \/ d.to \in turn.resolved /\ ex[d.exec].env.kind # "native_transfer"]_vars

(* A turn ends, whatever the model service and the chain do.               *)
TurnEnds == (turn.user # None) ~> (turn.user = None)

=============================================================================
