---------------------------- MODULE TxEnvelopes ----------------------------
(***************************************************************************)
(* What the prepare tools make of the model's words, and what tx_execute   *)
(* makes of an envelope before it touches the chain (graphs/tx_prepare.py, *)
(* tx_prepare_lifi.py, lifi_envelope.py, swap_prepare.py, tx_execute.py).  *)
(*                                                                         *)
(* A graph is validate -> execute, and the first check that fails ends it  *)
(* with its code.  Calldata, amounts and gas are abstracted to the address *)
(* that receives: pay is the recipient, the spender or the LI.FI contract. *)
(***************************************************************************)
EXTENDS Naturals, Sequences

CONSTANTS
  Users,     \* Telegram users; each stands for his hosted wallet too
  Operator,  \* the wallet of the operator's own key or agent
  Outsider,  \* an address that is no hosted wallet
  Zero, Malformed,
  None

Accounts == Users \cup {Operator}
Addresses == Accounts \cup {Outsider}
Written == Addresses \cup {Zero, Malformed}  \* what an address field may hold

Modes == {"vault_key", "oneclaw_intents"}

(* keyPath, agentId: the setting is not blank; signer: the runtime has one *)
Settings == [mode: Modes, hosted: BOOLEAN, keyPath: BOOLEAN, agentId: BOOLEAN,
             signer: BOOLEAN]

(* current_hosted_signing_context: absent, without a user_agent_id, whole. *)
Contexts == {"none", "unnamed", "bound"}

TransferKinds == {"native_transfer", "erc20_transfer"}
EvmKinds == TransferKinds \cup {"erc20_approval"}
Kinds == EvmKinds \cup {"lifi_swap"}

(* Arguments of the five prepare tools; token is None where there is none. *)
Prompts == [kind: Kinds \cup {"earn_deposit"}, known: BOOLEAN, from: Written, to: Written,
            token: Written \cup {None}]

Nonces == Nat \cup {None}
Envelopes == [kind: Kinds, from: Addresses \cup {Zero}, pay: Addresses, mode: Modes,
              nonce: Nonces]

(* LI.FI's transactionRequest; its from, chainId and nonce are optional.   *)
ChainIds == {"same", "other", "absent"}
LiFiRequests == [pay: Addresses, from: Addresses \cup {Zero, None}, chainId: ChainIds,
                 nonce: Nonces]
QuoteAnswers == [from: Addresses \cup {"own", None}, chainId: ChainIds, nonce: Nonces]

Codes == {"unsupported_chain", "invalid_input", "policy_rejected",
          "secret_not_supported", "secret_not_configured",
          "hosted_signing_context_required"}

ASSUME EnvelopesAssumption == None \notin Codes

(* The code of the first check that holds, None if none does.              *)
FirstError(checks) ==
  LET hit == {i \in DOMAIN checks : checks[i][1]}
  IN  IF hit = {} THEN None
      ELSE checks[CHOOSE i \in hit : \A j \in hit : i <= j][2]

-----------------------------------------------------------------------------
(* Preparing.                                                              *)

EvmPrepareSigningSettingsError(cfg, ctx) ==
  LET intents == cfg.mode = "oneclaw_intents"
  IN  FirstError(<<
        <<cfg.hosted /\ ~intents, "secret_not_supported">>,
        <<~intents /\ ~cfg.keyPath, "secret_not_configured">>,
        <<intents /\ cfg.hosted /\ ctx = "none", "hosted_signing_context_required">>,
        <<intents /\ cfg.hosted /\ ctx = "unnamed", "secret_not_configured">>,
        <<intents /\ ~cfg.hosted /\ ~cfg.agentId, "secret_not_configured">> >>)

TxPrepareError(cfg, ctx, in) ==
  LET refused == EvmPrepareSigningSettingsError(cfg, ctx)
      targets == {in.to} \cup (IF in.kind = "native_transfer" THEN {} ELSE {in.token})
  IN  FirstError(<<
        <<~in.known, "unsupported_chain">>,
        <<refused # None, refused>>,
        <<Malformed \in {in.from} \cup targets, "invalid_input">>,
        <<Zero \in targets, "invalid_input">> >>)

(* Gas and nonce stay open until the envelope is executed.                 *)
TxPrepareEnvelope(cfg, in) ==
  [kind |-> in.kind, from |-> in.from, pay |-> in.to, mode |-> cfg.mode, nonce |-> None]

-----------------------------------------------------------------------------
(* Swaps.                                                                  *)

SwapPrepareError(in) ==
  FirstError(<<
    <<~in.known, "unsupported_chain">>,
    <<Malformed \in {in.from, in.to}, "invalid_input">> >>)

(* GET /v1/quote answers with a request to the router, or fails (the key,  *)
(* HTTP, no executable transaction); what it says of from, chain and nonce *)
(* is LI.FI's.                                                             *)
SwapQuotes(in, answers) ==
  {[pay |-> Outsider, from |-> IF a.from = "own" THEN in.from ELSE a.from,
    chainId |-> a.chainId, nonce |-> a.nonce] : a \in answers}

(* What LI.FI Earn says of a vault; None where it says nothing.            *)
EarnVaults == [composer: BOOLEAN \cup {None}, transactional: BOOLEAN \cup {None},
               chain: BOOLEAN]

EarnDepositVaultEligible(vault) ==
  /\ vault.composer # FALSE
  /\ ~(vault.composer = None /\ vault.transactional = FALSE)
  /\ vault.chain

TxPrepareLiFiError(cfg, ctx, known, from) ==
  LET refused == EvmPrepareSigningSettingsError(cfg, ctx)
  IN  FirstError(<<
        <<~known, "unsupported_chain">>,
        <<refused # None, refused>>,
        <<from = Malformed, "invalid_input">> >>)

(* Seeded bug: the request's own sender is taken without a comparison.     *)
LiFiMismatch_ChainOnly(from, tr) == tr.chainId = "other"

(* lifi_transaction_request_to_envelope raises ValueError on a request for *)
(* another wallet or another chain.                                        *)
LiFiMismatch(from, tr) ==
  (tr.from # None /\ tr.from # from) \/ tr.chainId = "other"

LiFiEnvelope(cfg, from, tr) ==
  [kind |-> "lifi_swap", from |-> from, pay |-> tr.pay, mode |-> cfg.mode,
   nonce |-> tr.nonce]

(* The prepare_lifi graph, run by swap_prepare on the quote, and by        *)
(* tx_prepare_lifi_swap on a stored one.                                   *)
PrepareLiFiSucceeds(cfg, ctx, known, from, tr) ==
  TxPrepareLiFiError(cfg, ctx, known, from) = None /\ ~LiFiMismatch(from, tr)

(* _try_coerce_lifi_prepared_to_execute_envelope: tx_execute was given the *)
(* quote; its own chainId and from say where it belongs.                   *)
CoercibleLiFi(cfg, ctx, tr) ==
  /\ tr.chainId # "absent" /\ tr.from # None
  /\ EvmPrepareSigningSettingsError(cfg, ctx) = None

-----------------------------------------------------------------------------
(* Executing.                                                              *)

(* The wallet whose key signs: the vault's key and the legacy agent are    *)
(* the operator's, a hosted user signs with his own agent.                 *)
SigningWallet(cfg, user) ==
  IF cfg.hosted /\ cfg.mode = "oneclaw_intents" THEN user ELSE Operator

(* Checks of the execute node and of run_prepared before the pipeline.     *)
TxExecuteError(cfg, ctx, env) ==
  LET intents == cfg.mode = "oneclaw_intents"
  IN  FirstError(<<
        <<env.mode # cfg.mode, "policy_rejected">>,
        <<~intents /\ env.from # Operator, "policy_rejected">>,
        <<intents /\ ~cfg.signer, "secret_not_configured">>,
        <<intents /\ cfg.hosted /\ ctx = "none", "hosted_signing_context_required">>,
        <<intents /\ cfg.hosted /\ ctx = "unnamed", "secret_not_configured">>,
        <<intents /\ ~cfg.hosted /\ ~cfg.agentId, "secret_not_configured">> >>)

(* How it may fail besides: the vault has no key or does not answer, the   *)
(* pipeline has no RPC URL or another chain's, calldata is malformed; an   *)
(* exception that is no RuntimeError leaves the graph.                     *)
UnsignedFailures(cfg) ==
  {"policy_rejected", "simulation_failed", "raised"}
  \cup (IF cfg.mode = "vault_key" THEN {"secret_not_found", "secret_unavailable"} ELSE {})
=============================================================================
