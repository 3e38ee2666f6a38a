---------------------------- MODULE MCAgentTurns ----------------------------
(* Two users of a hosted process, or the operator's own.                   *)
EXTENDS AgentTurns

CONSTANTS u1, u2

Base == [mode |-> "oneclaw_intents", hosted |-> FALSE, keyPath |-> FALSE,
         agentId |-> FALSE, signer |-> TRUE]

Hosted == [Base EXCEPT !.hosted = TRUE]
Legacy == [Base EXCEPT !.agentId = TRUE]
VaultKey == [Base EXCEPT !.mode = "vault_key", !.keyPath = TRUE]

HostedVaultKey == [VaultKey EXCEPT !.hosted = TRUE]

EveryMode == {Hosted, Legacy, VaultKey, HostedVaultKey}

Ask(kind, from, to) ==
  [kind |-> kind, known |-> TRUE, from |-> from, to |-> to,
   token |-> IF kind = "native_transfer" THEN None ELSE Outsider]

SmallAsked == {Ask("native_transfer", u1, Outsider),
               Ask("erc20_transfer", Operator, u2),
               Ask("lifi_swap", u1, Outsider), Ask("earn_deposit", u1, u1)}

Answer(from, chainId, nonce) == [from |-> from, chainId |-> chainId, nonce |-> nonce]
Answers == {Answer("own", "same", None), Answer(Outsider, "same", None),
            Answer(None, "other", None)}

WrittenOut == {[kind |-> "native_transfer", from |-> u1, pay |-> u2,
                mode |-> "oneclaw_intents", nonce |-> 0],
               [kind |-> "native_transfer", from |-> Operator, pay |-> u2,
                mode |-> "vault_key", nonce |-> 0]}
=============================================================================
