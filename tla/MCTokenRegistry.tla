----------------------------- MODULE MCTokenRegistry -----------------------------
(***************************************************************************)
(* A small instance of TokenRegistry: "usdc" is in both curated files,     *)
(* "fake" is another contract that LI.FI lists under the same ticker,      *)
(* "sol" lives on Solana.                                                  *)
(***************************************************************************)
EXTENDS TokenRegistry, TLC

MCTokens == {"usdc", "fake", "sol"}
MCChains == {"ethereum", "solana"}
MCSymbols == {"USDC", "USDCOIN", "UNKNOWN", "SOL"}
MCChainOf == [t \in MCTokens |-> IF t = "sol" THEN "solana" ELSE "ethereum"]

(* LI.FI calls the impostor USDC and the real one by another name;         *)
(* CoinGecko calls both USDC.                                              *)
MCSymbolAt == [t \in MCTokens |-> [s \in Sources |->
    IF t = "sol" THEN "SOL"
    ELSE IF t = "usdc" /\ s \notin {"bundled", "on_demand"} THEN "USDCOIN" ELSE "USDC"]]

MCSeedTier == [t \in MCTokens |-> CASE t = "usdc" -> "curated"
                                    [] t = "fake" -> "indexed"
                                    [] OTHER -> "none"]
FinderSymmetry == Permutations(Finders)
UsdcBundled == {"usdc"}

================================================================================
