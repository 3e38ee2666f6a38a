-------------------------- MODULE MCPortfolioSnapshot --------------------------
(***************************************************************************)
(* A wallet of up to five positions on the chains asked for: an asset with *)
(* two legs, one of a row that does not say its chain and has two          *)
(* implementations; a deposit on a chain under its other name; a debt; and *)
(* a position on a chain that is not asked for.                            *)
(***************************************************************************)
EXTENDS PortfolioSnapshot

At(type, symbol, usd, home, chain, implementations) ==
    [type |-> type, symbol |-> symbol, usd |-> usd, home |-> home, chain |-> chain,
     implementations |-> implementations]

MCPosition == <<
    At("wallet", "USDC", 3, "ethereum", "ethereum", {"ethereum"}),
    At("wallet", "USDC", 2, "polygon", NoChain, {"ethereum", "polygon"}),
    At("deposit", "USDC", 4, "polygon-pos", "polygon-pos", {"polygon"}),
    At("wallet", "ETH", 1, "base", "base", {}),
    At("deposit", "ETH", -2, "ethereum", NoChain, {"ethereum"})>>

MCSlugOf == [z \in {"ethereum", "polygon", "polygon-pos", "base"} |->
                IF z = "polygon-pos" THEN "polygon" ELSE z]

================================================================================
