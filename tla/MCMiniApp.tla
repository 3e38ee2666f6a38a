-------------------------------- MODULE MCMiniApp --------------------------------
(***************************************************************************)
(* A small instance of MiniApp: one user whose wallet changes; "decade" is *)
(* a period the code does not know.                                        *)
(***************************************************************************)
EXTENDS MiniApp, TLC

MCPeriods == {"week", "decade"}
MCMaxWallets == [u \in Users |-> 2]
RequestSymmetry == Permutations(Requests)

================================================================================
