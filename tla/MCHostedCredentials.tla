--------------------------- MODULE MCHostedCredentials ---------------------------
(***************************************************************************)
(* A small instance of HostedCredentials: the Platform replaces the agent  *)
(* of one user, never that of the other.                                   *)
(***************************************************************************)
EXTENDS HostedCredentials, TLC

CONSTANTS u1, u2

MCAgentsOf == [u \in {u1, u2} |-> IF u = u1 THEN 2 ELSE 1]
WorkerSymmetry == Permutations(Workers)

================================================================================
