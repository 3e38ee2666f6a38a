---------------------------- MODULE MCAgentTokens ----------------------------
EXTENDS AgentTokens, TLC

Symmetry == Permutations(Threads) \cup Permutations(Agents) \cup Permutations(Keys)
=============================================================================
