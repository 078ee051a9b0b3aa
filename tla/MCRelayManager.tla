----------------------------- MODULE MCRelayManager -----------------------------
(* Finite instances of RelayManager for TLC: two agents, the last call is a batch. *)
EXTENDS RelayManager, TLC

CONSTANTS a1, a2, old, new

MCExecs == 1..4
MCAgentOf == [e \in MCExecs |-> IF e \in {1, 2, 3} THEN a1 ELSE a2]

TokenSymmetry == Permutations(RelayTokens)
================================================================================
