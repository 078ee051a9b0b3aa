---------------------------- MODULE MCTriggerSession ----------------------------
(* Finite instances of TriggerSession for TLC: the cfg files give the constants. *)
EXTENDS TriggerSession
=================================================================================
