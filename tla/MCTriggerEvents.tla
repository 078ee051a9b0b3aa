---------------------------- MODULE MCTriggerEvents ----------------------------
(* Finite instances of TriggerEvents for TLC. *)
EXTENDS TriggerEvents
TwoIds == {"a", "b"}
TwoLimits == {1, 2}
SmallQueues == {0, 1}
================================================================================
