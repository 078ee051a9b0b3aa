----------------------------- MODULE MCNodeExecution -----------------------------
(* Finite instances of NodeExecution for TLC: two input items.                *)
EXTENDS NodeExecution

Command(kind, channel, ownId) == [kind |-> kind, channel |-> channel, ownId |-> ownId]

TwoItems == {1, 2}
SomePlans ==
    { <<Command("write", "rest", FALSE), Command("write", "rest", FALSE)>>,
      <<Command("write", "socket", FALSE), Command("read", "socket", TRUE)>>,
      <<Command("metadata", "rest", FALSE), Command("read", "socket", TRUE)>> }

TwoWrites == { <<Command("write", "socket", FALSE), Command("write", "socket", FALSE)>> }
================================================================================
