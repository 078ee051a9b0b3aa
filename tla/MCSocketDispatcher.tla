------------------------- MODULE MCSocketDispatcher -------------------------
(* Two consumer commands, one of them a batch, and a relay command on one    *)
(* connection, on two operation objects: every command but the first gets a  *)
(* new, a pooled or no object, depending on who has finished.                *)
EXTENDS SocketDispatcher, TLC
CONSTANTS c1, c2, c3, a, b, b2, e1, ha, hb, hb2, he, ag, s1, s2

MCCommands == {c1, c2, c3}
MCClientIds == {a, b, b2, e1}
MCHubIds == {ha, hb, hb2, he}
MCRequests == c1 :> {a} @@ c2 :> {b, b2} @@ c3 :> {e1}
MCHubId == a :> ha @@ b :> hb @@ b2 :> hb2 @@ e1 :> he
MCAgentOf == c1 :> None @@ c2 :> None @@ c3 :> ag
MCSigning == c1 :> {s1} @@ c2 :> {s1} @@ c3 :> {s1, s2}
MCAgents == {ag}
MCWire == {<<"response", "bare", TRUE>>, <<"response", "plain", TRUE>>,
           <<"response", "framed", FALSE>>, <<"chunk", "framed", TRUE>>,
           <<"chunk", "bare", TRUE>>, <<"complete", "framed", TRUE>>}
MCSlots == 1..2
\* Two responses fill the connection, a response and a chunk overrun a command.
MCSizeOf == "response" :> 2 @@ "chunk" :> 1 @@ "complete" :> 1
=============================================================================
