------------------------------- MODULE RelayManager -------------------------------
(***************************************************************************)
(* relaySocketExecutionManager.ts with the conversation handling of         *)
(* relaySession.ts: the commands of one execution over the relay.  Commands *)
(* for one agent take turns, a conversation that served a command is kept   *)
(* for the agent's next one, and a failed command ends its conversation.    *)
(*                                                                         *)
(* A conversation is named after the command that opened it.                *)
(***************************************************************************)
EXTENDS ManagedTransport, FiniteSets

CONSTANTS
    RelayExecs,       \* calls of execute()
    Agents,
    AgentOf,          \* the agent each of them addresses
    RelayBatchExecs,  \* those that run executeRelayBatchCommand
    RelayTokens,      \* access tokens of the sessions they run with
    NoCall,
    RelayFaults       \* commands may fail, the connection may end

ASSUME RelayManagerAssumption ==
    /\ IsFiniteSet(RelayExecs)
    /\ AgentOf \in [RelayExecs -> Agents]
    /\ RelayBatchExecs \subseteq RelayExecs
    /\ NoToken \notin RelayTokens
    /\ NoCall \notin RelayExecs
    /\ RelayFaults \in BOOLEAN

VARIABLES
    relayTransport, \* managedTransport
    agentSessions,  \* agent -> the conversation kept for it, or NoCall
    last,           \* agentExecuteQueues: the last call enqueued for the agent
    relayExec,      \* exec -> where its call stands
    relayClosed,
    hub             \* conversation -> what the hub knows of it

relayVars == <<relayTransport, agentSessions, last, relayExec, relayClosed, hub>>

NewRelayExec == [pc |-> "idle", token |-> NoToken, previous |-> NoCall, conversation |-> NoCall,
                 generation |-> 0]
NoConversation == [state |-> "none", conn |-> 0]

RelayInit ==
    /\ relayTransport = NewTransport
    /\ agentSessions = [a \in Agents |-> NoCall]
    /\ last = [a \in Agents |-> NoCall]
    /\ relayExec = [e \in RelayExecs |-> NewRelayExec]
    /\ relayClosed = FALSE
    /\ hub = [e \in RelayExecs |-> NoConversation]

RelayOpen == ~relayClosed
RelayRunning == {e \in RelayExecs : relayExec[e].pc = "running"}
Finished == {"returned", "failed"}

\* The managed transport becomes m; onDispose and onIdentityChanged forget the
\* conversations.
NoSessions == [a \in Agents |-> NoCall]
Forgotten(m, sessions) == IF Generation(m) # Generation(relayTransport) THEN NoSessions ELSE sessions

--------------------------------------------------------------------------------
\* execute(): takes its place behind the agent's earlier calls
Call(e) ==
    /\ RelayOpen /\ relayExec[e].pc = "idle"
    /\ \E t \in RelayTokens :
          relayExec' = [relayExec EXCEPT ![e].pc = "queued", ![e].token = t,
                                         ![e].previous = last[AgentOf[e]]]
    /\ last' = [last EXCEPT ![AgentOf[e]] = e]
    /\ UNCHANGED <<relayTransport, agentSessions, relayClosed, hub>>

\* `previous.catch(() => undefined).then(work)`
MyTurn_mut(e) == TRUE
MyTurn_mut2(e) == \A p \in RelayExecs : relayExec[e].previous = p => relayExec[p].pc = "returned"
MyTurn(e) == \A p \in RelayExecs : relayExec[e].previous = p => relayExec[p].pc \in Finished

\* executeUnlocked up to its first await
Begin(e) ==
    LET m == EnsureTransport(relayTransport, relayExec[e].token)
        sessions == Forgotten(m, agentSessions)
    IN  /\ RelayOpen /\ relayExec[e].pc = "queued" /\ MyTurn(e)
        /\ relayTransport' = Acquire(m)
        /\ agentSessions' = sessions
        /\ relayExec' = [relayExec EXCEPT ![e].pc = "running", ![e].generation = Generation(m),
                                          ![e].conversation = sessions[AgentOf[e]]]
        /\ UNCHANGED <<last, relayClosed, hub>>

RefusedClosed(e) ==
    /\ relayClosed /\ relayExec[e].pc = "queued" /\ MyTurn(e)
    /\ relayExec' = [relayExec EXCEPT ![e].pc = "failed"]
    /\ UNCHANGED <<relayTransport, agentSessions, last, relayClosed, hub>>

\* relay:conversation.start is answered (when none is reused)
ConversationStarts(e) ==
    /\ RelayOpen /\ e \in RelayRunning /\ relayExec[e].conversation = NoCall
    /\ relayExec' = [relayExec EXCEPT ![e].conversation = e]
    /\ hub' = [hub EXCEPT ![e] = [state |-> "open", conn |-> relayTransport.conn]]
    /\ UNCHANGED <<relayTransport, agentSessions, last, relayClosed>>

\* The conversation is remembered unless the caches were reset meanwhile.
Remember_mut(e) == [agentSessions EXCEPT ![AgentOf[e]] = relayExec[e].conversation]
Remember(e) ==
    IF relayExec[e].generation = Generation(relayTransport)
    THEN [agentSessions EXCEPT ![AgentOf[e]] = relayExec[e].conversation]
    ELSE agentSessions

Returns(e) ==
    LET m == Release(relayTransport)
    IN  /\ RelayOpen /\ e \in RelayRunning /\ relayExec[e].conversation # NoCall
        /\ relayTransport' = m
        /\ agentSessions' = Forgotten(m, Remember(e))
        /\ relayExec' = [relayExec EXCEPT ![e].pc = "returned"]
        /\ UNCHANGED <<last, relayClosed, hub>>

\* The finally block of executeRelayCommand ends the conversation of a failed command.
EndsConversation(S) == {relayExec[e].conversation : e \in S} \ {NoCall}

HubEnds(convs) ==
    hub' = [c \in RelayExecs |-> IF c \in convs THEN [hub[c] EXCEPT !.state = "ended"] ELSE hub[c]]

\* The catch and finally blocks for the commands S, one after the other.
MarksStale(m) == MarkStale(m)
ReleaseAll(m, n) ==
    LET after[k \in 0..n] == IF k = 0 THEN m ELSE Release(after[k - 1]) IN after[n]

DropSessions(S, sessions) ==
    [a \in Agents |-> IF \E e \in S : AgentOf[e] = a THEN NoCall ELSE sessions[a]]

Fail(S) ==
    LET m == ReleaseAll(MarksStale(relayTransport), Cardinality(S))
    IN  /\ relayTransport' = m
        /\ agentSessions' = Forgotten(m, DropSessions(S, agentSessions))
        /\ relayExec' = [e \in RelayExecs |-> IF e \in S THEN [relayExec[e] EXCEPT !.pc = "failed"]
                                              ELSE relayExec[e]]
        /\ UNCHANGED <<last, relayClosed>>

RelayCommandFails(e) ==
    /\ RelayFaults /\ RelayOpen /\ e \in RelayRunning
    /\ Fail({e})
    /\ HubEnds(EndsConversation({e}))

\* The wait for the conversation times out, and the hub opens it all the same.
StartsTooLate(e) ==
    /\ RelayFaults /\ RelayOpen /\ e \in RelayRunning /\ relayExec[e].conversation = NoCall
    /\ Fail({e})
    /\ hub' = [hub EXCEPT ![e] = [state |-> "open", conn |-> relayTransport.conn]]

\* The batch succeeded, but its results do not merge into a batch response.
MergeFails(e) ==
    /\ RelayFaults /\ RelayOpen /\ e \in RelayRunning \cap RelayBatchExecs /\ relayExec[e].conversation # NoCall
    /\ Fail({e})
    /\ UNCHANGED hub

\* app:error, connect_error or disconnect: every command fails before anything else runs.
RelayTerminal ==
    /\ RelayFaults /\ RelayOpen /\ relayTransport.conn # 0
    /\ Fail(RelayRunning)
    /\ HubEnds(EndsConversation(RelayRunning))

\* A command that ends after close() fails; its connection is gone already.
EndsClosed(e) ==
    /\ relayClosed /\ e \in RelayRunning
    /\ Fail({e})
    /\ UNCHANGED hub

\* close()
RelayClose ==
    /\ RelayOpen
    /\ relayClosed' = TRUE
    /\ HubEnds({agentSessions[a] : a \in Agents} \ {NoCall})
    /\ relayTransport' = CloseTransport(relayTransport)
    /\ agentSessions' = NoSessions
    /\ last' = [a \in Agents |-> NoCall]
    /\ UNCHANGED relayExec

RelayExecStep(e) ==
    \/ Begin(e) \/ RefusedClosed(e) \/ ConversationStarts(e) \/ Returns(e)
    \/ RelayCommandFails(e) \/ StartsTooLate(e) \/ MergeFails(e) \/ EndsClosed(e)

RelayNext ==
    \/ \E e \in RelayExecs : Call(e) \/ RelayExecStep(e)
    \/ RelayTerminal \/ RelayClose

RelaySpec == RelayInit /\ [][RelayNext]_relayVars
--------------------------------------------------------------------------------
RelayCalls ==
    [pc : {"idle", "queued", "running"} \cup Finished, token : RelayTokens \cup {NoToken},
     previous : RelayExecs \cup {NoCall}, conversation : RelayExecs \cup {NoCall}, generation : Nat]
Conversations == [state : {"none", "open", "ended"}, conn : Nat]

RelayTypeOK ==
    /\ relayTransport \in Transports(RelayTokens)
    /\ agentSessions \in [Agents -> RelayExecs \cup {NoCall}]
    /\ last \in [Agents -> RelayExecs \cup {NoCall}]
    /\ relayExec \in [RelayExecs -> RelayCalls]
    /\ relayClosed \in BOOLEAN
    /\ hub \in [RelayExecs -> Conversations]

\* The conversations that hold capacity of an agent on the connection in use.
LiveConversations == {c \in RelayExecs : hub[c].state = "open" /\ hub[c].conn = relayTransport.conn}

\* "Relay executes for the same agentId are serialized so a shared conversation is never
\* ended while another command is in flight": whoever runs on a conversation, fresh or
\* reused, has it alone and finds it open on its own connection.
OwnConversation ==
    RelayOpen => \A e \in RelayRunning :
                relayExec[e].conversation # NoCall =>
                    /\ relayExec[e].conversation \in LiveConversations
                    /\ \A f \in RelayRunning \ {e} : relayExec[f].conversation # relayExec[e].conversation

\* A conversation kept for an agent's next command is open on the connection that
\* command would get: not ended by a failure and not from a replaced connection.
KeptIsLive ==
    RelayOpen /\ relayTransport.conn # 0 =>
        \A a \in Agents : agentSessions[a] # NoCall => agentSessions[a] \in LiveConversations

\* "Failed relay commands end the conversation ... so agent stream capacity is released":
\* on a connection that is not about to be replaced every open conversation is in use or
\* kept for the next command.
NoLeakedConversation ==
    RelayOpen /\ ~relayTransport.stale =>
        \A c \in LiveConversations :
            \/ \E a \in Agents : agentSessions[a] = c
            \/ \E e \in RelayRunning : relayExec[e].conversation = c

\* No command of an earlier identity brings back what an identity change made the
\* manager forget: a kept conversation was last used under the present one.
KeptUnderThisIdentity ==
    \A a \in Agents : agentSessions[a] # NoCall =>
        \E e \in RelayExecs : /\ relayExec[e].pc = "returned"
                              /\ relayExec[e].conversation = agentSessions[a]
                              /\ relayExec[e].generation = Generation(relayTransport)

\* The conversations of the manager as a whole: typed, kept only while they are of use to
\* the next command, and open at the hub only while somebody answers for them.
ConversationsKept == RelayTypeOK /\ KeptIsLive /\ KeptUnderThisIdentity /\ NoLeakedConversation

\* A failed command does not hold up the agent's later ones: behind every call that
\* waits, a call for the same agent is under way or has its turn.
QueueMoves ==
    \A e \in RelayExecs : relayExec[e].pc = "queued" =>
        \E f \in RelayExecs : /\ AgentOf[f] = AgentOf[e]
                              /\ f \in RelayRunning \/ (relayExec[f].pc = "queued" /\ MyTurn(f))
================================================================================
