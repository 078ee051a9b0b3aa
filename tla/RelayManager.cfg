SPECIFICATION RelaySpec
CONSTANTS
    a1 = a1
    a2 = a2
    old = old
    new = new
    RelayExecs <- MCExecs
    Agents = {a1, a2}
    AgentOf <- MCAgentOf
    RelayBatchExecs = {4}
    RelayTokens = {old, new}
    NoToken = NoToken
    NoCall = NoCall
    RelayFaults = TRUE
SYMMETRY TokenSymmetry
INVARIANTS
    OwnConversation
    ConversationsKept
    QueueMoves
CHECK_DEADLOCK FALSE
