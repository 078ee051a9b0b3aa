SPECIFICATION Spec
CONSTANTS
  c1 = c1
  c2 = c2
  c3 = c3
  a = a
  b = b
  b2 = b2
  e1 = e1
  ha = ha
  hb = hb
  hb2 = hb2
  he = he
  ag = ag
  s1 = s1
  s2 = s2
  None = None
  Commands <- MCCommands
  ClientIds <- MCClientIds
  HubIds <- MCHubIds
  Agents <- MCAgents
  Requests <- MCRequests
  HubId <- MCHubId
  AgentOf <- MCAgentOf
  Signing <- MCSigning
  Slots <- MCSlots
  SizeOf <- MCSizeOf
  Wire <- MCWire
  PoolSize = 1
  Limit = 2
  Reserve = 1
  MaxEvents = 2
INVARIANTS
  AccountsExact
  RoutedHome
  BytesFailAlone
CHECK_DEADLOCK FALSE
