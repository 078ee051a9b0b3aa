SPECIFICATION NodesSpec
CONSTANTS
  Plans <- MCPlans
  Collections = {4}
  PageSize = 2
  Tellings <- MCTellings
  MaxPages = 2
  MaxRetries = 1
  MaxChanges = 1
  Events <- MCEvents
  MaxFiles = 2
  MaxFile = 2
  MaxTotal = 3
  MaxPayload = 1
  Catalogs <- MCCatalogs
  Requests <- MCRequests
  ForbiddenTokens <- MCTokens
  Sensitive = {"token"}
  Columns = {"id", "cost"}
  Found = {0, 1, 3}
  MaxGoverned = 3
  McpItems = 2
INVARIANTS
  PagesComplete
  EffectsOnce
  GovernedCalls
PROPERTY
  AllNodesEnd
CHECK_DEADLOCK FALSE
