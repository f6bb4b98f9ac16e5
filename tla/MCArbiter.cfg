SPECIFICATION Spec
CONSTANTS
  Pids <- MCPids
  ArbiterPid = 100
  NoPid = 0
  MAX_REQUESTS = 2
  ReqPids <- MCPids
  ReqLevels <- MCReqLevels
  SpawnDomains <- MCDomains
  MaxBacklog = 2
  QuickReuse = FALSE
INVARIANTS TypeOK TableWithinBound LevelBacked
PROPERTIES TakeoverOnlyWhenGone OnlyOwnerOrManager LoweringAllowed EveryClientReleased
