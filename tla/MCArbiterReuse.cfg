SPECIFICATION Spec
CONSTANTS
  Pids <- MCPids
  ArbiterPid = 100
  NoPid = 0
  MAX_REQUESTS = 2
  ReqPids <- MCPids
  ReqLevels <- MCReqLevels
  SpawnDomains <- MCDomains
  MaxBacklog = 2
  QuickReuse = TRUE
INVARIANT LevelAuthorised
