SPECIFICATION SupervisedSpec
CONSTANTS
  Pids <- MCPids
  Mgrs <- MCMgrs
  ArbiterPid = 100
  NoPid = 0
  MAX_REQUESTS = 3
  Clients = {"root", "guest"}
  Trusted = {"root"}
  Commands <- MCAuthorizeOnly
  GrantLevels <- MCGrantLevels
  SetLevels <- MCSetLevels
  MaxAttempts = 2
  MaxFaults = 1
  MaxRestarts = 1
  SlowStart = FALSE
PROPERTY ChainRecovers
