SPECIFICATION ReadySpec
CONSTANTS
  SedDaemons <- MCSed
  UidDaemons <- MCUid
  Supervised <- MCSupervised
  Missable <- MCMissable
  LastScripts = {"supervise"}
  MaxDeaths = 1
PROPERTY DeadIsRespawned
