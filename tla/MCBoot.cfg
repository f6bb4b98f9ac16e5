SPECIFICATION Spec
CONSTANTS
  SedDaemons <- MCSed
  UidDaemons <- MCUid
  Supervised <- MCSupervised
  Missable <- MCMissable
  LastScripts = {"supervise", "console"}
  MaxDeaths = 2
INVARIANTS TypeOK SingleInstance GateIsReal
PROPERTY BootCompletes
CHECK_DEADLOCK FALSE
