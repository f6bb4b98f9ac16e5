SPECIFICATION Spec
CONSTANTS
  Pids = {1, 2, 3}
  GUARD_OOPS_MAX = 2
  GUARD_OOPS_THRESH = 2
  GUARD_OOPS_WINDOW = 2
  GUARD_CRC_INTERVAL = 2
  Intact = "intact"
  Contents = {"intact", "changed"}
  MaxTime = 5
INVARIANTS TypeOK StormIsNoticed PanicsInTime
PROPERTIES KillsAreEarned EvictsSpentFirst
CHECK_DEADLOCK FALSE
