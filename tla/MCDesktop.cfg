SPECIFICATION Spec
CONSTANTS
  XRES = 5
  YRES = 5
  WORD = 256
  BPP = 4
  BAR = 3
  DOT_X = 1
  DOT_Y = 1
  STEP_X = 2
  STEP_Y = 1
  TITLE = 1
  Geometry <- MCGeometry
  FOCUS = 1
  MAX_WINDOWS = 64
  BACKLOG = 0
  Apps = {a1}
  Commands <- MCCommands
  MaxCrashes = 2
INVARIANTS TypeOK OnScreen
PROPERTIES HeadlessOnlyWithoutServer ClipIsExact EveryoneIsServed
CHECK_DEADLOCK FALSE
