SPECIFICATION Spec
CONSTANTS
  MAX_LINE = 3
  MAX_HISTORY = 2
  MAX_NOTIFICATIONS = 2
  Blank = Blank
  Letters = {x}
  NUL = NUL
  Levels = {1, 2}
  PERM_LEVEL_CACHE_TTL = 2
INVARIANT TypeOK
PROPERTIES ImplementsEditor LevelIsRecent
CHECK_DEADLOCK FALSE
