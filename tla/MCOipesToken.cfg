SPECIFICATION Spec
CONSTANTS
  LIFETIME = 12
  GRANT = 11
  MARGIN = 9
  POLL = 3
  MaxLatency = 2
INVARIANTS TypeOK NeverLapses HonouredWhileServed
PROPERTIES Renews ReuseHeals
