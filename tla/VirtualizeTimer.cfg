SPECIFICATION TimersSpec
CONSTANTS
  NUM_TIMERS = 2
  MAXINT = 7
  Delays = {1, 6}
  Pasts = {0, 1}
  MaxLate = 2
INVARIANTS TimersInv
PROPERTIES NeverEarly
