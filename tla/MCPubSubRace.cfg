\* Tabs whose requests overlap; no Unsubscribe throws.
CONSTANTS
  t1 = t1  t2 = t2  pattern = pattern  orders = orders
  Tab <- Tabs
  Channel <- MixedChannels
  Row <- MixedRows
  Shown = {}
  Defaults <- PatternDefault
  TakeTurns = {}
  Throwing = {}
  MaxOpened = 4
  MaxRefs = 3
  MaxFaults = 0
SPECIFICATION Spec
SYMMETRY Turns
CHECK_DEADLOCK FALSE
INVARIANTS
  CountsAlwaysAgree
