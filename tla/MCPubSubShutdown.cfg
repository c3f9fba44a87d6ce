\* Tabs that take turns on each channel; nothing throws.
CONSTANTS
  t1 = t1  t2 = t2  pattern = pattern  orders = orders
  Tab <- Tabs
  Channel <- MixedChannels
  Row <- MixedRows
  Shown = {}
  Defaults <- PatternDefault
  TakeTurns <- MixedChannels
  Throwing = {}
  MaxOpened = 4
  MaxRefs = 3
  MaxFaults = 0
SPECIFICATION Spec
CHECK_DEADLOCK FALSE
PROPERTIES
  ShutdownTearsDown
