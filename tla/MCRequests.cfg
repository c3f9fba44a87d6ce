\* Tabs whose requests overlap, library calls that throw, a shutdown.  Listing: two
\* keys, pages of one, two events, up to four pages.
CONSTANTS
  t1 = t1  t2 = t2  pattern = pattern  orders = orders
  Tab <- Tabs
  Channel <- OneChannel
  Row <- OneRow
  Shown <- OneRow
  Defaults <- PatternDefault
  TakeTurns = {}
  Throwing <- OneChannel
  MaxOpened = 2
  MaxRefs = 2
  MaxFaults = 1
  Slot = {1, 2}
  PageSize = 1
  MaxEvents = 2
  MaxPages = 4
SPECIFICATION RequestsSpec
CHECK_DEADLOCK FALSE
INVARIANTS
  RequestsTypeOK
  FreshAfterOwnWrite
PROPERTIES
  RequestsEnd
