\* Bridge: tabs that take turns on each channel; the library calls about one may throw.
\* TTL Live: two keys, a ring of two, three socket events.
CONSTANTS
  t1 = t1  t2 = t2  pattern = pattern  orders = orders
  Tab <- Tabs
  Channel <- MixedChannels
  Row <- MixedRows
  Shown = {}
  Defaults <- PatternDefault
  TakeTurns <- MixedChannels
  Throwing <- OnlyOrders
  MaxOpened = 3
  MaxRefs = 2
  MaxFaults = 1
  k1 = k1  k2 = k2  NoKey = NoKey
  Key <- TwoKeys
  Capacity = 2
  MaxEvents = 3
SPECIFICATION TabsSpec
CHECK_DEADLOCK FALSE
INVARIANTS
  CountsAgree
  NoOrphanListener
  FeedWellFormed
  FadesOncePerExpiry
  PillCountsArrivals
PROPERTIES
  ShutdownStops
  CountedSpec
  DropsOldestFirst
  PendingIsFlushed
  ExpiryFadesTileInTime
