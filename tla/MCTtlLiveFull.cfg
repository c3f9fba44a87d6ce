\* Two keys, a ring of two: in a full ring an expiry replaces another.
CONSTANTS
  k1 = k1  k2 = k2  NoKey = NoKey
  Key <- TwoKeys
  Capacity = 2
  MaxEvents = 3
SPECIFICATION TtlFairSpec
CHECK_DEADLOCK FALSE
PROPERTIES
  ExpiryFadesTile
