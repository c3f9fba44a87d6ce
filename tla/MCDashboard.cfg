\* Drawer: TTLs of one or none beside the extended ones, two changes, two mutations
\* under way.  Rings: three seconds.  Badge: a buffer of two, four events.
\* Pub/Sub: three subscriptions, two channels and messages, one lost connection.
\* Life: three expiries in two databases, one lost connection.
CONSTANTS
  Step = 1
  MaxTtl = 1
  MaxRev = 2
  MaxCalls = 2
  LongestTtl = 3
  Capacity = 2
  MaxSeq = 4
  exact = exact  glob = glob  demo = demo  products = products  errors = errors
  Channel = {products, errors}
  Subscription = {exact, glob, demo}
  Covers <- Covered
  Throwing = {demo}
  MaxMsgs = 2
  MaxCuts = 1
  OwnKey = {own1, own2}
  ForeignKey = {foreign}
  Db = {0, 1}
  MaxExpired = 3
  MaxDrops = 1
SPECIFICATION DashboardSpec
INVARIANTS
  DashboardTypeOK
  InspectionsTrue
  BadgeTracks
  FeedsFaithful
PROPERTIES
  ExtendLengthens
\* The bounds end every behaviour.
CHECK_DEADLOCK FALSE
