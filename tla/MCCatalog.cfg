\* Catalog: two clients, a product with a row and one without, batches of two ids.
\* Pages: two cards with two clicks each; two tabs and payloads, two runs; a code
\* of each kind, three triggers; two bursts of three contenders at most, whose form
\* takes numbers below, in and above the bounds.
CONSTANTS
  c1 = c1  c2 = c2  p1 = p1  p2 = p2  Nothing = Nothing
  Caller <- TwoCallers
  Product <- TwoProducts
  Known <- OneRow
  MaxBatch = 2
  MaxCalls = 3
  Card = {n1, n2}
  Id = {1}
  Member = {m1}
  IncrStep = 5
  MaxClicks = 2
  LabTab = {t1, t2}
  Payload = {o1, o2}
  Active = "msgpack"
  MaxRuns = 2
  raises = raises  corrupt = corrupt  serialize = serialize  cluster = cluster
  simulate = simulate
  Code <- CodePerWay
  Way <- WayOf
  FlushGuard = simulate
  JsonCodec = FALSE
  Cluster = FALSE
  MaxTriggers = 3
  id = id  odd = odd  Blank = Blank  NotANumber = NotANumber
  ProductText = {id, odd, Blank}
  SafeId = {id}
  NumberText = {0, 2, 9, NotANumber}
  MinConcurrency = 1
  MaxConcurrency = 3
  DefaultConcurrency = 2
  MinLockMs = 1
  MaxLockMs = 3
  DefaultLockMs = 2
  MaxBursts = 2
SPECIFICATION CatalogSpec
SYMMETRY Symmetric
\* The bounds of the pages end their behaviours.
CHECK_DEADLOCK FALSE
INVARIANTS
  CatalogTypeOK
  BatchAligned
  OneCreator
  SeedNeverMisleads
  MissesPayOrigin
  ViewsShowTheirOwn
  NumbersAddUp
  ReadsSpareWhatTheySaw
