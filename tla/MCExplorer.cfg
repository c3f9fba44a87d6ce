\* API: one request beside all single commands of the others, two tenants, pages
\* of two.  Filters: three keys, two changes of the filter, one of the keys.
\* Series: two ranges, two buckets, two reads, one restart.  Sampler: two prefixes,
\* two readers, three lookups.
CONSTANTS
  c1 = c1  k1 = k1  k2 = k2  k3 = k3  t1 = t1  t2 = t2  Shared = Shared  Demo = Demo
  Caller <- OneCaller
  Key <- ThreeKeys
  Tenant <- TwoTenants
  Owner <- OwnerOf
  StringKey <- Strings
  Limit = 2
  Cap = 2
  StoredKey <- Products
  TenantId = {"acme", "globex"}
  PrefixText = {"product", "tags"}
  IdText = {"1"}
  MaxClicks = 2
  MaxWrites = 1
  Span = {r1, r2}
  MaxBuckets = 2
  MaxWork = 2
  MaxRestarts = 1
  Prefix = {product, tag}
  Reader = {probe, overview}
  Window = 2
  MaxOps = 3
  MaxTime = 3
SYMMETRY Ranges
SPECIFICATION ExplorerSpec
INVARIANTS
  ExplorerTypeOK
  ListingComplete
  SweepsComeOut
  SampleCounts
  InspectWhole
  RowsMatchFilter
  NothingCountedTwice
PROPERTIES
  SparesOthers
