# nest-cache-example in TLA+

Specifications of the parts of nest-cache-example whose correctness depends on
the order in which things happen, the TLC runs that check them on small
instances, and the theorems TLAPS proves about them for every instance.
Paths below are relative to the repository; `api/` is `apps/api/src/` and `web/`
is `apps/web/`.

    tlc -workers 2 -config MCCatalog.cfg MCCatalog      # one run; see the table of runs
    tlapm Keyspace_proofs.tla                           # one proof module

## 1. The system

A NestJS API exercises the Redis library `@bymax-one/nest-cache`; a Next.js
dashboard drives the API over REST and listens to it over one socket.io
connection per live view. Redis is the only shared storage. The API keeps a
little state in memory (subscription counts, hit counters, a rate window); the
dashboard keeps query caches and a bounded event buffer per view.

     browser tab                         API process                     Redis
     -----------                         -----------                     -----
     pages --REST--> controllers --> services --commands, Lua--> keys, TTLs, locks
       ^                                  |  ^
       |                                  |  '---- Pub/Sub, keyspace events
       '-- use-cache-socket <--socket.io--'  (PubSubBridge, TtlEvents, gateway)

### Inventory

| Component | State | Operations | Hard behaviour | What makes it correct | Module |
|---|---|---|---|---|---|
| Stampede lab (`api/stampede`, `api/cache/scripts`) | lock key with PX, product key, one promise per contender | `run`, `acquireOrWait`, `populateAndRelease` | contenders and bursts race; locks lapse under a slow holder; commands throw; the process dies | one origin fetch per flight; releases never touch a foreign lock; bounded wait; everybody answered | `Stampede` |
| Stampede page (`web/components/labs/Stampede*`) | form fields, one mutation | type, fire | bounds written down twice, fields edited while a burst runs | no typed number is refused; strip and button agree | `StampedeLab` |
| Pub/Sub bridge (`api/pubsub`) and its card (`SubscriptionManager`) | Map of entries with ref counts, library listeners, row counts of each tab | POST and DELETE of a subscription, boot, shutdown | check, await, store; two tabs; an Unsubscribe that rejects; a shutdown with requests under way | counts and listeners agree; no orphan listener; rows show the server's count | `PubSubBridge` |
| Pub/Sub page (`PublishCard`, `PubSubView`, `POST /pubsub/publish`) | one publish mutation, the live rows | publish, forward, throw | one message through several subscriptions; the answer races the rows; lost links | rows are the published messages, in order, as many as were handed over | `PubSubFeed` |
| TTL events (`api/ttl-events`), gateway (`api/events`) | dedicated subscriber | `seed`, open, forward, quit | notifications are sent once and not kept; subscribe before listen | own keys only, each at most once, in order | `TtlLive`, `ApiLifecycle` |
| Configuration and bootstrap (`api/config`, `api/cache`, `api/main.ts`) | the environment | validate, build options, init and destroy hooks | a part of the environment that the mode does not use; shutdown in mid start | crashes only for what the mode needs; leaves no connection | `ApiLifecycle` |
| Live socket buffer (`use-cache-socket`, `web/lib/socket`) | pending array, animation frame handle, ring of rows, identity counter | event, frame, Live on and off | a frame racing the cleanup; the ring at capacity | identities increase; oldest dropped first; nothing pending is forgotten | `CacheSocket` |
| TTL Live page (`TtlLiveView`, `EventFeed`, `CountdownWall`, `use-follow-mode`) | tiles, refs of handled keys, pill counter, scroll position | seed, persist, effects, timers, scrolling | the event can precede the reply that adds the tile; effects see the last render | a tile fades once, because its key expired, and does fade; the pill counts arrivals | `TtlLive` |
| TTL rings (`explorer/TtlRing`, `realtime/TtlRing`) | a local countdown | tick, new value | the answer is old when it comes; a refetch brings the same value | the label never shows less than Redis has, and is late by what it missed only | `TtlRings` |
| Product catalog (`api/catalog`) | product keys, TTLs | `getProduct`, `getProducts`, `seedProduct`, TTL operations | read, await the origin, write; batches with duplicates, unknown and partly cached ids | answers aligned; one creator; reads overwrite only what they could not have seen | `Catalog` |
| Cache metrics (`api/metrics`) | hits, misses, sampler window | `recordHit`, `recordMiss`, `snapshot` | failures between the count and the work; a window that every reader resets | one event per lookup, every miss pays the origin; no lookup in two rates | `Catalog`, `OpsSampler` |
| Admin key operations (`api/admin`) | none of its own | list, inspect, sample, flush; delete, persist, expire, bulk seed | requests of several commands beside the commands of all others; page cut, cap, ghosts | complete pages; whole inspections; exact samples | `Keyspace` |
| Tenants (`api/tenants`) | tenant keys, a foreign key | read-through, clear by scan and delete, isolation proof | keys come and go during the scan | only the tenant's keys, and all that were there; the foreign key survives | `Keyspace` |
| Key Explorer (`ExplorerView`, `KeyTable`, `use-keys`, tenant pages) | pages in the query cache | paging, refetch, mutations, invalidation | each page is a fresh scan; the scroll effect cancels refetches | paging ends; rows are no older than the tab's own mutations | `KeyListing` |
| Explorer filters (`FilterRail`, `TenantSwitcher`, links, `web/lib/filters`) | the URL | every control of the page, links of others | answers of filters that are not set any more | rows match the pattern shown above them | `ExplorerFilters` |
| Key drawer (`KeyDetailDrawer`, `use-key-inspect`, `use-cache-mutations`) | an inspection in the query cache, mutations under way | persist, extend, delete, refresh | row and drawer share an inspection; a button acts on an old one | settled data is not older than the tab's mutations; Extend lengthens | `KeyDrawer` |
| Connection status (`StatusChip`, `ConnectionView`, `api/cache/cache.events`, `api/health`) | last lifecycle event in the buffer, last poll | event, poll, Live off | a buffered event outlives what it reports; late and failing polls | the badge names the connection's state, or an error | `ConnectionStatus` |
| Overview series (`use-metric-series`, `use-metrics`, `use-info`) | baseline, buckets, one query per range | tick, range change | effects of one commit, counters that restart | nothing is counted twice; a bounded series | `MetricSeries` |
| Serializer lab (`api/serializer-demo`, `SerializerView`) | three shared demo keys, panels of each tab | round trip, caveat | overlapping requests on the same keys | an answer describes one payload | `SerializerLab` |
| Error lab (`api/errors-demo`, `ErrorsView`) | selected row, newest mutation | trigger, production guard | triggers overlap; a code raised by the wrong way | the response is of the selected code | `ErrorLab` |
| Playground (`components/playground`, `api/counters`, `api/collections`) | hashes, sets, integers; a card's outcome | one operation per card at a time | a list and its count are two commands; other tabs | newest outcome; counts agree; no two equal increments | `Playground` |
| Charts, layout, UI kit, formatting, API clients | none | pure functions, rendering | none | | no |
| `@bymax-one/nest-cache`, Redis, TanStack Query, React, Nest, ioredis | external | | | | external |

`PROJECT.json` lists the same components with their files, and every hazard of
this code at its line, with the properties that cover it. Some hazards are what the code
does, against no promise of its own: a property that has one as its exception (`waived`,
`excused`, `steady`, `touched`, `mixed`, `blind`, the full ring of the pill) does not
catch it. These hazards carry a note, which says what the exception is and what the
property still rules out.

## 2. The modules

One **step is one Redis command, one timer, one render or one click with the code
up to the next await**. History variables are marked as such in the modules; they
restrict no action, but that `Keyspace` states SCAN's promise with one.

### Stampede: the single-flight lab

`POST /stampede` fires a burst of contenders for one product. `pc[c]` is the
pending await; `result[c]` is the `ContenderResult`; `response[b]` the HTTP
answer of a burst; `lock`/`lockTtl` the lock key; `cached` the product key.

| Action | Code |
|---|---|
| `Fire`, `Respond` | `StampedeService.run` around `Promise.all`; `scripts.load` after it may throw |
| `TryLock`, `Recheck`, `Yield` | `acquireLock`; the winner reads the cache again and gives the lock back on a hit |
| `FetchOrigin`, `Populate`, `Release` | the origin's delay, then `populateAndRelease` with its `finally` |
| `ReadValue`, `CheckDeadline`, `FinalRead`, `DirectFetch` | the poll loop of a loser and what follows it |
| `CommandThrows` | any of these Redis commands rejects, with or without effect |
| `Crash` | the process of a burst dies, what it stored in Redis stays |
| `Meddle` | other clients of the product key, and a flush that takes the lock along |
| `Tick` | one unit of time for timers, wait windows and PX |

Time is discrete: a pending step is due after its delay and is taken at most
`Slack` ticks late. `Slack` stands for network and event-loop delay; a lock can
therefore lapse while its holder still works. Values are abstracted to present
or absent, since all of a product's writers store the same product.

`CollapsedFlight` is the abstract specification: callers arrive, one of them
fetches and stores, the rest hit. It has no lock and no clock. `Stampede`
implements it (`FlightSpec`, safety and liveness) when locks outlive the fetch
and nothing fails.

`StampedeLab` is the page above it: the three fields, `clampInt`, the request,
the schema that accepts or refuses it, and the strip and swimlane derived from an
answer whose contenders end in any way they may: one that won the lock has paid the
origin, one that waited has not, or has after its wait window. Fields can be edited
while a burst runs; `announced` (history) is the number on the button when it was
clicked. Of the swimlane the number of lanes and the sum of its label are in it; the look of
a lane goes by its role alone (see section 3) and is not.

### PubSubBridge: ref-counted subscriptions

`subs` is the service's Map. An entry is a number from `opened`, with its row
(`target`) and `refs`; `live` are the entries whose listener the library still
serves. A tab has one request at most (its buttons are disabled meanwhile);
`addSubscription` and `removeSubscription` are split **at their await**:
`AddSubscription`/`Subscribed` and `RemoveSubscription`/`Unsubscribed`, with
`SubscribeThrows` and `UnsubscribeThrows` for a rejecting library call, after
its effect or not on the channels in `Throwing`. `Boot` subscribes the defaults one by
one. `Destroy`, `Settle` and `Destroyed` are `onModuleDestroy` before, during and after
its `Promise.allSettled`: it takes the entries that are stored when it is called,
**whoever has a request under way**, requests are clicked and served while it waits, and
`Destroyed` clears the Map with what they stored. `strays` and `before` are history: the
listeners that the code leaves where no removal can find them (a subscribe that threw
after its effect, an Unsubscribe that rejected at shutdown, an entry cleared while it
delivers), and how many entries there were when the shutdown began. `rows` is what
each tab displays, updated as the card does: by the channel **and kind** of the
answer. A row that the form adds starts with no reference, so it is a row that
was there from the start and has not been clicked. `Row` are the pairs of a channel and a
kind that anybody asks for, `Shown` those of them that are rows of a tab: none, where a
question is about the API alone, whose other clients show no rows.

Two kinds of channels make two questions out of one module: on a channel in
`TakeTurns` a tab waits for the other's answer, on the others requests overlap.

`RefCounted` is the abstract specification: the first holder opens a listener,
joiners only count, the last one to leave lets it go; a closing owner stops what it
found and loses what is opened after. `PubSubBridge` implements it on channels whose
callers take turns and whose library calls do what they answer.

### PubSubFeed: a message from the form to the rows

`HandlePublish`, `ServePublish` and `AnswerPublish` are PublishCard's mutation;
`PublishAt` hands the message to every open subscription that covers the channel,
`DeliverCopy` runs one handler and emits to the tab if it is Live, and a handler
in `Throwing` (the error demo) emits an error of the connection instead. Copies
travel on one connection, in `Turn`. `CutLink` loses what is under way. A
subscription is open or not here; who holds it is the bridge's question. The
rows are the ring of `CacheSocket`.

### CacheSocket and TtlLive: from Redis to a fading tile

`CacheSocket` is the hook: `Enable`/`Disable` are the effect and its cleanup,
`Receive` is `schedule`, `Flush` is the frame callback. `raf` (what the hook
believes) and `frame` (what the browser holds) are separate variables, because
their disagreement is what would go wrong. The ring is a sequence; `Trim` is the
drop-oldest loop. The module has no `Next`: `TtlLive`, `ConnectionStatus` and
`PubSubFeed` extend it and compose its actions with their pages.

`TtlLive` follows a key from the click to the end of its tile: `ClickSeed`, `Seed`,
`SeedReply`, `Persist`, `PersistReply` and `Fail` are the two seed mutations;
`Expire` removes the key in Redis and delivers its notification **once or not at
all**; `Frame` flushes and asks for a render; `Commit` is a render with its
effects (refs, the fade effect keyed on the number of expiries, the arrivals of
the feed); `FadeEnd` is the fade timer; `Scroll` is the follow mode. `missed`
and `latest` are history variables for the pill property.

`TtlRings` is the countdown of the drawer and of a tile, by `place`: a tick of
the interval, a new inspection that resynchronises only if its **value** differs
(`Resynced`), an answer that takes seconds to arrive, a key that any client
changes meanwhile. `due` is a second that has passed in Redis and not yet in the
ring.

### ApiLifecycle: from the environment to the last quit

`ValidateEnv`, `BuildCacheOptions`, `ConnectLibrary`, the init hooks,
`Listen`, `Signal` and `QuitSettles` are the stages of the process. The
dedicated subscriber has its own variable: `OpenSubscriber`, `SubscribeAck`,
`AttachListener`. **Between acknowledgement and listener a notification is
dropped**, and so is every one while `DropLink` has the connection down.
`Expire` publishes; `Deliver` is the listener, which filters the namespace.
Environments are records of what decides a branch: valid, the mode, the
topologies whose lists have an entry without a port, the database.

### Catalog: read-through, seeding, metrics, other clients

`pc[c]` names the next Redis command (or origin call) of a caller's handler.
`getProduct` is `Get`, `Find`, `Set`; `getProducts` is `Mget`, `FindMany`, `Set`
(`mset`); `seedProduct` is `SeedFind`, `SetNx`, `Exists`. `Fail` is a command
that rejects, its write done or not. `Record` is `MetricsService`. The rest are
the TTL operations and the admin operations of other clients: `SetTtl`,
`PersistKey`, `Lapse`, `DeleteKey`, `FlushNamespace`, `BulkSeed`. `lasts` are the
keys without a TTL: `set` and `setNx` give one, **`mset` and the bulk seed take it
away**. `creators` and `steady` are history: how many seeds were told they
created the key since it was last absent, and which entries a request could have
seen and still could.

A product document is a record of its id, the only field the handlers look at.
`findMany` is one step: the code asks the rows in parallel and the origin never
changes. It is taken also when nothing is missing, as in the code
(`catalog.service.ts:91` awaits the origin for an empty list, so a batch of hits
still waits for it).

### Keyspace: requests that range over many keys

All of `AdminService` and `TenantsService` on one Redis keyspace. `db` says of
each key whether it is absent, expires or stays; `pc[c]` is the next command of a
caller's handler; `scope` is what its pattern matches, `seen` what its SCAN has
returned, `todo` what of the last batch is still to be worked on, `ended` that
the cursor is 0.

| Request | Steps |
|---|---|
| `ListKeys` ("list" with a prefix, "browse" without, "keys") | `ScanPage` until page or end, or `ListByKeys` |
| `ClearTenant` | `ScanTenant` to the end, then one `DelMany` |
| `FlushNamespace` | `ScanFlush` and `Unlink`, batch by batch |
| `ProveIsolation` | `ExistsForeign`, `SeedForeign` if need be, the flush, `VerifyForeign` |
| `GetKeyspaceBreakdown` | `ScanSample` (cut at the cap), `Probe` of the batch |
| `InspectKey` | `Type`, then `Value`, `Raw` and `Ttl`, with anything in between |
| `GetProduct` of a tenant | `Get`, `Set` |

`Returned` is Redis' promise for SCAN and nothing more: each batch is any set of
present keys, and when the cursor comes back to 0 every key that was there all
the time has been returned. Beside them run the single commands of all other
clients: `Write`, `PersistKey`, `ExpireKey`, `DeleteKey`, `Lapse`,
`SeedForeignNamespace`. A tenant's keys are those its name owns, so that the
pattern of a tenant is a set of keys. `stood` (history) are the keys present ever
since a request began. A request sees of another one only what its commands do to
`db`, and every command that changes `db` is also one of those single commands;
so one request beside single commands shows every behaviour of one among many.
The proofs take any number of requests.

### KeyListing, ExplorerFilters, KeyDrawer: what a tab shows of the keys

`KeyListing` is the infinite query of `use-keys` as TanStack Query runs it, the
table's scroll effect and the mutations that invalidate it. `present` is the
keyspace as far as the listing asks, `version` counts its changes, a page carries
the version it was read at. `Refetch` loads the pages again one after the other;
`LoadMore` is the effect in `KeyTable`, which cancels a refetch that is running;
`Acknowledge` invalidates: a first load, and a load without observers, are not
cancelled by it (`waived`, history). `Mutate`, `TakeEffect` (in one or several
changes), `Acknowledge` and `Reject` stand for every mutation of the pages,
the drawer, the flush button, the tenant panel and the isolation proof.

`ExplorerFilters` is the URL and what follows from it: `SwitchTenant`,
`ChangePrefix`, `ToggleType`, `ToggleTtl`, `ChooseStrategy`, and the links of
other pages; `QueryKey` is what the answers are cached under, `Scanned` the
pattern the API scans, `ResolvedPattern` the one the page shows. A key is the
sequence of its segments; a pattern is one whose last segment may be the glob.

`KeyDrawer` is one key: its row and its drawer observe one inspection; `calls`
are the mutations under way, each with the inspection it was clicked on.
`Effect`, `Apply`, `AckCall` and `FailCall` are the command, the answer and the
two ends; `Second` runs TTLs down, `OthersSet` is every other client.

### ConnectionStatus, MetricSeries, OpsSampler

`ConnectionStatus` adds to `CacheSocket` the API's connection (`Follows`: which
lifecycle event can follow which) and the health poll; `Badge` is the chip's
choice between the newest buffered lifecycle event and the poll. A poll is sent
(`PollHealth`) and answered (`HealthArrives`) in two steps: `probe` is what its answer
may be, which grows when the connection changes meanwhile. **A poll may fail on a ready
connection**, by a ping that throws or a request that is lost; it cannot succeed on
another one.
`ErrorReported` is an error event without a change of state, by a failed attempt
or by a Pub/Sub handler that throws.

`MetricSeries` has both ends of the Overview: the counters in the API and in
Redis' INFO, which restart on their own; one metrics query per range; and the
hook, whose reset and tick effects run in one commit. `TickWith` is the tick,
`BaselineAfterReset` the order of the two effects. `base` and `blind` are history.

`OpsSampler` is the other end of `snapshot`: counters that are created on first
use, and one window of operations that each reader reads, rounds and resets.
`Date.now` may be set back. `Sums` is the sum over a family that both of them use.

### SerializerLab, ErrorLab, Playground

`SerializerLab` is both endpoints command by command on `demo:last`, `raw` and
`caveat`, and the form and panels of each tab; of a codec it keeps what it does
to a Date. `ErrorLab` is `ErrorsView` over TanStack's newest mutation, and the
ways a code is raised (at once, by a corrupt value written and read, by a value
that cannot be serialized, by a cluster, or thrown and marked as simulated).
`Playground` is `usePlaygroundOp` for cards of several tabs; counters and
collections are stepped by Redis command, the answers of catalog calls are any.

## 3. What the runs check

| Run | Instance | Properties | States |
|---|---|---|---|
| `stampede_clean` | bursts of 2 and 1, lock 7 ticks, origin 2, poll 1, `Slack` 1, no fault | `SingleFlight`, `FlightSpec` | 95 k |
| `stampede_degraded` | bursts of 2 and 1, locks of 3 and 1 ticks, origin 2, two faults, one foreign write | `BoundedWait`, `NoForeignRelease`, `OrphanLockLapses`, `EveryBurstAnswered` | 141 k |
| `stampede_replacement` | one burst of 3, a lock that outlives the fetch, one fault | `NotEveryLoserFetches` (violated) | 12 k |
| `tabs` | 2 tabs, a default pattern and a channel, turns, library calls of one that may throw, a shutdown at any time; TTL Live: 2 keys, ring of 2, 3 socket events | `CountsAgree`, `NoOrphanListener`, `ShutdownStops`, `CountedSpec`, `FeedWellFormed`, `FadesOncePerExpiry`, `PillCountsArrivals`, `DropsOldestFirst`, `PendingIsFlushed`, `ExpiryFadesTileInTime` | 171 k |
| `requests` | 2 tabs, one channel, 2 listeners, overlapping requests, one fault, a shutdown; a listing of 2 keys, pages of 1, 2 changes | `RequestsTypeOK`, `FreshAfterOwnWrite`, `RequestsEnd` | 364 k |
| `pubsub_race` | 2 tabs, overlapping requests, no fault | `CountsAlwaysAgree` (violated) | 0.5 k |
| `pubsub_shutdown` | 2 tabs, turns, no fault | `ShutdownTearsDown` (violated) | 0.3 k |
| `pubsub_rows` | 2 tabs, turns, no fault | `RowShowsCount` (violated) | 6 k |
| `ttl_live_full` | 2 keys, ring of 2, 3 socket events | `ExpiryFadesTile` (violated) | 138 k |
| `catalog` | 2 callers, a product with a row and one without, batches of 2, 3 requests; 2 cards with 2 clicks each; 2 tabs, 2 payloads; a code of each kind, 3 triggers; 2 bursts of 3 | `CatalogTypeOK`, `BatchAligned`, `OneCreator`, `SeedNeverMisleads`, `MissesPayOrigin`, `ReadsSpareWhatTheySaw`, `ViewsShowTheirOwn`, `NumbersAddUp` | 1.1 M |
| `explorer` | 3 keys of 2 tenants, one of them a hash, pages and a cap of 2; filters over 4 keys, 2 clicks; series: 2 ranges, 2 buckets, a restart; 2 readers of the window, 3 lookups | `ExplorerTypeOK`, `ListingComplete`, `SweepsComeOut`, `SampleCounts`, `InspectWhole`, `RowsMatchFilter`, `NothingCountedTwice`, `SparesOthers` | 1.5 M |
| `dashboard` | drawer: 2 mutations, 2 changes; rings of 3 seconds; badge: ring of 2, 4 events; 3 subscriptions, 2 messages; 3 expiries, 2 databases | `DashboardTypeOK`, `InspectionsTrue`, `BadgeTracks`, `FeedsFaithful`, `ExtendLengthens` | 1.9 M |

**Several parts in one run.** `MCCatalog`, `MCExplorer`, `MCDashboard`,
`MCRequests` and `MCTabs` each
hold parts that share no state. Which part moves is chosen at the start
(`scene`), and the others keep their initial state, so the states of the parts
add up and are not multiplied: what such a run checks of a part is exactly what a
run of that part alone would. Some of their properties name one idea for
several parts; `FeedsFaithful`, for example, is `FeedFaithful` of `ApiLifecycle`
and `MessagesArrive` of `PubSubFeed`:

| In the run | Parts |
|---|---|
| `ViewsShowTheirOwn` | `RoundTripWhole` (SerializerLab), `ResponseOfSelected` (ErrorLab), `CardShowsNewest` (Playground) |
| `NumbersAddUp` | `AnswersAddUp` (Playground), `BurstAddsUp` (StampedeLab) |
| `RequestsEnd` | `EveryRequestAnswered` (PubSubBridge), `PagingEnds` (KeyListing) |
| `SweepsComeOut` | `SweepLeavesOnlyNewer`, `ProofHolds` (both Keyspace) |
| `InspectionsTrue` | `InspectionFresh` (KeyDrawer), `RingKeepsTime` (TtlRings) |
| `NothingCountedTwice` | `SeriesNeverOvercounts` (MetricSeries), `RatesAddUp` (OpsSampler) |
| `FeedsFaithful` | `FeedFaithful` (ApiLifecycle), `MessagesArrive` (PubSubFeed) |
| `CatalogTypeOK`, `ExplorerTypeOK`, `DashboardTypeOK`, `RequestsTypeOK` | the type invariants of their modules |

Every property of a passing run has a mutant, and a property with several parts
one for each: a plausible bug in one definition (an operator whose name starts
with `Bug`, beside the one it replaces) under which TLC finds that property
violated. `PROJECT.json` pairs them.

### Why these bounds

- *Stampede.* Two contenders of one burst and one of another cover holder and
  loser, and a second process whose lock time differs. `FlightFits` asks for a
  lock longer than the origin plus four delays; 7 > 2 + 4 is the least such lock,
  so the clean run sits at the edge of the theorem. In the degraded run both
  locks lapse before or just after the origin answers, so lapses, takeovers and
  late releases happen without a fault; two faults allow a throw after a throw,
  or a crash after one. The proofs remove these bounds.
- *Pub/Sub.* Two tabs are enough for every race between one look-up and one
  store; `MaxOpened` 3 leaves room for a listener per tab beside the default, 2 (in
  `requests`) for one of them to find the other's, and
  `MaxRefs` 2 or 3 for a join and both leaves. One fault is enough for a listener
  that is left and for a shutdown that cannot stop one. The violations need up to four
  requests.
  On the page, an exact subscription, a pattern that covers the same channel and
  the throwing demo channel give one message two rows, one, and an error.
- *TTL Live.* A ring of 2 and 3 events fill the ring and drop an entry; two keys
  let one expiry replace another.
- *Catalog.* A batch of 2 has duplicates, a hit beside a miss, and a known id
  beside an unknown one. Three requests of two callers give a second request to
  one of them, so that a stale writer meets a new reader. The proofs remove the
  bounds.
- *Keyspace.* Three keys over a page and a cap of 2 give the full page that ends
  exactly, the cut page and the cut sample; two tenants of unequal size a tenant
  that is cleared beside one that is not. One caller, for the reason given in
  section 2; the proofs take any number.
- *Listing and filters.* Two keys and pages of 1 have a second page; four pages
  leave room for a paging that does not stop at once. Two changes allow one by the
  tab and one by somebody else. Two clicks put the answer of one filter behind the
  setting of another; of the four keys one has an empty segment.
- *Drawer.* Two mutations of a kind can be under way because the drawer can be
  closed and opened again; two changes are one of them and one of another client.
- *Series.* Two ranges are alike (symmetry), and a third adds no new overlap; a
  restart of either counter between two ticks.
- *Life.* Two databases and two topologies beside standalone give every branch of
  the configuration; three expiries with a foreign key among them an own key
  before, during and after a lost connection.
- *Labs.* Two requests of an endpoint overlap in every way two sequences of
  commands can. The three triggers give an overtaken answer and a newer one under
  way. The stampede form's bounds (1..100, 50..60 000 ms) are scaled to 1..3, and numbers
  lie below, in and above them.

All callers of `Catalog` are alike, and so are the ranges of `MetricSeries`:
these two runs declare the symmetry, which is sound because they check no
liveness. The runs of Pub/Sub, TTL Live, `tabs`, `requests`, `catalog` and `dashboard` switch the
deadlock check off: a bridge that was destroyed and a page whose budget of
events is spent may stop. The stampede runs and `explorer` keep it on.

### Fairness

- *Stampede:* weak fairness of every contender's steps, of the answer and of
  time. An await on Redis settles (the client answers or rejects), a timer fires,
  `Promise.all` resolves. Nothing makes a client fire a burst, a fault strike or
  a foreign client write. Steps are never delayed beyond `Slack`, since `Tick`
  waits for them.
- *Pub/Sub:* requests are served and library calls settle, those of a shutdown too
  (`Settle`); tabs need not click, and shutdown need not begin.
- *TTL Live:* requests settle, animation frames run, renders commit and timers
  fire. Keys need not expire and events need not be delivered. A background tab
  delays frames, it does not drop them.
- *Listing (`PagingEnds`):* `Serve`, `Receive` and `LoadMore`: requests are
  answered, answers arrive, and the scroll effect runs after a render while its
  condition holds. Users and other clients need do nothing, and nothing has to
  fail or not to fail.
- The others state safety only.

### Where the code and its documentation part

Five runs show a disagreement (`findings` in `PROJECT.json` quotes both sides):

- `stampede_replacement`: the holder's first read throws outside any `finally`,
  so its lock stays for `lockMs`. The losers' deadline is the same `lockMs`: all
  of them reach it with the lock still held and fetch together. The header of
  `stampede.service.ts` says this never happens.
- `pubsub_race`: two first subscribes overlap at the await; both open a listener,
  the second entry overwrites the first, whose Unsubscribe is lost. The channel
  goes on delivering after as many DELETEs as POSTs. So it does when two DELETEs wait for
  the same Unsubscribe: the first empties the Map, a POST stores a new entry, and the
  second deletes **by channel** the entry that is held.
- `pubsub_shutdown`: `onModuleDestroy` takes the entries once. An add that waited for
  the library stores its entry afterwards, and `subs.clear()` drops it unstopped.
  `ShutdownStops` shows that nothing older is left but what rejected.
- `pubsub_rows`: for a channel it no longer knows the bridge answers
  `pattern: false`; the card looks for a row of that kind, and the pattern row
  keeps a count the server no longer has.
- `ttl_live_full`: the fade effect depends on the number of buffered expiries.
  In a full ring an expiry that replaces another leaves the number as it was, so
  the effect does not run and the tile stays. `ExpiryFadesTileInTime` shows that
  the full ring is the only cause.

What else the modules have in them because the code does it, though a reader of
the documentation or the page might expect otherwise. The properties are stated
with these as their exact exceptions:

- *Freshness.* A first load that is in flight when a mutation is acknowledged is
  not cancelled and clears the mark (`KeyListing!waived`, `KeyDrawer!excused`).
  The scroll effect cancels a refetch that runs (`KeyTable.tsx:140`). A tenant
  seed that throws midway skips its invalidation. A first listing that fails in
  the network shows "No keys".
- *Paging.* `KeyTable.tsx:6` speaks of advancing the SCAN cursor; the API ignores
  it and scans afresh, so the second page of a quiet keyspace repeats the first
  and paging ends there.
- *Filters.* For a tenant without a prefix the API scans `tenant:acme:` followed
  by `*` after one more colon (`admin.service.ts:103`), while the page announces
  `tenant:acme:*`: such a view lists only keys with an empty segment there, usually
  none, and with the id of a link it asks for that id behind an empty segment, which
  the page does not announce at all (`RowsMatchFilter` excepts both). Type
  and TTL facets are part of the query but the API does not apply them; the
  switcher cannot clear a tenant; a pattern that came with a link stays when the
  prefix is changed.
- *Drawer.* Extend on a persistent key makes it expire; persist and expire
  answer and toast also when the key is gone. A refetch that brings the same TTL
  does not restart the ring (`explorer/TtlRing.tsx:65` is keyed on the value), and
  a drawer that opens on a cached inspection starts its ring at the old value.
- *Status.* `POST /pubsub/throw` leaves "error" over a healthy connection, and so
  does a poll that fails. `BadgeTracks` therefore says the connection's state **or** an
  error, of a poll of this connection that has come, and not of a badge that rests on
  an event which a later one, lost to the tab, has belied. Such a badge stays: a "ready"
  that is in the buffer when Live is switched off hides every poll from then on, which
  `docs/DASHBOARD.md:126` has behind the chip.
- *Series.* A missing INFO counts as zero (`use-metric-series.ts:157`), so the tick
  after it shows all commands since Redis started (`blind`).
- *Expiry feed.* Notifications between the subscribe's acknowledgement and the
  listener are dropped (`ttl-events.service.ts:108`). `REDIS_DB`, "logical DB
  index" in the specification, selects the expiry channel only.
- *Pub/Sub page.* Publishing to the throwing channel answers "delivered to 1"
  without a row. A pattern row labels messages that came by an exact
  subscription, also with no reference of its own.
- *Labs.* A corrupt value makes the MessagePack codec throw an error of its own, not
  the coded one the row is for, and the page shows that under the code's row
  (`ResponseOfSelected` excepts requests that `faulted`). The serializer's
  caveat blames JSON also for a key that was removed under msgpack, and its codec
  selector changes a label only. Toasts of superseded error triggers still fire.
  A contender that waits out its window and fetches is drawn as "wait → cache HIT", by its
  role (`StampedeTimeline.tsx:83`), while the strip above counts its fetch.
  "View in Explorer" links the id that is typed now, not the outcome's. The batch
  card seeds 1..n whatever ids are typed, and the API refuses more than fifty.
  `getViews` decodes with the configured codec what INCR wrote as digits.

## 4. What is proved

TLAPS checks these for every value of the constants, under the named assumption
each module makes on its constants (`StampedeAssumption`, `LabAssumption` and so
on) and nothing else. They say that counts are naturals,
that sizes which divide or bound something are positive, that names which must
differ do, and that what the code enumerates is finite (`ListingAssumption` the
keys, `FeedAssumption` the subscriptions). TLC evaluates all of them in the runs.

| Theorem | States |
|---|---|
| **`Stampede_proofs`** | any number of contenders and bursts, any timing, faults and foreign writes |
| `TypeCorrect` | `Spec => []TypeOK` |
| `TokenSafeRelease` | `Spec => NoForeignRelease` |
| `BoundedWaitHolds` | `Spec => []BoundedWait` |
| `SingleFlightHolds` | `Spec => []SingleFlight`, assuming `FlightFits`, no faults and no foreign writes |
| `OneFlight` | under the same assumptions `Spec` implements the initial states and steps of `CollapsedFlight` |
| **`PubSubBridge_proofs`** | any tabs, channels and defaults, whichever calls throw |
| `TypeCorrect`, `NoOrphanHolds`, `CountsAgreeHolds` | `Spec => []TypeOK`, `[]NoOrphanListener`, `[]CountsAgree` |
| `ShutdownStopsHolds` | `Spec => ShutdownStops` |
| `CountedOnce` | `Spec` implements the initial states and steps of `RefCounted`, for the channels in `Orderly` (turns, and library calls that do what they answer) |
| **`Requests_proofs`** | any finite keyspace, page size and number of changes |
| `FreshHolds` | `ListingSpec => []FreshAfterOwnWrite` |
| `RequestsTypeCorrect` | `RequestsSpec => []RequestsTypeOK` |
| **`TtlLive_proofs`** | any keys, capacity of the ring and number of socket events |
| `FeedWellFormedHolds`, `FadesOnceHolds`, `PillCountsHolds` | `TtlSpec => []FeedWellFormed`, `[]FadesOncePerExpiry`, `[]PillCountsArrivals` |
| `DropsOldest` | `TtlSpec => DropsOldestFirst` |
| **`Catalog_proofs`** | any callers, products, batches and requests |
| `TypeCorrect`, `OneCreatorHolds`, `SeedNeverMisleadsHolds`, `BatchAlignedHolds`, `ReadsSpareHolds` | `Spec => []TypeOK`, `[]OneCreator`, `[]SeedNeverMisleads`, `[]BatchAligned`, `[]ReadsSpareWhatTheySaw` |
| `MissesPayOriginHolds` | `Spec => []MissesPayOrigin` |
| `PlaygroundTrue` | `PlaySpec => [](PlayTypeOK /\ CardShowsNewest /\ AnswersAddUp)`, any cards, counters and members |
| `RoundTripWholeHolds` | `SerializerSpec => [](SerializerTypeOK /\ RoundTripWhole)`, any tabs, payloads and runs |
| `ResponseOfSelectedHolds` | `ErrorSpec => [](ErrorTypeOK /\ ResponseOfSelected)`, any codes and triggers |
| `BurstAddsUpHolds` | `LabSpec => []BurstAddsUp`, any texts and bounds |
| `CatalogTypeCorrect`, `ViewsShowTheirOwnHolds`, `NumbersAddUpHolds` | `CatalogSpec => []CatalogTypeOK`, `[]ViewsShowTheirOwn`, `[]NumbersAddUp` |
| **`Keyspace_proofs`** | any callers, keys, tenants, page size and cap |
| `TypeCorrect`, `ListingCompleteHolds`, `SweepsComeOutHolds`, `SampleExact`, `InspectionWhole` | `Spec => []TypeOK`, `[]ListingComplete`, `[]SweepsComeOut`, `[]SampleCounts`, `[]InspectWhole` |
| `OthersSpared` | `Spec => SparesOthers` |
| `RowsMatchHolds` | `FilterSpec => [](FilterTypeOK /\ RowsMatchFilter)`, any stored keys, tenants, prefixes and ids |
| `SeriesHolds` | `SeriesSpec => [](SeriesTypeOK /\ SeriesNeverOvercounts)`, any ranges, buckets and restarts |
| `RatesAddUpHolds` | `SamplerSpec => [](SamplerTypeOK /\ RatesAddUp)`, any readers, prefixes and window |
| `ExplorerTypeCorrect`, `NothingCountedTwiceHolds` | `ExplorerSpec => []ExplorerTypeOK`, `[]NothingCountedTwice` |
| **`Dashboard_proofs`** | any TTLs, capacities, subscriptions and databases |
| `ExtendLengthensHolds` | `DrawerSpec => ExtendLengthens` |
| `BadgeTracksHolds` | `StatusSpec => []BadgeTracks` |
| `FeedFaithfulHolds` | `LifeSpec => []FeedFaithful` |
| `MessagesArriveHolds` | `FeedSpec => [](FeedTypeOK /\ MessagesArrive)` |
| `DashboardTypeCorrect`, `InspectionsTrueHolds`, `FeedsFaithfulHolds` | `DashboardSpec => []DashboardTypeOK`, `[]InspectionsTrue`, `[]FeedsFaithful` |

So every invariant and every action property that a passing run checks is a
theorem, and so is the safety part of both refinements. `DataLemmas` has what they
share: ordered finite sets of numbers, tails and concatenations of sequences, sums.

The specifications of `MCCatalog`, `MCExplorer`, `MCDashboard` and `MCRequests` are
proved about too. A step of one of them is, for every part, a step of that part or
a stutter (`PartsStep`), so the conjunction of the parts' invariants (`CatalogInv`,
`ExplorerInv`, `DashboardInv`) is invariant with nothing more to show.

### The stampede lab

**Bounded wait.** The bound is not inductive: it says nothing of how far along a
contender is. `WaitInv` adds that a pending step is at most `Slack` late and that
`left - timer`, the part of the window that remains when the step is due, exceeds
`-Late(pc)`, where `Late` adds the delays a contender can have met since it
passed the deadline check. Each step moves to a later `Late` by at most `Slack`.

**Single flight.** `FlightInv` ties the lock to the clock. A contender that is
storing still owns its lock, with time to spare for what it has left to do (the
lock lapses after its release). A loser or a late acquirer that finds the lock
free finds the value there too, once somebody has fetched. Nobody whose wait
window is over can still miss the value. From these, two contenders in `Fetched`
are one. `FlightFits` is what keeps the holder's remaining time positive: four
delays, one each for the holder's three round trips and one for a contender that
started its clock earlier.

**One flight.** The refinement maps a contender to a phase of `CollapsedFlight`.
`ResultInv`, a contender has a result exactly when it is done, makes the cases of
that map exclude one another. Then each action is taken to the abstract step it is,
or shown to leave the mapped state alone; that a fetcher is the only one is
`FlightInv`.

### Pub/Sub

**Bridge.** `addSubscription` and `removeSubscription` decide before an
await and act after it, so the invariant says of what a request knew when it began
to wait that it still holds, on a channel where callers take turns: `Opening` (there
is still no entry), `Holding` (the entry in hand is still the stored one, or a shutdown
has cleared it). That rests on `OneAtATime`, one request under way on such a channel.
`Served` then says that until a shutdown an entry has its listener, and a count unless
it is being taken down; with `NoOrphanListener`, and with `StrayNamed` to keep strays
off the channels in question, that gives `CountsAgree`. `Closable`: of the listeners a
shutdown found, those still there are those it waits for and those whose call
rejected. When it waits for nothing more this is `ShutdownStops`.
`Places` (the listeners opened and the requests that may open one are no more than
`MaxOpened`) is needed only for the bound. Without turns `CountsAgree` fails, as the
runs that expect a violation show.

**Counted once.** `MirrorInv` says of each channel in `Orderly` that the library
serves its entry and no other, and that the entry's count is zero only while the
caller that took it there waits for the library; once a shutdown has begun, what it
found is due, and what was added is lost when the Map is cleared. A step changes one such
channel (`OneMoves`) or none (`NoneMoves`), but for the two ends of the shutdown. Nothing
is claimed of channels whose library calls reject after their effect, or whose callers
overlap: the abstract owner knows neither, and the runs show what happens there.

**Rows.** Whether a message arrived is a matter of counting the copies that are
under way, queued in the hook and shown. `Counted` says that of a message there are
never more than subscriptions it was handed to, and exactly as many if nothing was
lost; `Queue` and `RowsInOrder` keep what is under way in `Turn`, behind all rows.

### What a tab shows

**Listing.** `Loading` is what a fetch can be while it is of a kind. `Freshness`
extends the property from settled data to data on its way: what a fetch has got so
far was read after the newest acknowledged change, since an acknowledgement cancels
and restarts it; the exceptions are `waived`.

**Drawer.** `Readings` says what a tab can know: every inspection, wherever it is
kept, is of a revision that was, and its TTL bounds the TTL of that revision since.
`Settled` is freshness for the shared inspection and the one on its way.
`ExtendLengthens` follows from `Readings` of the
inspection the click was made on.

**Ring.** `Counting` is the property with `due`, the second that passed in Redis and
not in the ring; `Travelling` says the same of an answer on its way.

**Badge.** `StatusInv` is about `Stream`, the pending events behind the ring: unless
the newest one is lost, the last lifecycle event in it is the connection's state. So
it stays true when a frame moves events to the ring, and when the ring drops old ones.
Of the poll it says that an answer "ready", under way or shown, which was asked for
since the connection last changed, is of a ready connection.

**TTL Live.** The ring's facts are about `Rows`, what is shown and what is pending,
in one sequence: a flush moves its boundary and trims its old end. `FeedInv` is the
order of identities in it. `FadeInv` has it that only expired keys are reported and that
a handled key is one that was toasted once, so that a later row of the key finds
it handled. `PillInv` relates the number of expiries at the last commit (`seen`, what
the page counts with) to the identities committed then (`latest`): as long as the
ring has dropped nothing, `seen` of the listed expiries are old, and later fewer,
since rows leave at the old end. So the pill never counts more than what arrived.

**Expiry feed.** `Faithful` is a map from the notifications of own keys, forwarded
or under way, to the expiries owed: increasing, and onto when nothing was lost.
`Stages` is which states of the subscriber go with which stage of the process.

**Filters.** The rows that are cached for a query were those of its own pattern
among the keys at the time (`Answers`); that this pattern is the one the page
announces, or a narrower one, is a fact about patterns (`SamePattern`,
`NarrowerPattern`).

**Labs and Playground.** `PlayInv` says how the click counter, the newest outcome and
the operation under way of a card stand to one another (`OneAtATime`), that a
list of tags read is that of its set until the set changes (`ListingsTrue`) and that
no number told to two cards is the same (`TicketsDiffer`). `SerializerInv` is `JobOK`
per request: what is stored is what this request wrote, unless somebody has touched its
key. `ErrorInv`: the newest trigger is of the selected code. `BurstInv`: a burst
under way is the one the button announced.

### Requests on shared keys

**Catalog.** `IInv` adds to `TypeOK` what a handler knows at each control point
(`Local`): a lookup's slots carry their own ids, an empty slot was not an entry
that has stood since the request began, what is about to be written back was not
either, a prepared seed carries its id. `Made` adds that a key with a creator is
present. A step of one caller is a `Bystander` step for every other: it leaves
the other's handler alone, and what it removes or replaces leaves the other's
`steady` set. `BystandersKeep` carries `Local` through all of them at once, so
each action is looked at for its own caller only. `Meters` counts the misses that
are still owed to the origin as pairs of a caller and an id, so that an answer of
the origin settles one caller's share at once.

**Keyspace.** What an answer claims is about keys that stood *throughout* a
request, so none of it is inductive without what the request has collected so
far. `Local(c)` has one part per kind of request: `OnPath` (the commands a request
can be at), `Standing` (what still stands is present), `Covered` (a scan that has
ended has returned what stood), `Paging` (a page with no more is all that stood,
a page with more is full), `Sweeping` (what stood and is not collected yet is
gone or still to be scanned), `Proving`, `Sampling` (the counts
and what is left to probe add up to the sample) and `Inspecting`. `BystanderKeeps` is the lemma that
makes any number of callers no harder than one: every part holds of fewer
standing keys if it holds of more, and that is all another's command can change.
One lemma per action then proves `Local` of the caller that acts; `SparesOthers`
follows from `Covered` and `Sweeping`: what a request removes, it has scanned in its
scope, and the scope of a clear is one tenant's keys.

### Numbers of the Overview

Sums over families are cardinalities (`Sums`: a family has one unit per item counted), so
that the prover can say what one more item or one bucket less does to them; a fold
would need induction.

**Rates.** `RateBounded` is the arithmetic of it: over a window of at least a second
the rounded rate is at most the number of operations counted, whatever the clock
says. So a snapshot moves what was in the window to the rates told, or less.

**Series.** The chart's total is bounded by the work since its baseline. That is
not inductive, because a tick may show a snapshot that is older than the work done
meanwhile. `SeriesInv` therefore says that every baseline is *backed* by a reading:
at the moment it was taken there had been work enough for all that is charted
(`HitsBacked`, `ReadsBacked`), and every answer still under way is a later
reading (`Cached`). `Follows`, the growth between two readings is no more than the
work between them, holds also over a restart, since a counter then falls. INFO
that failed counts as zero, which no reading backs: `blind`.

### Only model-checked

Liveness: `FlightSpec`'s and `CountedSpec`'s fairness parts, `OrphanLockLapses`,
`EveryBurstAnswered`, `EveryRequestAnswered`, `PagingEnds`, `PendingIsFlushed` and
`ExpiryFadesTileInTime`. Temporal proofs under fairness need `ENABLED`, which the
prover does not handle. The five violations are TLC's counterexamples.

## 5. What is abstracted or left out

Abstracted:

- Key and value strings, formatting, JSON and MessagePack bytes, colours, layout.
  A channel, a key and a product are model values or records of what is looked at;
  a codec is what it does to a Date.
- The library's own retries and reconnects: a command takes effect or not and
  answers or rejects. In cluster mode, scan, flush and the TTL feed are off; the
  modules describe the other modes.
- SCAN is its documented promise: a key there throughout is returned, a key never
  there is not, and a batch can be of any size or empty.
- Server and browser deliver in order on one connection, and lose what is under
  way when it is cut. Handing a decoded message to socket.io does not throw: its
  payload came out of JSON, and a socket that is gone is skipped.
- A key holds a string or something else (`StringKey`): an inspection reads the first
  with a raw GET, and not the second, as hashes and sets are read by their type alone.

Not modelled:

- *INFO parsing, latency percentiles, memory and the key count of the Overview:*
  values copied from Redis to a tile, or pure functions of a text.
- *Request schemas* but that of the stampede lab, *the error filter's status table*,
  *CORS, logging, the library probe of start-up:* tables and pure checks.
- *Reads that are one command and keep nothing* (`getTtl`, health details, member
  lists beyond the counts), and the hit counter of a tenant page, a local display.
- *Malformed socket payloads:* the hook ignores what it cannot read.
- *Charts, layout, UI kit, API clients, formatting:* rendering of state that is
  modelled elsewhere.
- *`scripts/audit-library-exports.mjs`:* a build-time comparison of two lists.
- *The library, Redis, TanStack Query, React, Nest and ioredis* are external: the
  modules say what the code relies on, where it relies on it.

## 6. Plan

All parts whose behaviour depends on order are modelled and checked, and all safety
properties are proved. What is left is the stampede lab beside a catalog that reads
and writes the same product key: today these are `Meddle`, one foreign write or
removal at a time.
