------------------------------ MODULE ApiLifecycle ------------------------------
(***************************************************************************)
(* The API from its environment to its shutdown, and the expiry feed that    *)
(* lives between the two: the environment is validated, the cache options    *)
(* are built for one topology, the modules initialise, the server listens,   *)
(* and a signal runs the destroy hooks.  TtlEventsService owns a subscriber   *)
(* connection of its own for Redis' expiry channel.  Nest, ioredis and the   *)
(* library's module are external: hooks wait for the initialisation, and a   *)
(* subscriber that lost its connection subscribes again when it is back.     *)
(***************************************************************************)
EXTENDS Integers, Sequences, FiniteSets

CONSTANTS
  OwnKey,      \* keys in the app's namespace
  ForeignKey,  \* keys outside it
  Db,          \* databases of the Redis server
  MaxExpired,  \* bound: expiries
  MaxDrops     \* bound: losses of the subscriber's connection

ASSUME LifecycleAssumption ==
  /\ OwnKey \intersect ForeignKey = {} /\ MaxExpired \in Nat /\ MaxDrops \in Nat

VARIABLES
  env,        \* the environment, for good
  stage,      \* where the process is
  options,    \* the topology whose block the library was handed, NoBlock before
  sub,        \* the dedicated subscriber
  linked,     \* is its connection up?
  inFlight,   \* notifications on their way to it
  expiries,   \* how many keys have expired
  forwarded,  \* keys emitted to the tabs
  owed,       \* history: own keys that expired under a subscription
  drops,
  lossy       \* history: has a notification been lost, or its emission failed?

lifeVars == <<env, stage, options, sub, linked, inFlight, expiries, forwarded, owed, drops, lossy>>
feed == <<linked, inFlight, expiries, forwarded, owed, drops, lossy>>

-----------------------------------------------------------------------------
Topology == {"sentinel", "cluster"}
Mode == {"standalone"} \union Topology

\* valid: envSchema accepts it.  portless: the topologies with an entry, in their
\* address list or their NAT map, that has no numeric port.
Environment == [valid : BOOLEAN, mode : Mode, portless : SUBSET Topology, db : Db]

NoBlock == "none"
Starting   == {"validating", "building", "connecting", "initialising"}
Subscribed == {"subscribed", "attached", "quitting"}

LifeTypeOK ==
  /\ env \in Environment
  /\ stage \in Starting \union {"listening", "stopping", "stopped", "crashed"}
  /\ options \in Mode \union {NoBlock}
  /\ sub \in Subscribed \union {"none", "opened", "closed"}
  /\ linked \in BOOLEAN /\ lossy \in BOOLEAN
  /\ inFlight \in Seq(OwnKey \union ForeignKey)
  /\ expiries \in 0..MaxExpired /\ drops \in 0..MaxDrops
  /\ forwarded \in Seq(OwnKey \union ForeignKey) /\ owed \in Seq(OwnKey)

LifeInit ==
  /\ env \in Environment
  /\ stage = "validating" /\ options = NoBlock
  /\ sub = "none" /\ linked = TRUE /\ inFlight = <<>>
  /\ expiries = 0 /\ forwarded = <<>> /\ owed = <<>> /\ drops = 0 /\ lossy = FALSE

-----------------------------------------------------------------------------
(* Start *)

ValidateEnv ==
  /\ stage = "validating"
  /\ stage' = IF env.valid THEN "building" ELSE "crashed"
  /\ UNCHANGED <<env, options, sub, feed>>

\* Mutant: every topology's lists are parsed.
BugParsesAll == env.portless = {}

\* parseAddressList and parseNatMap throw on an entry without a port; only the
\* lists of the mode's own block are parsed.
Parses == env.mode \notin env.portless

BuildCacheOptions ==
  /\ stage = "building"
  /\ IF Parses THEN stage' = "connecting" /\ options' = env.mode
               ELSE stage' = "crashed"    /\ UNCHANGED options
  /\ UNCHANGED <<env, sub, feed>>

\* The library's connections.
ConnectLibrary ==
  /\ stage = "connecting"
  /\ stage' \in {"initialising", "crashed"}
  /\ UNCHANGED <<env, options, sub, feed>>

\* onModuleInit; no expiry channel covers a cluster.
OpenSubscriber ==
  /\ stage = "initialising" /\ sub = "none" /\ env.mode # "cluster"
  /\ sub' = "opened"
  /\ UNCHANGED <<env, stage, options, feed>>

\* Redis has the subscription, and publishes to it, before the await resumes.
SubscribeAck ==
  /\ sub = "opened" /\ sub' = "subscribed"
  /\ UNCHANGED <<env, stage, options, feed>>

\* The await rejects, and with it the start.
SubscribeFails ==
  /\ sub = "opened" /\ stage' = "crashed" /\ sub' = "closed"
  /\ UNCHANGED <<env, options, feed>>

AttachListener ==
  /\ sub = "subscribed" /\ sub' = "attached"
  /\ UNCHANGED <<env, stage, options, feed>>

\* app.listen, once every onModuleInit has returned; the port may be taken.
Listen ==
  /\ stage = "initialising" /\ (env.mode = "cluster" \/ sub = "attached")
  /\ stage' \in {"listening", "crashed"}
  /\ sub' = IF stage' = "crashed" THEN "closed" ELSE sub
  /\ UNCHANGED <<env, options, feed>>

-----------------------------------------------------------------------------
(* The feed *)

\* A key of database d lapses: Redis notifies the subscribers of d, once, and
\* forgets the notification when the connection is down.
Expire(key, d) ==
  LET heard == sub \in Subscribed /\ d = env.db IN
  /\ expiries < MaxExpired /\ expiries' = expiries + 1
  /\ inFlight' = IF heard /\ linked THEN Append(inFlight, key) ELSE inFlight
  /\ owed' = IF heard /\ key \in OwnKey THEN Append(owed, key) ELSE owed
  /\ lossy' = (lossy \/ (heard /\ ~linked))
  /\ UNCHANGED <<env, stage, options, sub, linked, forwarded, drops>>

\* Mutant: every key passes.
BugNoFilter(key) == TRUE

\* The namespace filter.
IsOwn(key) == key \in OwnKey

\* A notification before there is a listener is dropped; one whose emission throws
\* is logged; the listener stays until QUIT is answered.
Deliver ==
  LET key == Head(inFlight) IN
  /\ sub \in Subscribed /\ linked /\ inFlight # <<>>
  /\ inFlight' = Tail(inFlight)
  /\ \/ sub = "subscribed" /\ lossy' = TRUE /\ UNCHANGED forwarded
     \/ sub # "subscribed" /\ ~IsOwn(key) /\ UNCHANGED <<forwarded, lossy>>
     \/ sub # "subscribed" /\ IsOwn(key) /\ forwarded' = Append(forwarded, key) /\ UNCHANGED lossy
     \/ sub # "subscribed" /\ IsOwn(key) /\ lossy' = TRUE /\ UNCHANGED forwarded
  /\ UNCHANGED <<env, stage, options, sub, linked, expiries, owed, drops>>

DropLink ==
  /\ linked /\ sub \in Subscribed /\ drops < MaxDrops
  /\ linked' = FALSE /\ drops' = drops + 1
  /\ inFlight' = <<>> /\ lossy' = (lossy \/ inFlight # <<>>)
  /\ UNCHANGED <<env, stage, options, sub, expiries, forwarded, owed>>

Relink ==
  /\ ~linked /\ linked' = TRUE
  /\ UNCHANGED <<env, stage, options, sub, inFlight, expiries, forwarded, owed, drops, lossy>>

-----------------------------------------------------------------------------
(* Shutdown *)

\* SIGTERM or SIGINT, then onModuleDestroy: the field is cleared, the client quits.
Signal ==
  /\ stage = "listening"
  /\ IF sub = "none" THEN stage' = "stopped"  /\ UNCHANGED sub
                     ELSE stage' = "stopping" /\ sub' = "quitting"
  /\ UNCHANGED <<env, options, feed>>

\* QUIT is answered behind the notifications sent before it; without a connection
\* it rejects, which is caught.  The process ends either way.
QuitSettles ==
  /\ sub = "quitting" /\ (linked => inFlight = <<>>)
  /\ sub' = "closed" /\ stage' = "stopped"
  /\ UNCHANGED <<env, options, feed>>

LifeNext ==
  \/ ValidateEnv \/ BuildCacheOptions \/ ConnectLibrary
  \/ OpenSubscriber \/ SubscribeAck \/ SubscribeFails \/ AttachListener \/ Listen
  \/ \E key \in OwnKey \union ForeignKey, d \in Db : Expire(key, d)
  \/ Deliver \/ DropLink \/ Relink
  \/ Signal \/ QuitSettles

LifeSpec == LifeInit /\ [][LifeNext]_lifeVars

-----------------------------------------------------------------------------
\* What the API has told the tabs, and what is on its way to it.
Sent    == forwarded \o inFlight
OwnSent == {i \in DOMAIN Sent : Sent[i] \in OwnKey}

\* Place i of Sent shows expiry at[i]: each own expiry at most once, in their order.
Shows(at) ==
  /\ \A i \in OwnSent : owed[at[i]] = Sent[i]
  /\ \A i, j \in OwnSent : i < j => at[i] < at[j]

\* The API listens with the block of its mode, and with a subscriber exactly where one
\* can cover the keys; it crashes in building only for a list of its own mode, and
\* leaves no connection.
LifeInOrder ==
  /\ stage = "listening" => options = env.mode /\ (sub = "attached" <=> env.mode # "cluster")
  /\ stage = "crashed" /\ options = NoBlock => ~env.valid \/ env.mode \in env.portless
  /\ stage \in {"stopped", "crashed"} => sub \in {"none", "closed"}

\* ttl-events.service.ts, cache.config.ts: through start, lost connections and
\* shutdown the tabs are told of own keys only, each once, in the order of their
\* expiry; nothing is missing unless a connection was down, an emission threw, or a
\* notification came before the listener was attached; and the stages are in order.
FeedFaithful ==
  /\ \A i \in DOMAIN forwarded : forwarded[i] \in OwnKey
  /\ \E at \in [OwnSent -> DOMAIN owed] :
       /\ Shows(at)
       /\ ~lossy => \A n \in DOMAIN owed : \E i \in OwnSent : at[i] = n
  /\ LifeInOrder
=============================================================================
