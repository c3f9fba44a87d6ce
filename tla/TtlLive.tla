------------------------------- MODULE TtlLive -------------------------------
(***************************************************************************)
(* The TTL Live page from end to end.  A click seeds a key with a TTL (and  *)
(* maybe persists it) through the API and adds a countdown tile.  Redis      *)
(* expires the key; its keyspace notification travels at most once through   *)
(* TtlEventsService, the gateway and the socket into the page's buffer; the  *)
(* page's effects then fade the tile and count the event in the feed.        *)
(***************************************************************************)
EXTENDS CacheSocket, FiniteSets, Functions

CONSTANTS
  Key,        \* the ttl-demo keys a session seeds; each gets a fresh UUID
  NoKey,
  MaxEvents   \* bound: socket events received

ASSUME TtlLiveAssumption ==
  /\ NoKey \notin Key
  /\ MaxEvents \in Nat

VARIABLES
  redis,     \* state of each key in Redis
  stage,     \* where the page's one seed mutation stands
  subject,   \* the key it is about
  persist,   \* is it "Seed persisted"?
  tiles,     \* the tile of each key
  tileKeys,  \* tileKeysRef, as of the last committed render
  handled,   \* handledRef: keys whose expiry has been acted upon
  toasts,    \* "Key expired" toasts per key
  dirty,     \* is a render scheduled?
  seen,      \* number of expiries at the last commit; the dependency of both
             \* effects (handledRef's effect and EventFeed's prevLengthRef)
  pinned,    \* EventFeed is scrolled to the top
  newCount,  \* the "N new" pill
  missed,    \* history: events committed since the reader scrolled away
  latest     \* history: identities below this were committed before

redisVars == <<redis, stage, subject, persist>>
tileVars  == <<tiles, tileKeys, handled, toasts>>
feedVars  == <<pinned, newCount, missed, latest>>
ttlVars == <<socketVars, redisVars, tileVars, feedVars, dirty, seen>>

-----------------------------------------------------------------------------
Event == [kind : {"event", "expired"}, key : Key \union {NoKey}, seq : 0..MaxEvents-1]

TtlTypeOK ==
  /\ {enabled, raf, frame, persist, dirty, pinned} \subseteq BOOLEAN
  /\ pending \in Seq(Event) /\ buffer \in Seq(Event)
  /\ Len(buffer) <= Capacity
  /\ seq \in 0..MaxEvents
  /\ redis \in [Key -> {"absent", "ttl", "persisted", "expired"}]
  /\ stage \in {"idle", "seed", "reply", "persist", "ack"}
  /\ subject \in Key \union {NoKey}
  /\ stage # "idle" => subject \in Key
  /\ tiles \in [Key -> {"none", "shown", "fading", "gone"}]
  /\ tileKeys \subseteq Key /\ handled \subseteq Key
  /\ toasts \in [Key -> Nat]
  /\ {seen, newCount, missed} \subseteq Nat
  /\ latest \in 0..MaxEvents

TtlInit ==
  /\ SocketInit
  /\ redis = [k \in Key |-> "absent"]
  /\ stage = "idle" /\ subject = NoKey /\ persist = FALSE
  /\ tiles = [k \in Key |-> "none"]
  /\ tileKeys = {} /\ handled = {}
  /\ toasts = [k \in Key |-> 0]
  /\ dirty = FALSE /\ seen = 0
  /\ pinned = TRUE /\ newCount = 0 /\ missed = 0 /\ latest = 0

\* The rows of the buffer that report an expiry, and how long their list is.
Expiries == {i \in 1..Len(buffer) : buffer[i].kind = "expired"}
Listed == Cardinality(Expiries)

-----------------------------------------------------------------------------
(* Seeding *)

SettleSeed == stage' = "idle" /\ subject' = NoKey /\ persist' = FALSE

\* A click on either seed button; both are disabled while a mutation runs.
ClickSeed(k, p) ==
  /\ stage = "idle" /\ redis[k] = "absent"
  /\ stage' = "seed" /\ subject' = k /\ persist' = p
  /\ UNCHANGED <<socketVars, redis, tileVars, feedVars, dirty, seen>>

\* POST /ttl/seed: TtlEventsService.seed sets the key with its TTL.
Seed ==
  /\ stage = "seed"
  /\ redis' = [redis EXCEPT ![subject] = "ttl"]
  /\ stage' = "reply"
  /\ UNCHANGED <<socketVars, subject, persist, tileVars, feedVars, dirty, seen>>

AddTile(k) ==
  /\ tiles' = [tiles EXCEPT ![k] = IF @ = "none" THEN "shown" ELSE @]
  /\ dirty' = TRUE
  /\ UNCHANGED <<tileKeys, handled, toasts>>

\* The seed is answered: a tile, or on to the persist request.
SeedReply ==
  /\ stage = "reply"
  /\ \/ /\ ~persist
        /\ AddTile(subject)
        /\ SettleSeed
     \/ /\ persist
        /\ stage' = "persist"
        /\ UNCHANGED <<subject, persist, tileVars, dirty>>
  /\ UNCHANGED <<socketVars, redis, feedVars, seen>>

\* AdminService.persistKey: answers -1, whether the key was still there or not.
Persist ==
  /\ stage = "persist"
  /\ redis' = [redis EXCEPT ![subject] = IF @ = "ttl" THEN "persisted" ELSE @]
  /\ stage' = "ack"
  /\ UNCHANGED <<socketVars, subject, persist, tileVars, feedVars, dirty, seen>>

PersistReply ==
  /\ stage = "ack"
  /\ AddTile(subject)
  /\ SettleSeed
  /\ UNCHANGED <<socketVars, redis, feedVars, seen>>

\* A request of the mutation fails, before or after its effect on Redis.
Fail ==
  /\ stage # "idle"
  /\ SettleSeed
  /\ \/ stage = "seed" /\ redis' = [redis EXCEPT ![subject] = "ttl"]
     \/ stage = "persist" /\ redis' = [redis EXCEPT ![subject] = IF @ = "ttl" THEN "persisted" ELSE @]
     \/ UNCHANGED redis
  /\ UNCHANGED <<socketVars, tileVars, feedVars, dirty, seen>>

-----------------------------------------------------------------------------
(* Events *)

\* Redis expires the key.  The notification reaches the page once, or not at
\* all: Live is off, the API's subscriber or the socket is down.
Expire(k) ==
  /\ redis[k] = "ttl"
  /\ redis' = [redis EXCEPT ![k] = "expired"]
  /\ \/ seq < MaxEvents /\ Receive("expired", k)
     \/ UNCHANGED socketVars
  /\ UNCHANGED <<stage, subject, persist, tileVars, feedVars, dirty, seen>>

\* A Pub/Sub or connection event shares the buffer.
OtherEvent ==
  /\ seq < MaxEvents
  /\ Receive("event", NoKey)
  /\ UNCHANGED <<redisVars, tileVars, feedVars, dirty, seen>>

Toggle ==
  /\ Enable \/ Disable
  /\ UNCHANGED <<redisVars, tileVars, feedVars, dirty, seen>>

\* Mutant: the version is not bumped, so nothing renders the new rows.
BugNoVersion ==
  /\ Flush
  /\ UNCHANGED <<redisVars, tileVars, feedVars, dirty, seen>>

\* flush() ends by bumping the version, which schedules a render.
Frame ==
  /\ Flush
  /\ dirty' = TRUE
  /\ UNCHANGED <<redisVars, tileVars, feedVars, seen>>

-----------------------------------------------------------------------------
(* Rendering *)

\* Mutant: every pass acts on every buffered expiry again.
BugForgetHandled(shown) == {k \in shown : \E i \in Expiries : buffer[i].key = k}

\* The tiles the expiry effect fades: rendered, and newly found expired.
DueFades(shown) == {k \in shown \ handled : \E i \in Expiries : buffer[i].key = k}

\* The expiry effect runs when the number of expiries has changed.
FadeEffect(shown) ==
  LET due == IF Listed # seen THEN DueFades(shown) ELSE {}
  IN  /\ handled' = handled \union due
      /\ toasts' = [k \in Key |-> IF k \in due THEN toasts[k] + 1 ELSE toasts[k]]
      /\ tiles' = [k \in Key |-> IF k \in due THEN "fading" ELSE tiles[k]]
      /\ dirty' = (due # {})

\* Mutant: the pill counts the whole buffer on every change.
BugCountAll ==
  newCount' = IF Listed <= seen THEN newCount
              ELSE IF pinned THEN 0 ELSE newCount + Listed

\* EventFeed registers the growth of its list as arrivals.
RegisterArrival ==
  newCount' = IF Listed <= seen THEN newCount
              ELSE IF pinned THEN 0 ELSE newCount + Listed - seen

\* A render is committed and its effects run.
Commit ==
  LET shown == {k \in Key : tiles[k] \in {"shown", "fading"}}
      fresh == {i \in Expiries : buffer[i].seq >= latest}
  IN  /\ dirty
      /\ tileKeys' = shown
      /\ FadeEffect(shown)
      /\ RegisterArrival
      /\ seen' = Listed
      /\ missed' = IF pinned THEN 0 ELSE missed + Cardinality(fresh)
      /\ latest' = IF buffer = <<>> THEN latest ELSE buffer[Len(buffer)].seq + 1
      /\ UNCHANGED <<socketVars, redisVars, pinned>>

\* The fade timer of a tile removes it.
FadeEnd(k) ==
  /\ tiles[k] = "fading"
  /\ tiles' = [tiles EXCEPT ![k] = "gone"]
  /\ dirty' = TRUE
  /\ UNCHANGED <<socketVars, redisVars, tileKeys, handled, toasts, feedVars, seen>>

\* The reader scrolls into the history, or back to the top (jumpToLatest too).
Scroll ==
  /\ pinned' = ~pinned
  /\ newCount' = IF pinned' THEN 0 ELSE newCount
  /\ missed' = 0
  /\ UNCHANGED <<socketVars, redisVars, tileVars, latest, dirty, seen>>

-----------------------------------------------------------------------------
Requests == Seed \/ SeedReply \/ Persist \/ PersistReply \/ Fail

TtlNext ==
  \/ \E k \in Key, p \in BOOLEAN : ClickSeed(k, p)
  \/ Requests
  \/ \E k \in Key : Expire(k) \/ FadeEnd(k)
  \/ OtherEvent \/ Toggle \/ Frame \/ Commit \/ Scroll

TtlSpec == TtlInit /\ [][TtlNext]_ttlVars

\* Requests settle, frames run, renders commit and timers fire.
TtlFairness ==
  /\ WF_ttlVars(Requests) /\ WF_ttlVars(Frame) /\ WF_ttlVars(Commit)
  /\ \A k \in Key : WF_ttlVars(FadeEnd(k))

TtlFairSpec == TtlSpec /\ TtlFairness

-----------------------------------------------------------------------------
(* Properties *)

\* use-cache-socket.ts:40: row keys stay unique and ordered, also when the Live
\* toggle cycles while older events are still buffered.
RowKeysIncrease ==
  LET all == buffer \o pending
  IN  \A i, j \in 1..Len(all) : i < j => all[i].seq < all[j].seq

\* use-cache-socket.ts: the feed is well-formed: its states are of their types, the
\* ring never exceeds its capacity, and its rows' keys increase, whatever the Live
\* toggle does while older events are still buffered.
FeedWellFormed == TtlTypeOK /\ RowKeysIncrease

\* RingBuffer: what the hook holds, pending or buffered, makes room only for
\* newer entries of a full ring; switching Live off loses what is pending.
DropsOldestFirst ==
  [][LET held  == Range(buffer) \union (IF enabled /\ ~enabled' THEN {} ELSE Range(pending))
         held2 == Range(buffer') \union Range(pending')
     IN  \A e \in held \ held2 :
           /\ Len(buffer') = Capacity
           /\ \A j \in 1..Capacity : buffer'[j].seq > e.seq]_ttlVars

\* use-cache-socket.ts: what a frame has to show is shown, or Live goes off.
PendingIsFlushed == pending # <<>> ~> pending = <<>>

\* TtlLiveView: a tile fades because Redis expired its key, never on a foreign
\* event, and is toasted exactly once however often the effect runs.
FadesOncePerExpiry ==
  \A k \in Key :
    /\ toasts[k] = IF tiles[k] \in {"fading", "gone"} THEN 1 ELSE 0
    /\ toasts[k] > 0 => redis[k] = "expired"

\* EventFeed and useFollowMode: the pill shows the events that arrived since
\* the reader scrolled away, and fewer only once the ring drops entries.
PillCountsArrivals ==
  /\ newCount <= missed
  /\ Len(buffer) < Capacity => newCount = missed

Found(k) == tiles[k] = "shown" /\ \E i \in 1..Len(buffer) :
              buffer[i].kind = "expired" /\ buffer[i].key = k

\* The tile was there before its key expired (a slow reply may come later).
Watched(k) == tiles[k] = "shown" /\ redis[k] = "ttl"

\* TtlLiveView.tsx:5-7, "When a key expires, the server's keyspace event fades
\* the matching tile": no watched tile stands for ever beside its expiry.
ExpiryFadesTile ==
  \A k \in Key : [](Watched(k) => ~<>[]Found(k))

\* While the ring is not full, an expiry the page has received does take it down.
ExpiryFadesTileInTime ==
  \A k \in Key : [](Watched(k) =>
    [](Found(k) => <>(tiles[k] # "shown" \/ Len(buffer) = Capacity)))
=============================================================================
