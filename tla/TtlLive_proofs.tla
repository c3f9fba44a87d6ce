---------------------------- MODULE TtlLive_proofs -----------------------------
(***************************************************************************)
(* Theorems about TtlLive, for every set of keys, every capacity of the     *)
(* ring and every number of socket events.                                  *)
(***************************************************************************)
EXTENDS TtlLive, DataLemmas

-----------------------------------------------------------------------------
(* The ring *)

\* trim() keeps the newest rows, in order, and gives up older ones for a full ring only.
LEMMA TrimKeeps ==
  ASSUME NEW S, NEW s \in Seq(S)
  PROVE  /\ Trim(s) \in Seq(S)
         /\ Len(Trim(s)) <= Capacity
         /\ \E d \in Nat : /\ Len(s) = Len(Trim(s)) + d
                           /\ d > 0 => Len(Trim(s)) = Capacity
                           /\ \A i \in 1..Len(Trim(s)) : Trim(s)[i] = s[i + d]
<1>1. Trim(s) = NewestPart(s, Capacity)
  BY DEF Trim, NewestPart
<1>2. Capacity \in Nat \ {0}
  BY CapacityAssumption
<1> DEFINE t == NewestPart(s, Capacity)
<1>3. /\ t \in Seq(S) /\ Len(t) <= Capacity
      /\ \E d \in Nat : /\ Len(s) = Len(t) + d
                        /\ d > 0 => Len(t) = Capacity
                        /\ \A i \in 1..Len(t) : t[i] = s[i + d]
  BY <1>2, NewestPartKept
<1> QED BY <1>1, <1>3

Rows == buffer \o pending

\* A frame moves the pending rows behind the buffered ones.
LEMMA FrameRows ==
  ASSUME TtlTypeOK, Flush
  PROVE  /\ buffer' \in Seq(Event) /\ Len(buffer') <= Capacity /\ pending' = <<>>
         /\ \E d \in Nat : /\ Len(buffer) + Len(pending) = Len(buffer') + d
                           /\ d > 0 => Len(buffer') = Capacity
                           /\ \A i \in 1..Len(buffer') : buffer'[i] = Rows[i + d]
<1>1. Rows \in Seq(Event) /\ Len(Rows) = Len(buffer) + Len(pending)
  BY DEF TtlTypeOK, Rows
<1>2. buffer' = Trim(Rows) /\ pending' = <<>>
  BY DEF Flush, Rows
<1> HIDE DEF Rows
<1>3. PICK d \in Nat :
        /\ Len(Rows) = Len(Trim(Rows)) + d
        /\ d > 0 => Len(Trim(Rows)) = Capacity
        /\ \A i \in 1..Len(Trim(Rows)) : Trim(Rows)[i] = Rows[i + d]
  BY <1>1, TrimKeeps
<1>4. Trim(Rows) \in Seq(Event) /\ Len(Trim(Rows)) <= Capacity
  BY <1>1, TrimKeeps
<1>5. /\ Len(buffer) + Len(pending) = Len(buffer') + d
      /\ d > 0 => Len(buffer') = Capacity
      /\ \A i \in 1..Len(buffer') : buffer'[i] = Rows[i + d]
  <2>1. Len(buffer) + Len(pending) = Len(buffer') + d
    BY <1>1, <1>2, <1>3
  <2>2. d > 0 => Len(buffer') = Capacity
    BY <1>2, <1>3
  <2>3. \A i \in 1..Len(buffer') : buffer'[i] = Rows[i + d]
    BY <1>2, <1>3
  <2> QED BY <2>1, <2>2, <2>3
<1> QED BY <1>2, <1>4, <1>5

\* The rows of the feed, one by one.
LEMMA RowsAt ==
  ASSUME TtlTypeOK
  PROVE  /\ Rows \in Seq(Event) /\ Len(Rows) = Len(buffer) + Len(pending)
         /\ \A i \in 1..Len(buffer) : Rows[i] = buffer[i]
         /\ \A i \in 1..Len(pending) : Rows[Len(buffer) + i] = pending[i]
         /\ \A i \in 1..Len(Rows) : i <= Len(buffer) \/ (i - Len(buffer)) \in 1..Len(pending)
BY DEF TtlTypeOK, Rows

-----------------------------------------------------------------------------
(* Type correctness *)

\* A list of rows is as long as a number.
LEMMA ListedType ==
  ASSUME TtlTypeOK
  PROVE  /\ IsFiniteSet(Expiries) /\ Listed \in Nat
         /\ \A S \in SUBSET Expiries : IsFiniteSet(S) /\ Cardinality(S) \in Nat
<1>1. Len(buffer) \in Nat /\ Expiries \subseteq 1..Len(buffer)
  BY DEF TtlTypeOK, Expiries
<1>2. IsFiniteSet(Expiries)
  <2>1. IsFiniteSet(1..Len(buffer))
    BY <1>1, FS_Interval
  <2> QED BY <1>1, <2>1, FS_Subset
<1> QED BY <1>2, FS_Subset, FS_CardinalityType DEF Listed

\* An event of the socket enters the queue.
LEMMA ReceiveType ==
  ASSUME TtlTypeOK, seq < MaxEvents, NEW kind \in {"event", "expired"},
         NEW key \in Key \union {NoKey}, Receive(kind, key)
  PROVE  /\ pending' \in Seq(Event) /\ seq' \in 0..MaxEvents /\ UNCHANGED <<enabled, buffer>>
         /\ Len(pending') = Len(pending) + 1
         /\ pending'[Len(pending')] = [kind |-> kind, key |-> key, seq |-> seq]
         /\ \A i \in 1..Len(pending) : pending'[i] = pending[i]
         /\ frame' \in BOOLEAN /\ raf' \in BOOLEAN
<1> DEFINE e == [kind |-> kind, key |-> key, seq |-> seq]
<1>1. e \in Event /\ seq \in Nat /\ seq + 1 \in 0..MaxEvents
  BY TtlLiveAssumption DEF TtlTypeOK, Event
<1>2. pending' = Append(pending, e) /\ seq' = seq + 1 /\ UNCHANGED <<enabled, buffer>>
  BY DEF Receive
<1>3. pending \in Seq(Event)
  BY DEF TtlTypeOK
<1> HIDE DEF e
<1>4. /\ pending' \in Seq(Event) /\ Len(pending') = Len(pending) + 1
      /\ pending'[Len(pending')] = e
      /\ \A i \in 1..Len(pending) : pending'[i] = pending[i]
  BY <1>1, <1>2, <1>3
<1>5. frame' \in BOOLEAN /\ raf' \in BOOLEAN
  BY Zenon DEF Receive
<1> QED BY <1>1, <1>2, <1>4, <1>5 DEF e

FeedTypes ==
  /\ {enabled, raf, frame} \subseteq BOOLEAN
  /\ pending \in Seq(Event) /\ buffer \in Seq(Event)
  /\ Len(buffer) <= Capacity
  /\ seq \in 0..MaxEvents

PageTypes ==
  /\ {persist, dirty, pinned} \subseteq BOOLEAN
  /\ redis \in [Key -> {"absent", "ttl", "persisted", "expired"}]
  /\ stage \in {"idle", "seed", "reply", "persist", "ack"}
  /\ subject \in Key \union {NoKey}
  /\ stage # "idle" => subject \in Key
  /\ tiles \in [Key -> {"none", "shown", "fading", "gone"}]
  /\ tileKeys \subseteq Key /\ handled \subseteq Key
  /\ toasts \in [Key -> Nat]
  /\ {seen, newCount, missed} \subseteq Nat
  /\ latest \in 0..MaxEvents

LEMMA TypesSplit == TtlTypeOK <=> FeedTypes /\ PageTypes
BY DEF TtlTypeOK, FeedTypes, PageTypes

\* The hook's own steps.
LEMMA FeedTypesStep ==
  ASSUME TtlTypeOK, [TtlNext]_ttlVars
  PROVE  FeedTypes'
<1> USE DEF TtlTypeOK
<1>1. CASE UNCHANGED socketVars
  BY <1>1 DEF socketVars, FeedTypes
<1>2. ASSUME NEW kind \in {"event", "expired"}, NEW key \in Key \union {NoKey},
             seq < MaxEvents, Receive(kind, key)
      PROVE  FeedTypes'
  BY <1>2, ReceiveType DEF FeedTypes
<1>3. CASE Enable
  <2>1. enabled' = TRUE /\ raf' = FALSE /\ UNCHANGED <<frame, buffer, seq>> /\ pending' = <<>>
    BY <1>3 DEF Enable, Connect
  <2>2. {enabled', raf', frame'} \subseteq BOOLEAN
    BY <2>1
  <2> QED BY <2>1, <2>2 DEF FeedTypes
<1>4. CASE Disable
  <2>1. frame' \in BOOLEAN /\ enabled' \in BOOLEAN /\ raf' \in BOOLEAN
    BY <1>4, Zenon DEF Disable
  <2>2. pending' = <<>> /\ UNCHANGED <<buffer, seq>>
    BY <1>4 DEF Disable
  <2> QED BY <2>1, <2>2 DEF FeedTypes
<1>5. CASE Flush
  <2>1. raf' = FALSE /\ frame' = FALSE /\ UNCHANGED <<enabled, seq>>
    BY <1>5 DEF Flush
  <2>2. {enabled', raf', frame'} \subseteq BOOLEAN
    BY <2>1
  <2>3. pending' = <<>> /\ buffer' \in Seq(Event) /\ Len(buffer') <= Capacity
    BY <1>5, FrameRows
  <2> QED BY <2>1, <2>2, <2>3 DEF FeedTypes
<1>6. ASSUME NEW k \in Key, Expire(k) PROVE FeedTypes'
  BY <1>1, <1>2, <1>6 DEF Expire
<1>7. CASE OtherEvent \/ Toggle \/ Frame
  BY <1>2, <1>3, <1>4, <1>5, <1>7 DEF OtherEvent, Toggle, Frame
<1>8. CASE Requests \/ Commit \/ Scroll \/ UNCHANGED ttlVars
  BY <1>1, <1>8 DEF Requests, Seed, SeedReply, Persist, PersistReply, Fail, Commit, Scroll, ttlVars
<1>9. ASSUME NEW k \in Key, FadeEnd(k) \/ \E p \in BOOLEAN : ClickSeed(k, p) PROVE FeedTypes'
  BY <1>1, <1>9 DEF FadeEnd, ClickSeed
<1> QED BY <1>6, <1>7, <1>8, <1>9 DEF TtlNext

\* The steps of the page and of Redis.
LEMMA PageTypesStep ==
  ASSUME TtlTypeOK, [TtlNext]_ttlVars
  PROVE  PageTypes'
<1> USE DEF TtlTypeOK, tileVars, feedVars, redisVars
<1>1. ASSUME NEW k \in Key, NEW p \in BOOLEAN, ClickSeed(k, p) PROVE PageTypes'
  BY <1>1 DEF ClickSeed, PageTypes
<1>2. CASE Seed \/ Persist
  BY <1>2 DEF Seed, Persist, PageTypes
<1>3. CASE SeedReply \/ PersistReply
  BY <1>3 DEF SeedReply, PersistReply, AddTile, SettleSeed, PageTypes
<1>4. CASE Fail
  BY <1>4 DEF Fail, SettleSeed, PageTypes
<1>5. ASSUME NEW k \in Key, Expire(k) \/ FadeEnd(k) PROVE PageTypes'
  BY <1>5 DEF Expire, FadeEnd, PageTypes
<1>6. CASE OtherEvent \/ Toggle \/ Frame
  BY <1>6 DEF OtherEvent, Toggle, Frame, PageTypes
<1>7. CASE Commit
  <2> DEFINE shown == {k \in Key : tiles[k] \in {"shown", "fading"}}
             due   == IF Listed # seen THEN DueFades(shown) ELSE {}
             fresh == {i \in Expiries : buffer[i].seq >= latest}
  <2>1. Listed \in Nat /\ Cardinality(fresh) \in Nat
    BY ListedType
  <2>2. due \subseteq Key
    BY DEF DueFades
  <2>3. /\ tileKeys' = shown /\ handled' = handled \union due
        /\ toasts' = [k \in Key |-> IF k \in due THEN toasts[k] + 1 ELSE toasts[k]]
        /\ tiles' = [k \in Key |-> IF k \in due THEN "fading" ELSE tiles[k]]
        /\ dirty' = (due # {})
        /\ seen' = Listed /\ missed' = IF pinned THEN 0 ELSE missed + Cardinality(fresh)
        /\ latest' = IF buffer = <<>> THEN latest ELSE buffer[Len(buffer)].seq + 1
        /\ UNCHANGED <<redis, stage, subject, persist, pinned>>
    BY <1>7 DEF Commit, FadeEffect
  <2> HIDE DEF due, fresh
  <2>4. {persist', dirty', pinned'} \subseteq BOOLEAN
    BY <2>3
  <2>5. tiles' \in [Key -> {"none", "shown", "fading", "gone"}] /\ toasts' \in [Key -> Nat]
    BY <2>3
  <2>6. tileKeys' \subseteq Key /\ handled' \subseteq Key
    BY <2>2, <2>3
  <2>7. {seen', newCount', missed'} \subseteq Nat
    <3>1. newCount' \in Nat
      BY <1>7, <2>1 DEF Commit, RegisterArrival
    <3> QED BY <2>1, <2>3, <3>1
  <2>8. latest' \in 0..MaxEvents
    <3>1. CASE buffer = <<>>
      BY <2>3, <3>1
    <3>2. CASE buffer # <<>>
      <4>1. buffer[Len(buffer)] \in Event
        BY <3>2
      <4> QED BY <2>3, <3>2, <4>1, TtlLiveAssumption DEF Event
    <3> QED BY <3>1, <3>2
  <2> QED BY <2>3, <2>4, <2>5, <2>6, <2>7, <2>8 DEF PageTypes
<1>8. CASE Scroll
  BY <1>8 DEF Scroll, PageTypes
<1>9. CASE UNCHANGED ttlVars
  BY <1>9 DEF ttlVars, PageTypes
<1> QED BY <1>1, <1>2, <1>3, <1>4, <1>5, <1>6, <1>7, <1>8, <1>9 DEF TtlNext, Requests
-----------------------------------------------------------------------------
(***************************************************************************)
(* The feed.  Its rows keep their order, none is younger than the next      *)
(* identity, and nothing is pending once Live is off.                       *)
(***************************************************************************)
FeedInv ==
  /\ RowKeysIncrease
  /\ \A i \in 1..Len(Rows) : Rows[i].seq < seq
  /\ ~enabled => pending = <<>>

\* An event takes the next identity, and the last place.
LEMMA ReceiveFeed ==
  ASSUME TtlTypeOK, FeedInv, seq < MaxEvents, NEW kind \in {"event", "expired"},
         NEW key \in Key \union {NoKey}, Receive(kind, key)
  PROVE  FeedInv'
<1>1. /\ pending' \in Seq(Event) /\ Len(pending') = Len(pending) + 1 /\ buffer' = buffer
      /\ pending'[Len(pending')].seq = seq
      /\ \A i \in 1..Len(pending) : pending'[i] = pending[i]
      /\ seq' = seq + 1 /\ seq \in Nat /\ enabled /\ enabled' = enabled
  BY ReceiveType DEF Receive, TtlTypeOK
<1>2. buffer \in Seq(Event) /\ pending \in Seq(Event)
  BY DEF TtlTypeOK
<1>3. /\ Len(Rows) = Len(buffer) + Len(pending) /\ Len(Rows') = Len(Rows) + 1
      /\ Len(Rows) \in Nat
      /\ \A i \in 1..Len(Rows) : Rows'[i] = Rows[i] /\ Rows[i] \in Event
      /\ Rows'[Len(Rows')] = pending'[Len(pending')]
  <2>1. Rows = buffer \o pending /\ Rows' = buffer \o pending'
    BY <1>1 DEF Rows
  <2>2. Len(Rows) = Len(buffer) + Len(pending) /\ Len(Rows) \in Nat /\ Rows \in Seq(Event)
    BY <1>2, <2>1
  <2>3. /\ Len(buffer \o pending') = Len(buffer \o pending) + 1
        /\ \A i \in 1..Len(buffer \o pending) : (buffer \o pending')[i] = (buffer \o pending)[i]
        /\ (buffer \o pending')[Len(buffer \o pending')] = pending'[Len(pending')]
    BY <1>1, <1>2, ConcatGrows
  <2> QED BY <1>2, <2>1, <2>2, <2>3
<1>4. \A i, j \in 1..Len(Rows) : i < j => Rows[i].seq < Rows[j].seq
  BY DEF FeedInv, RowKeysIncrease, Rows
<1>5. \A i \in 1..Len(Rows) : Rows[i].seq < seq /\ Rows[i].seq \in Nat
  BY <1>3, TtlLiveAssumption DEF FeedInv, Event
<1>6. ASSUME NEW i \in 1..Len(Rows'), NEW j \in 1..Len(Rows'), i < j
      PROVE  Rows'[i].seq < Rows'[j].seq
  <2>1. i \in 1..Len(Rows) /\ Rows'[i] = Rows[i]
    BY <1>3, <1>6
  <2>2. CASE j \in 1..Len(Rows)
    BY <1>3, <1>4, <1>6, <2>1, <2>2
  <2>3. CASE j = Len(Rows')
    BY <1>1, <1>3, <1>5, <2>1, <2>3
  <2> QED BY <1>3, <2>2, <2>3
<1>7. ASSUME NEW i \in 1..Len(Rows') PROVE Rows'[i].seq < seq'
  <2>1. CASE i \in 1..Len(Rows)
    BY <1>1, <1>3, <1>5, <2>1
  <2>2. CASE i = Len(Rows')
    BY <1>1, <1>3, <2>2
  <2> QED BY <1>3, <2>1, <2>2
<1> QED BY <1>1, <1>6, <1>7 DEF FeedInv, RowKeysIncrease, Rows

\* A frame shifts the rows that stay.
LEMMA FlushFeed ==
  ASSUME TtlTypeOK, FeedInv, Flush
  PROVE  FeedInv'
<1>1. /\ buffer' \in Seq(Event) /\ pending' = <<>> /\ UNCHANGED <<enabled, seq>>
  BY FrameRows DEF Flush
<1>2. PICK d \in Nat :
        /\ Len(buffer) + Len(pending) = Len(buffer') + d
        /\ \A i \in 1..Len(buffer') : buffer'[i] = Rows[i + d]
  BY FrameRows
<1>3. Rows' = buffer'
  BY <1>1 DEF Rows
<1>4. Len(Rows) = Len(Rows') + d /\ Len(Rows') \in Nat
  BY <1>1, <1>2, <1>3, RowsAt
<1>5. \A i \in 1..Len(Rows') : i + d \in 1..Len(Rows) /\ Rows'[i] = Rows[i + d]
  BY <1>2, <1>3, <1>4
<1>6. \A i, j \in 1..Len(Rows) : i < j => Rows[i].seq < Rows[j].seq
  BY DEF FeedInv, RowKeysIncrease, Rows
<1>7. ASSUME NEW i \in 1..Len(Rows'), NEW j \in 1..Len(Rows'), i < j
      PROVE  Rows'[i].seq < Rows'[j].seq
  <2>1. Rows'[i] = Rows[i + d] /\ Rows'[j] = Rows[j + d] /\ i + d < j + d
    BY <1>5, <1>7
  <2>2. Rows[i + d].seq < Rows[j + d].seq
    BY <1>5, <1>6, <2>1
  <2> QED BY <2>1, <2>2
<1>8. \A i \in 1..Len(Rows') : Rows'[i].seq < seq'
  BY <1>1, <1>5 DEF FeedInv
<1> QED BY <1>1, <1>7, <1>8 DEF FeedInv, RowKeysIncrease, Rows

\* Switching Live takes the pending rows away, and leaves the buffered ones.
LEMMA ToggleFeed ==
  ASSUME TtlTypeOK, FeedInv, pending' = <<>>, UNCHANGED <<buffer, seq>>
  PROVE  FeedInv'
<1>1. Rows' = buffer /\ Rows = buffer \o pending /\ buffer \in Seq(Event) /\ pending \in Seq(Event)
  BY DEF Rows, TtlTypeOK
<1>2. /\ Len(Rows) >= Len(Rows') /\ Len(Rows') \in Nat /\ Len(Rows) \in Nat
      /\ \A i \in 1..Len(Rows') : Rows'[i] = Rows[i]
  BY <1>1
<1>3. \A i, j \in 1..Len(Rows) : i < j => Rows[i].seq < Rows[j].seq
  BY DEF FeedInv, RowKeysIncrease, Rows
<1>4. \A i, j \in 1..Len(Rows') : i < j => Rows'[i].seq < Rows'[j].seq
  BY <1>2, <1>3
<1>5. \A i \in 1..Len(Rows') : Rows'[i].seq < seq'
  BY <1>2 DEF FeedInv
<1> QED BY <1>4, <1>5 DEF FeedInv, RowKeysIncrease, Rows

\* What a step does to the hook: nothing, an event, a toggle or a frame.
LEMMA SocketStep ==
  ASSUME [TtlNext]_ttlVars
  PROVE  \/ UNCHANGED socketVars
         \/ Enable \/ Disable \/ Flush
         \/ \E kind \in {"event", "expired"}, key \in Key \union {NoKey} :
              seq < MaxEvents /\ Receive(kind, key)
<1>1. ASSUME NEW k \in Key, Expire(k) \/ FadeEnd(k) \/ \E p \in BOOLEAN : ClickSeed(k, p)
      PROVE  \/ UNCHANGED socketVars
             \/ \E kind \in {"event", "expired"}, key \in Key \union {NoKey} :
                  seq < MaxEvents /\ Receive(kind, key)
  BY <1>1 DEF Expire, FadeEnd, ClickSeed
<1>2. CASE OtherEvent \/ Toggle \/ Frame
  BY <1>2 DEF OtherEvent, Toggle, Frame
<1>3. CASE Requests \/ Commit \/ Scroll \/ UNCHANGED ttlVars
  BY <1>3 DEF Requests, Seed, SeedReply, Persist, PersistReply, Fail, Commit, Scroll, ttlVars
<1> QED BY <1>1, <1>2, <1>3 DEF TtlNext

LEMMA FeedStep ==
  ASSUME TtlTypeOK, FeedInv, [TtlNext]_ttlVars
  PROVE  FeedInv'
<1>1. CASE UNCHANGED socketVars
  BY <1>1 DEF socketVars, FeedInv, RowKeysIncrease, Rows
<1>2. CASE Enable \/ Disable
  BY <1>2, ToggleFeed DEF Enable, Connect, Disable
<1> QED BY <1>1, <1>2, FlushFeed, ReceiveFeed, SocketStep

-----------------------------------------------------------------------------
(***************************************************************************)
(* The tiles.  A tile fades once: when it does, its key joins handledRef    *)
(* for good.  An expiry that is on its way or listed is one Redis has seen, *)
(* and no key is seeded again: the seed of a click finds it absent.         *)
(***************************************************************************)
Reported(s) ==
  \A i \in 1..Len(s) : s[i].kind = "expired" =>
    s[i].key \in Key /\ redis[s[i].key] = "expired"

TilesInv ==
  /\ \A k \in Key : toasts[k] = IF tiles[k] \in {"fading", "gone"} THEN 1 ELSE 0
  /\ \A k \in Key : k \in handled <=> tiles[k] \in {"fading", "gone"}
  /\ \A k \in handled : redis[k] = "expired"

SeedInv == stage = "seed" => redis[subject] = "absent"

FadeInv == TilesInv /\ SeedInv /\ Reported(Rows)

\* No step brings an expired key back.
LEMMA ExpiredStays ==
  ASSUME TtlTypeOK, FadeInv, [TtlNext]_ttlVars
  PROVE  \A k \in Key : redis[k] = "expired" => redis'[k] = "expired"
<1> USE DEF TtlTypeOK, FadeInv, SeedInv
<1>1. ASSUME NEW k \in Key, Expire(k) \/ FadeEnd(k) \/ \E p \in BOOLEAN : ClickSeed(k, p)
      PROVE  \A c \in Key : redis[c] = "expired" => redis'[c] = "expired"
  BY <1>1 DEF Expire, FadeEnd, ClickSeed, redisVars
<1>2. CASE Requests
  BY <1>2 DEF Requests, Seed, SeedReply, Persist, PersistReply, Fail
<1>3. CASE OtherEvent \/ Toggle \/ Frame \/ Commit \/ Scroll \/ UNCHANGED ttlVars
  BY <1>3 DEF OtherEvent, Toggle, Frame, Commit, Scroll, ttlVars, redisVars
<1> QED BY <1>1, <1>2, <1>3 DEF TtlNext

\* The rows a step leaves report what Redis has seen.
LEMMA ReportedStep ==
  ASSUME TtlTypeOK, FadeInv, [TtlNext]_ttlVars
  PROVE  Reported(Rows)'
<1>0. /\ \A k \in Key : redis[k] = "expired" => redis'[k] = "expired"
      /\ Reported(Rows)
  BY ExpiredStays DEF FadeInv
<1>1. CASE UNCHANGED socketVars
  BY <1>0, <1>1 DEF socketVars, Reported, Rows
<1>2. CASE Enable \/ Disable
  <2>1. Rows' = buffer /\ Rows = buffer \o pending /\ buffer \in Seq(Event) /\ pending \in Seq(Event)
    BY <1>2 DEF Enable, Connect, Disable, Rows, TtlTypeOK
  <2>2. /\ Len(Rows) >= Len(Rows') /\ Len(Rows') \in Nat /\ Len(Rows) \in Nat
        /\ \A i \in 1..Len(Rows') : Rows'[i] = Rows[i]
    BY <2>1
  <2> QED BY <1>0, <2>2 DEF Reported
<1>3. CASE Flush
  <2>1. buffer' \in Seq(Event) /\ Rows' = buffer'
    BY <1>3, FrameRows DEF Rows
  <2>2. PICK d \in Nat :
          /\ Len(buffer) + Len(pending) = Len(buffer') + d
          /\ \A i \in 1..Len(buffer') : buffer'[i] = Rows[i + d]
    BY <1>3, FrameRows
  <2>3. Len(Rows) = Len(Rows') + d /\ Len(Rows') \in Nat
    BY <2>1, <2>2, RowsAt
  <2>4. \A i \in 1..Len(Rows') : i + d \in 1..Len(Rows) /\ Rows'[i] = Rows[i + d]
    BY <2>1, <2>2, <2>3
  <2> QED BY <1>0, <2>4 DEF Reported
<1>4. ASSUME NEW kind \in {"event", "expired"}, NEW key \in Key \union {NoKey},
             seq < MaxEvents, Receive(kind, key),
             kind = "expired" => key \in Key /\ redis'[key] = "expired"
      PROVE  Reported(Rows)'
  <2>1. /\ pending' \in Seq(Event) /\ Len(pending') = Len(pending) + 1 /\ buffer' = buffer
        /\ pending'[Len(pending')] = [kind |-> kind, key |-> key, seq |-> seq]
        /\ \A i \in 1..Len(pending) : pending'[i] = pending[i]
        /\ buffer \in Seq(Event) /\ pending \in Seq(Event)
    BY <1>4, ReceiveType DEF TtlTypeOK
  <2>2. /\ Len(Rows') = Len(Rows) + 1 /\ Len(Rows) \in Nat
        /\ \A i \in 1..Len(Rows) : Rows'[i] = Rows[i]
        /\ Rows'[Len(Rows')] = pending'[Len(pending')]
    <3>1. Rows = buffer \o pending /\ Rows' = buffer \o pending'
      BY <2>1 DEF Rows
    <3>2. Len(Rows) \in Nat
      BY <2>1, <3>1
    <3>3. /\ Len(buffer \o pending') = Len(buffer \o pending) + 1
          /\ \A i \in 1..Len(buffer \o pending) : (buffer \o pending')[i] = (buffer \o pending)[i]
          /\ (buffer \o pending')[Len(buffer \o pending')] = pending'[Len(pending')]
      BY <2>1, ConcatGrows
    <3> QED BY <3>1, <3>2, <3>3, <2>1
  <2>3. Rows'[Len(Rows')].kind = kind /\ Rows'[Len(Rows')].key = key
    BY <2>1, <2>2
  <2> QED BY <1>0, <1>4, <2>2, <2>3 DEF Reported
<1>5. ASSUME NEW k \in Key, Expire(k) PROVE Reported(Rows)'
  BY <1>1, <1>4, <1>5 DEF Expire, TtlTypeOK
<1>6. CASE OtherEvent \/ Toggle \/ Frame
  BY <1>2, <1>3, <1>4, <1>6 DEF OtherEvent, Toggle, Frame
<1>7. CASE Requests \/ Commit \/ Scroll \/ UNCHANGED ttlVars
  BY <1>1, <1>7 DEF Requests, Seed, SeedReply, Persist, PersistReply, Fail, Commit, Scroll, ttlVars
<1>8. ASSUME NEW k \in Key, FadeEnd(k) \/ \E p \in BOOLEAN : ClickSeed(k, p) PROVE Reported(Rows)'
  BY <1>1, <1>8 DEF FadeEnd, ClickSeed
<1> QED BY <1>5, <1>6, <1>7, <1>8 DEF TtlNext
\* The effect fades a shown tile whose expiry is listed; the timer and the tiles
\* of new keys leave the others alone.
LEMMA FadeStep ==
  ASSUME TtlTypeOK, FadeInv, [TtlNext]_ttlVars
  PROVE  FadeInv'
<1>0. /\ Reported(Rows)' /\ TtlTypeOK /\ TilesInv /\ SeedInv
      /\ \A k \in Key : redis[k] = "expired" => redis'[k] = "expired"
  BY ReportedStep, ExpiredStays DEF FadeInv
<1>10. ASSUME UNCHANGED <<tiles, handled, toasts>> PROVE TilesInv'
  BY <1>0, <1>10 DEF TilesInv, TtlTypeOK
<1>11. ASSUME UNCHANGED <<redis, stage, subject>> PROVE SeedInv'
  BY <1>0, <1>11 DEF SeedInv
<1>1. ASSUME NEW k \in Key, NEW p \in BOOLEAN, ClickSeed(k, p) PROVE TilesInv' /\ SeedInv'
  BY <1>1, <1>10 DEF ClickSeed, SeedInv, tileVars
<1>2. CASE Seed \/ Persist \/ Fail
  <2>1. stage' # "seed"
    BY <1>2 DEF Seed, Persist, Fail, SettleSeed
  <2> QED BY <1>0, <1>2, <1>10, <2>1 DEF Seed, Persist, Fail, SeedInv, FadeInv, tileVars
<1>3. CASE SeedReply \/ PersistReply
  <2>1. stage' # "seed"
    BY <1>3 DEF SeedReply, PersistReply, SettleSeed
  <2>2. CASE UNCHANGED <<tiles, handled, toasts>>
    BY <1>0, <2>1, <2>2, <1>10 DEF SeedInv, FadeInv
  <2>3. CASE AddTile(subject) /\ redis' = redis
    <3>1. \A k \in Key : tiles'[k] \in {"fading", "gone"} <=> tiles[k] \in {"fading", "gone"}
      BY <1>0, <2>3 DEF AddTile, TtlTypeOK
    <3>2. handled' = handled /\ toasts' = toasts
      BY <2>3 DEF AddTile
    <3> QED BY <1>0, <2>1, <2>3, <3>1, <3>2 DEF TilesInv, SeedInv, FadeInv
  <2> QED BY <1>3, <2>2, <2>3 DEF SeedReply, PersistReply, tileVars
<1>4. ASSUME NEW k \in Key, Expire(k) PROVE TilesInv' /\ SeedInv'
  BY <1>0, <1>4, <1>10 DEF Expire, SeedInv, TtlTypeOK, tileVars
<1>5. ASSUME NEW k \in Key, FadeEnd(k) PROVE TilesInv' /\ SeedInv'
  <2>1. \A c \in Key : tiles'[c] \in {"fading", "gone"} <=> tiles[c] \in {"fading", "gone"}
    BY <1>0, <1>5 DEF FadeEnd, TtlTypeOK
  <2>2. UNCHANGED <<redis, stage, subject, handled, toasts>>
    BY <1>5 DEF FadeEnd, redisVars
  <2> QED BY <1>0, <1>11, <2>1, <2>2 DEF TilesInv
<1>6. CASE OtherEvent \/ Toggle \/ Frame \/ Scroll \/ UNCHANGED ttlVars
  <2>1. UNCHANGED <<tiles, handled, toasts>> /\ UNCHANGED <<redis, stage, subject>>
    BY <1>6 DEF OtherEvent, Toggle, Frame, Scroll, ttlVars, tileVars, redisVars
  <2> QED BY <1>0, <2>1, <1>10, <1>11 DEF FadeInv
<1>7. CASE Commit
  <2> DEFINE shown == {k \in Key : tiles[k] \in {"shown", "fading"}}
             due   == IF Listed # seen THEN DueFades(shown) ELSE {}
  <2>1. /\ handled' = handled \union due
        /\ toasts' = [k \in Key |-> IF k \in due THEN toasts[k] + 1 ELSE toasts[k]]
        /\ tiles' = [k \in Key |-> IF k \in due THEN "fading" ELSE tiles[k]]
        /\ UNCHANGED <<redis, stage, subject>>
    BY <1>7 DEF Commit, FadeEffect, redisVars
  <2>2. ASSUME NEW k \in due PROVE k \in Key /\ tiles[k] = "shown" /\ redis[k] = "expired"
    <3>1. k \in shown \ handled /\ \E i \in Expiries : buffer[i].key = k
      BY DEF DueFades
    <3>2. PICK i \in 1..Len(buffer) : buffer[i].kind = "expired" /\ buffer[i].key = k
      BY <3>1 DEF Expiries
    <3>3. i \in 1..Len(Rows) /\ Rows[i] = buffer[i]
      BY <3>2, RowsAt
    <3>4. tiles[k] = "shown"
      BY <1>0, <3>1 DEF TilesInv
    <3>5. Reported(Rows)
      BY DEF FadeInv
    <3> QED BY <3>1, <3>2, <3>3, <3>4, <3>5 DEF Reported
  <2> HIDE DEF due
  <2>3. \A k \in Key : IF k \in due THEN tiles'[k] = "fading" /\ toasts'[k] = toasts[k] + 1
                                    ELSE tiles'[k] = tiles[k] /\ toasts'[k] = toasts[k]
    BY <2>1
  <2>4. \A k \in Key : toasts'[k] = IF tiles'[k] \in {"fading", "gone"} THEN 1 ELSE 0
    <3>1. \A k \in Key : toasts[k] = IF tiles[k] \in {"fading", "gone"} THEN 1 ELSE 0
      BY <1>0 DEF TilesInv
    <3>2. \A k \in due : toasts'[k] = 1 /\ tiles'[k] = "fading"
      BY <2>2, <2>3, <3>1
    <3> QED BY <2>3, <3>1, <3>2
  <2>5. \A k \in Key : k \in handled' <=> tiles'[k] \in {"fading", "gone"}
    BY <1>0, <2>1, <2>2, <2>3 DEF TilesInv
  <2>6. \A k \in handled' : redis'[k] = "expired"
    BY <1>0, <2>1, <2>2 DEF TilesInv
  <2> QED BY <1>0, <1>11, <2>1, <2>4, <2>5, <2>6 DEF TilesInv, FadeInv
<1> QED BY <1>0, <1>1, <1>2, <1>3, <1>4, <1>5, <1>6, <1>7 DEF TtlNext, Requests, FadeInv

-----------------------------------------------------------------------------
(***************************************************************************)
(* The pill.  Of the listed expiries those below latest were there at the   *)
(* last commit: seen of them as long as the ring has dropped none, and      *)
(* fewer later.  The others are the ones that arrived since.                *)
(***************************************************************************)
Old == {i \in Expiries : buffer[i].seq < latest}

PillInv ==
  /\ Cardinality(Old) <= seen
  /\ Len(buffer) < Capacity => Cardinality(Old) = seen
  /\ latest <= seq
  /\ \A i \in 1..Len(pending) : pending[i].seq >= latest
  /\ pinned => newCount = 0 /\ missed = 0
  /\ PillCountsArrivals

\* Where nothing is flushed, committed or scrolled, events may only join the queue.
LEMMA QuietPill ==
  ASSUME TtlTypeOK, PillInv, UNCHANGED <<buffer, seen, feedVars>>,
         \/ UNCHANGED <<pending, seq>>
         \/ pending' = <<>> /\ UNCHANGED seq
         \/ \E kind \in {"event", "expired"}, key \in Key \union {NoKey} :
              seq < MaxEvents /\ Receive(kind, key)
  PROVE  PillInv'
<1>1. Old' = Old
  BY DEF Old, Expiries, feedVars
<1>2. latest' <= seq' /\ \A i \in 1..Len(pending') : pending'[i].seq >= latest'
  <2>1. CASE UNCHANGED <<pending, seq>> \/ (pending' = <<>> /\ UNCHANGED seq)
    BY <2>1 DEF PillInv, feedVars
  <2>2. ASSUME NEW kind \in {"event", "expired"}, NEW key \in Key \union {NoKey},
               seq < MaxEvents, Receive(kind, key)
        PROVE  latest' <= seq' /\ \A i \in 1..Len(pending') : pending'[i].seq >= latest'
    <3>1. /\ Len(pending') = Len(pending) + 1 /\ Len(pending) \in Nat
          /\ pending'[Len(pending')] = [kind |-> kind, key |-> key, seq |-> seq]
          /\ \A i \in 1..Len(pending) : pending'[i] = pending[i]
      BY <2>2, ReceiveType DEF TtlTypeOK
    <3>2. seq' = seq + 1 /\ latest' = latest /\ seq \in Nat /\ latest \in Nat /\ latest <= seq
      BY <2>2, TtlLiveAssumption DEF Receive, feedVars, TtlTypeOK, PillInv
    <3>3. \A i \in 1..Len(pending') : i \in 1..Len(pending) \/ i = Len(pending')
      BY <3>1
    <3> QED BY <3>1, <3>2, <3>3 DEF PillInv
  <2> QED BY <2>1, <2>2
<1> QED BY <1>1, <1>2 DEF PillInv, PillCountsArrivals, feedVars

\* A frame brings new rows only, and drops old ones only from a full ring.
LEMMA FlushPill ==
  ASSUME TtlTypeOK, PillInv, Flush, UNCHANGED <<seen, feedVars>>
  PROVE  PillInv'
<1>1. buffer' \in Seq(Event) /\ pending' = <<>> /\ seq' = seq
  BY FrameRows DEF Flush
<1>2. PICK d \in Nat :
        /\ Len(buffer) + Len(pending) = Len(buffer') + d
        /\ d > 0 => Len(buffer') = Capacity
        /\ \A i \in 1..Len(buffer') : buffer'[i] = Rows[i + d]
  BY FrameRows
<1>3. Len(buffer) \in Nat /\ Len(pending) \in Nat /\ Len(buffer') \in Nat
  BY <1>1 DEF TtlTypeOK
<1>4. ASSUME NEW i \in Old' PROVE i + d \in Old
  <2>1. i \in 1..Len(buffer') /\ buffer'[i].kind = "expired" /\ buffer'[i].seq < latest
    BY DEF Old, Expiries, feedVars
  <2>2. i + d \in 1..(Len(buffer) + Len(pending)) /\ buffer'[i] = Rows[i + d]
    BY <1>2, <1>3, <2>1
  <2>3. CASE i + d <= Len(buffer)
    BY <2>1, <2>2, <2>3, <1>3, RowsAt DEF Old, Expiries
  <2>4. CASE i + d > Len(buffer)
    <3>1. PICK j \in 1..Len(pending) : Len(buffer) + j = i + d
      <4>1. i \in Nat /\ (i + d) - Len(buffer) \in 1..Len(pending)
        BY <1>3, <2>1, <2>2, <2>4
      <4>2. Len(buffer) + ((i + d) - Len(buffer)) = i + d
        BY <1>3, <4>1
      <4> QED BY <4>1, <4>2
    <3>2. buffer'[i] = pending[j]
      BY <2>2, <3>1, RowsAt
    <3>3. pending[j].seq >= latest /\ pending[j] \in Event /\ latest \in Nat
      BY <3>1, TtlLiveAssumption DEF PillInv, TtlTypeOK
    <3> QED BY <2>1, <3>2, <3>3, TtlLiveAssumption DEF Event
  <2> QED BY <2>3, <2>4, <1>3, <2>1
<1>5. IsFiniteSet(Old) /\ Cardinality(Old) \in Nat
  BY ListedType DEF Old
<1>6. IsFiniteSet(Old') /\ Cardinality(Old') <= Cardinality(Old) /\ Cardinality(Old') \in Nat
  <2> DEFINE shift == [i \in Old' |-> i + d]
  <2>1. Old' \subseteq 1..Len(buffer')
    BY DEF Old, Expiries
  <2>2. shift \in Injection(Old', Old)
    BY <1>4, <1>3, <2>1 DEF Injection, IsInjective
  <2> HIDE DEF shift
  <2>3. IsFiniteSet(Old') /\ Cardinality(Old') <= Cardinality(Old)
    BY <2>2, <1>5, FS_Injection
  <2> QED BY <2>3, FS_CardinalityType
<1>7. ASSUME Len(buffer') < Capacity PROVE Old' = Old /\ Len(buffer) < Capacity
  <2>1. d = 0 /\ Len(buffer) <= Len(buffer')
    BY <1>2, <1>3, <1>7, CapacityAssumption
  <2>2. \A i \in Old' : i \in Old
    BY <1>4, <2>1 DEF Old, Expiries
  <2>3. ASSUME NEW i \in Old PROVE i \in Old'
    <3>1. i \in 1..Len(buffer) /\ i \in 1..Len(buffer') /\ Rows[i] = buffer[i]
      BY <2>1, <1>3, RowsAt DEF Old, Expiries
    <3>2. buffer'[i] = buffer[i]
      BY <1>2, <2>1, <3>1
    <3> QED BY <3>1, <3>2 DEF Old, Expiries, feedVars
  <2>4. Len(buffer) < Capacity
    BY <2>1, <1>3, <1>7, CapacityAssumption
  <2>5. Old' = Old
    BY <2>2, <2>3
  <2> QED BY <2>4, <2>5
<1>8. Cardinality(Old') <= seen'
  BY <1>5, <1>6 DEF PillInv, TtlTypeOK
<1>9. Len(buffer') < Capacity => Cardinality(Old') = seen'
  BY <1>7 DEF PillInv
<1> QED BY <1>1, <1>7, <1>8, <1>9 DEF PillInv, PillCountsArrivals, feedVars

\* A commit counts what arrived since the last one, on both sides.
LEMMA CommitPill ==
  ASSUME TtlTypeOK, FeedInv, PillInv, Commit
  PROVE  PillInv'
<1> DEFINE fresh == {i \in Expiries : buffer[i].seq >= latest}
<1>1. /\ newCount' = IF Listed <= seen THEN newCount ELSE IF pinned THEN 0 ELSE newCount + Listed - seen
      /\ seen' = Listed /\ missed' = IF pinned THEN 0 ELSE missed + Cardinality(fresh)
      /\ latest' = IF buffer = <<>> THEN latest ELSE buffer[Len(buffer)].seq + 1
      /\ UNCHANGED <<buffer, pending, seq, pinned>>
  BY DEF Commit, RegisterArrival, socketVars
<1>2. fresh = Expiries \ Old /\ Old \subseteq Expiries /\ Expiries \subseteq 1..Len(buffer)
  <2>1. \A i \in Expiries : buffer[i].seq \in Nat
    <3>1. \A e \in Event : e.seq \in Nat
      BY TtlLiveAssumption DEF Event
    <3> QED BY <3>1 DEF TtlTypeOK, Expiries
  <2>2. latest \in Nat
    BY TtlLiveAssumption DEF TtlTypeOK
  <2>3. \A i \in Expiries : buffer[i].seq >= latest <=> ~(buffer[i].seq < latest)
    BY <2>1, <2>2
  <2> QED BY <2>3 DEF Old, Expiries
<1>3. /\ Cardinality(fresh) = Listed - Cardinality(Old)
      /\ Cardinality(fresh) \in Nat /\ Cardinality(Old) \in Nat /\ Listed \in Nat
  <2>1. IsFiniteSet(Expiries) /\ IsFiniteSet(Old)
    BY <1>2, ListedType, FS_Subset
  <2>2. Cardinality(Expiries \ Old) = Cardinality(Expiries) - Cardinality(Expiries \intersect Old)
    BY <2>1, FS_Difference
  <2>3. Expiries \intersect Old = Old
    BY <1>2
  <2> QED BY <1>2, <2>1, <2>2, <2>3, ListedType, FS_CardinalityType DEF Listed
<1> HIDE DEF fresh
<1>4. newCount \in Nat /\ missed \in Nat /\ seen \in Nat /\ Len(buffer) \in Nat /\ seq \in Nat /\ latest \in Nat
  BY TtlLiveAssumption DEF TtlTypeOK
<1>5. Expiries' = Expiries /\ Old' = Expiries /\ latest' <= seq' /\ latest' \in Nat
      /\ \A i \in 1..Len(pending') : pending'[i].seq >= latest'
  <2>0. Expiries' = Expiries
    BY <1>1 DEF Expiries
  <2>1. CASE buffer = <<>>
    <3>1. Expiries = {} /\ Old' = {}
      BY <2>0, <2>1 DEF Expiries, Old
    <3> QED BY <1>1, <2>0, <2>1, <3>1, <1>4 DEF PillInv
  <2>2. CASE buffer # <<>>
    <3> DEFINE n == Len(buffer)
    <3>1. n \in 1..Len(buffer) /\ buffer[n] \in Event /\ latest' = buffer[n].seq + 1
      BY <1>1, <2>2 DEF TtlTypeOK
    <3>2. \A i \in 1..Len(Rows), j \in 1..Len(Rows) : i < j => Rows[i].seq < Rows[j].seq
      BY DEF FeedInv, RowKeysIncrease, Rows
    <3>3. \A i \in 1..Len(Rows) : Rows[i].seq \in Nat /\ Rows[i].seq < seq
      <4>1. \A e \in Event : e.seq \in Nat
        BY TtlLiveAssumption DEF Event
      <4> QED BY <4>1, RowsAt DEF FeedInv
    <3>4. n \in 1..Len(Rows) /\ Rows[n] = buffer[n] /\ Len(pending) \in Nat
          /\ Len(Rows) = n + Len(pending)
      BY <3>1, RowsAt DEF TtlTypeOK
    <3> HIDE DEF n
    <3>5. \A i \in 1..n : Rows[i].seq < latest'
      BY <3>1, <3>2, <3>3, <3>4
    <3>6. \A i \in Expiries : buffer[i].seq < latest'
      BY <3>5, <1>2, RowsAt DEF n
    <3>7. \A i \in 1..Len(pending) : pending[i].seq >= latest'
      <4> SUFFICES ASSUME NEW i \in 1..Len(pending) PROVE pending[i].seq >= latest'
        OBVIOUS
      <4>1. n + i \in 1..Len(Rows) /\ n < n + i /\ Rows[n + i] = pending[i]
        BY <3>1, <3>4, <1>4, RowsAt DEF n
      <4> QED BY <4>1, <3>1, <3>2, <3>3, <3>4
    <3>8. latest' <= seq /\ latest' \in Nat
      BY <3>1, <3>3, <3>4, <1>4
    <3> QED BY <3>6, <3>7, <3>8, <1>1, <2>0 DEF Old
  <2> QED BY <2>1, <2>2
<1>6. Cardinality(Old') = seen'
  BY <1>1, <1>5 DEF Listed
<1>7. pinned' => newCount' = 0 /\ missed' = 0
  BY <1>1 DEF PillInv
<1>8. newCount' <= missed' /\ (Len(buffer') < Capacity => newCount' = missed')
  BY <1>1, <1>3, <1>4 DEF PillInv, PillCountsArrivals
<1> QED BY <1>1, <1>3, <1>5, <1>6, <1>7, <1>8 DEF PillInv, PillCountsArrivals
\* Scrolling starts the count again.
LEMMA ScrollPill ==
  ASSUME TtlTypeOK, PillInv, Scroll
  PROVE  PillInv'
<1>1. /\ pinned' = ~pinned /\ newCount' = IF pinned' THEN 0 ELSE newCount
      /\ missed' = 0 /\ UNCHANGED <<buffer, pending, seq, latest, seen>>
  BY DEF Scroll, socketVars
<1>2. pinned \in BOOLEAN /\ newCount \in Nat
  BY DEF TtlTypeOK
<1>3. newCount' = 0 /\ missed' = 0
  BY <1>1, <1>2 DEF PillInv
<1>4. Old' = Old
  BY <1>1 DEF Old, Expiries
<1> QED BY <1>1, <1>3, <1>4 DEF PillInv, PillCountsArrivals

LEMMA PillStep ==
  ASSUME TtlTypeOK, FeedInv, PillInv, [TtlNext]_ttlVars
  PROVE  PillInv'
<1>1. ASSUME UNCHANGED <<socketVars, seen, feedVars>> PROVE PillInv'
  BY <1>1, QuietPill DEF socketVars
<1>2. ASSUME NEW k \in Key, Expire(k) \/ FadeEnd(k) \/ \E p \in BOOLEAN : ClickSeed(k, p)
      PROVE  PillInv'
  <2>1. CASE UNCHANGED socketVars
    BY <1>1, <1>2, <2>1 DEF Expire, FadeEnd, ClickSeed
  <2>2. CASE seq < MaxEvents /\ Receive("expired", k) /\ UNCHANGED <<seen, feedVars>>
    BY <2>2, QuietPill DEF Receive
  <2> QED BY <1>2, <2>1, <2>2 DEF Expire, FadeEnd, ClickSeed
<1>3. CASE OtherEvent
  <2>1. seq < MaxEvents /\ Receive("event", NoKey) /\ UNCHANGED <<buffer, seen, feedVars>>
    BY <1>3 DEF OtherEvent, Receive
  <2> QED BY <2>1, QuietPill
<1>4. CASE Toggle
  <2>1. pending' = <<>> /\ UNCHANGED <<buffer, seq, seen, feedVars>>
    BY <1>4 DEF Toggle, Enable, Connect, Disable
  <2> QED BY <2>1, QuietPill
<1>5. CASE Requests \/ UNCHANGED ttlVars
  <2>1. UNCHANGED <<socketVars, seen, feedVars>>
    BY <1>5 DEF Requests, Seed, SeedReply, Persist, PersistReply, Fail, ttlVars
  <2> QED BY <1>1, <2>1
<1>6. CASE Frame
  BY <1>6, FlushPill DEF Frame
<1> QED BY <1>2, <1>3, <1>4, <1>5, <1>6, CommitPill, ScrollPill DEF TtlNext

-----------------------------------------------------------------------------
(* Theorems *)

IInv == TtlTypeOK /\ FeedInv /\ FadeInv /\ PillInv

\* Nothing was received, seeded or rendered yet.
LEMMA InitInv == TtlInit => IInv
<1> SUFFICES ASSUME TtlInit PROVE IInv
  OBVIOUS
<1> USE TtlLiveAssumption, CapacityAssumption DEF TtlInit, SocketInit
<1>1. TtlTypeOK
  <2>1. {enabled, raf, frame, persist, dirty, pinned} \subseteq BOOLEAN
    OBVIOUS
  <2> QED BY <2>1 DEF TtlTypeOK
<1>2. Rows = <<>> /\ Expiries = {} /\ Old = {} /\ buffer \o pending = <<>>
  BY DEF Rows, Expiries, Old
<1>3. FeedInv
  BY <1>2 DEF FeedInv, RowKeysIncrease
<1>4. FadeInv
  BY <1>2 DEF FadeInv, TilesInv, SeedInv, Reported
<1>5. PillInv
  BY <1>2, FS_EmptySet DEF PillInv, PillCountsArrivals
<1> QED BY <1>1, <1>3, <1>4, <1>5 DEF IInv

LEMMA InvNext == IInv /\ [TtlNext]_ttlVars => IInv'
  BY FeedTypesStep, PageTypesStep, TypesSplit, FeedStep, FadeStep, PillStep DEF IInv, FeedTypes, PageTypes, TtlTypeOK

\* use-cache-socket.ts, TtlLiveView, EventFeed: every state of the page is of its
\* types, the ring stays within its capacity and the rows' keys increase, however
\* often Live is toggled and however many events arrive.
THEOREM FeedWellFormedHolds == TtlSpec => []FeedWellFormed
<1>1. IInv => FeedWellFormed
  BY DEF IInv, FeedInv, FeedWellFormed
<1> QED BY InitInv, InvNext, <1>1, PTL DEF TtlSpec

\* TtlLiveView: a tile fades only for an expiry of its own key, and is toasted exactly
\* once, whatever the effect finds in the ring and however often it runs.
THEOREM FadesOnceHolds == TtlSpec => []FadesOncePerExpiry
<1>1. IInv => FadesOncePerExpiry
  BY DEF IInv, FadeInv, TilesInv, FadesOncePerExpiry, TtlTypeOK
<1> QED BY InitInv, InvNext, <1>1, PTL DEF TtlSpec

\* EventFeed, useFollowMode: the pill never claims more than arrived since the reader
\* scrolled away, and claims exactly that until the ring is full.
THEOREM PillCountsHolds == TtlSpec => []PillCountsArrivals
<1>1. IInv => PillCountsArrivals
  BY DEF IInv, PillInv
<1> QED BY InitInv, InvNext, <1>1, PTL DEF TtlSpec

\* RingBuffer: a row is given up for newer ones of a full ring, or lost while it was
\* pending because Live went off; no step drops any other.
THEOREM DropsOldest == TtlSpec => DropsOldestFirst
<1> DEFINE Held  == Range(buffer) \union (IF enabled /\ ~enabled' THEN {} ELSE Range(pending))
           Held2 == Range(buffer') \union Range(pending')
           Drops == \A e \in Held \ Held2 :
                      /\ Len(buffer') = Capacity
                      /\ \A j \in 1..Capacity : buffer'[j].seq > e.seq
<1>1. ASSUME TtlTypeOK, FeedInv, [TtlNext]_ttlVars PROVE Drops
  <2>0. /\ buffer \in Seq(Event) /\ pending \in Seq(Event) /\ Rows \in Seq(Event)
        /\ Range(buffer) = {buffer[i] : i \in 1..Len(buffer)}
        /\ Range(pending) = {pending[i] : i \in 1..Len(pending)}
    BY <1>1, RowsAt DEF TtlTypeOK, Range
  <2>1. CASE UNCHANGED socketVars
    BY <2>1 DEF socketVars
  <2>2. CASE Enable
    <3>1. buffer' = buffer /\ Range(pending) = {}
      BY <1>1, <2>0, <2>2 DEF Enable, FeedInv
    <3> QED BY <3>1
  <2>3. CASE Disable
    BY <2>3 DEF Disable
  <2>4. CASE Flush
    <3> SUFFICES ASSUME NEW e \in Held, e \notin Range(buffer')
                 PROVE  Len(buffer') = Capacity /\ \A j \in 1..Capacity : buffer'[j].seq > e.seq
      OBVIOUS
    <3>1. PICK d \in Nat :
            /\ Len(buffer) + Len(pending) = Len(buffer') + d
            /\ d > 0 => Len(buffer') = Capacity
            /\ \A i \in 1..Len(buffer') : buffer'[i] = Rows[i + d]
      BY <1>1, <2>4, FrameRows
    <3>2. buffer' \in Seq(Event) /\ Range(buffer') = {buffer'[i] : i \in 1..Len(buffer')}
      <4>1. buffer' \in Seq(Event)
        BY <1>1, <2>4, FrameRows
      <4> QED BY <4>1 DEF Range
    <3>3. \E n \in 1..Len(Rows) : Rows[n] = e
      <4>0. /\ Len(Rows) = Len(buffer) + Len(pending) /\ Len(buffer) \in Nat /\ Len(pending) \in Nat
            /\ \A i \in 1..Len(buffer) : Rows[i] = buffer[i]
            /\ \A i \in 1..Len(pending) : Rows[Len(buffer) + i] = pending[i]
        BY <1>1, <2>0, RowsAt
      <4>1. CASE e \in Range(buffer)
        <5>1. PICK i \in 1..Len(buffer) : buffer[i] = e
          BY <2>0, <4>1
        <5>2. i \in 1..Len(Rows) /\ Rows[i] = e
          BY <4>0, <5>1
        <5> QED BY <5>2
      <4>2. CASE e \in Range(pending)
        <5>1. PICK i \in 1..Len(pending) : pending[i] = e
          BY <2>0, <4>2
        <5>2. Len(buffer) + i \in 1..Len(Rows) /\ Rows[Len(buffer) + i] = e
          BY <4>0, <5>1
        <5> QED BY <5>2
      <4> QED BY <4>1, <4>2
    <3>4. /\ Len(Rows) = Len(buffer') + d /\ Len(buffer') \in Nat
          /\ \A i, j \in 1..Len(Rows) : i < j => Rows[i].seq < Rows[j].seq
          /\ \A i \in 1..Len(Rows) : Rows[i].seq \in Nat
      <4>1. Len(Rows) = Len(buffer') + d /\ Len(buffer') \in Nat
        BY <1>1, <3>1, <3>2, RowsAt
      <4>2. \A i, j \in 1..Len(Rows) : i < j => Rows[i].seq < Rows[j].seq
        BY <1>1 DEF FeedInv, RowKeysIncrease, Rows
      <4>3. \A r \in Event : r.seq \in Nat
        BY TtlLiveAssumption DEF Event
      <4>4. \A i \in 1..Len(Rows) : Rows[i] \in Event
        BY <2>0
      <4> QED BY <4>1, <4>2, <4>3, <4>4
    <3>n. PICK n \in 1..Len(Rows) : Rows[n] = e
      BY <3>3
    <3>5. n <= d
      <4> SUFFICES ASSUME n > d PROVE FALSE
        BY <3>n
      <4>1. n - d \in 1..Len(buffer') /\ (n - d) + d = n
        BY <3>n, <3>4
      <4>2. buffer'[n - d] = e
        BY <3>1, <3>n, <4>1
      <4> QED BY <3>2, <4>1, <4>2
    <3>6. d > 0 /\ Len(buffer') = Capacity
      BY <3>1, <3>n, <3>5
    <3>7. ASSUME NEW j \in 1..Capacity PROVE buffer'[j].seq > e.seq
      <4>1. j + d \in 1..Len(Rows) /\ n < j + d /\ buffer'[j] = Rows[j + d]
        BY <3>1, <3>n, <3>4, <3>5, <3>6
      <4> QED BY <3>n, <3>4, <4>1
    <3> QED BY <3>6, <3>7
  <2>5. ASSUME NEW kind \in {"event", "expired"}, NEW key \in Key \union {NoKey},
               seq < MaxEvents, Receive(kind, key)
        PROVE  Drops
    <3>1. /\ buffer' = buffer /\ Len(pending') = Len(pending) + 1 /\ pending' \in Seq(Event)
          /\ \A i \in 1..Len(pending) : pending'[i] = pending[i]
      BY <1>1, <2>5, ReceiveType
    <3>2. Range(pending) \subseteq Range(pending')
      BY <2>0, <3>1 DEF Range
    <3> QED BY <3>1, <3>2
  <2> QED BY <1>1, <2>1, <2>2, <2>3, <2>4, <2>5, SocketStep
<1>2. TtlTypeOK /\ FeedInv /\ [TtlNext]_ttlVars => [Drops]_ttlVars
  BY <1>1
<1>3. IInv => TtlTypeOK /\ FeedInv
  BY DEF IInv
<1> QED BY InitInv, InvNext, <1>2, <1>3, PTL DEF TtlSpec, DropsOldestFirst
=============================================================================
