---------------------------- MODULE Catalog_proofs ----------------------------
(***************************************************************************)
(* Theorems about Catalog, for every set of callers and products, every set *)
(* of known products, batches and request counts of any size; about the      *)
(* lab and playground pages beside it; and about all of them together.       *)
(***************************************************************************)
EXTENDS MCCatalog, SequenceTheorems, FiniteSetTheorems, TLAPS

\* Every name a handler is sent to is a control point.
Points == Commands \union {"idle", "find", "findMany", "seedFind"}

LEMMA PointNames ==
  \A n \in {"idle", "get", "find", "set", "mget", "findMany", "mset", "seedFind",
            "setNx", "exists"} : n \in Points
BY DEF Points, Commands

\* Row is a value of its product, and Nothing exactly for unknown ids.
LEMMA RowOf ==
  ASSUME NEW p \in Product
  PROVE  /\ Row(p) \in Slot
         /\ p \in Known <=> Row(p) # Nothing
         /\ Row(p) # Nothing => Row(p).id = p
BY CatalogAssumption DEF Row, Slot, Value

\* The looked-up slots of a request, and how many of them are missing.
LEMMA CountBounds ==
  ASSUME NEW s \in Seq(Slot)
  PROVE  Cardinality({i \in DOMAIN s : s[i] = Nothing}) \in 0..Len(s)
<1> DEFINE M == {i \in 1..Len(s) : s[i] = Nothing}
<1>4. DOMAIN s = 1..Len(s) /\ Len(s) \in Nat
  OBVIOUS
<1>1. IsFiniteSet(1..Len(s)) /\ Cardinality(1..Len(s)) = Len(s)
  BY <1>4, FS_Interval
<1>2. IsFiniteSet(M) /\ Cardinality(M) <= Cardinality(1..Len(s))
  BY <1>1, FS_Subset
<1>3. Cardinality(M) \in Nat
  BY <1>2, FS_CardinalityType
<1>5. M = {i \in DOMAIN s : s[i] = Nothing}
  BY <1>4, Zenon
<1>6. Cardinality(M) \in 0..Len(s)
  BY <1>1, <1>2, <1>3, <1>4
<1> QED BY <1>5, <1>6, Zenon

\* A batch is a non-empty sequence of products, and so is a single id.
LEMMA BatchIsSeq ==
  /\ \A b \in Batches : b \in Seq(Product) /\ 1 \in DOMAIN b /\ b[1] \in Product
  /\ \A p \in Product : <<p>> \in Batches
<1>1. ASSUME NEW b \in Batches
      PROVE  b \in Seq(Product) /\ 1 \in DOMAIN b /\ b[1] \in Product
  <2>1. PICK n \in 1..MaxBatch : b \in [1..n -> Product]
    BY DEF Batches
  <2> QED BY <2>1, CatalogAssumption
<1>2. ASSUME NEW p \in Product PROVE <<p>> \in Batches
  <2>1. <<p>> \in [1..1 -> Product] /\ 1 \in 1..MaxBatch
    BY CatalogAssumption
  <2> QED BY <2>1 DEF Batches
<1> QED BY <1>1, <1>2

-----------------------------------------------------------------------------
(* Type correctness *)

LEMMA TypeInit == Init => TypeOK
<1> SUFFICES ASSUME Init PROVE TypeOK
  OBVIOUS
<1>1. cache \in [Product -> Slot] /\ lasts = {} /\ \A p \in Product : cache[p] = Nothing
  BY DEF Init, Slot
<1>2. pc \in [Caller -> Points] /\ \A c \in Caller : pc[c] = "idle"
  BY PointNames DEF Init
<1>3. ids \in [Caller -> Seq(Product)] /\ slots \in [Caller -> Seq(Slot)]
  BY DEF Init
<1>4. fill \in [Caller -> SUBSET Known] /\ steady \in [Caller -> SUBSET Product]
  BY DEF Init
<1>5. reply \in [Caller -> Replies]
  BY DEF Init, Replies
<1>6. {hits, misses, looked, asked} \subseteq Nat /\ calls \in 0..MaxCalls
      /\ creators \in [Product -> Nat]
  BY CatalogAssumption DEF Init
<1> QED BY <1>1, <1>2, <1>3, <1>4, <1>5, <1>6 DEF TypeOK, Points

\* A request begins.
LEMMA TypeBegin ==
  ASSUME TypeOK, NEW c \in Caller, NEW batch \in Batches,
         NEW n \in {"get", "mget", "seedFind"}, Begin(c, n, batch)
  PROVE  TypeOK'
<1> USE DEF TypeOK, Begin, Goto
<1>1. batch \in Seq(Product) /\ n \in Points /\ n \notin {"find", "findMany", "set", "mset"}
  BY BatchIsSeq, PointNames
<1>2. [kind |-> "none"] \in Replies
  BY DEF Replies
<1>3. calls' \in 0..MaxCalls
  BY CatalogAssumption
<1>4. ids' \in [Caller -> Seq(Product)] /\ slots' \in [Caller -> Seq(Slot)]
  BY <1>1
<1>5. reply' \in [Caller -> Replies] /\ steady' \in [Caller -> SUBSET Product]
  BY <1>2
<1>6. pc' \in [Caller -> Points]
  BY <1>1 DEF Points
<1>7. \A d \in Caller :
       /\ pc'[d] # "idle" => ids'[d] \in Batches
       /\ pc'[d] \in {"find", "findMany", "set", "mset"} => Len(slots'[d]) = Len(ids'[d])
  BY <1>1
<1>8. UNCHANGED <<cache, lasts, fill, hits, misses, looked, asked, creators>>
  BY DEF metrics
<1> QED BY <1>3, <1>4, <1>5, <1>6, <1>7, <1>8 DEF Points

\* A read looks its ids up.
LEMMA LookupTypes ==
  ASSUME TypeOK, NEW c \in Caller, pc[c] # "idle"
  PROVE  LET found == [i \in DOMAIN ids[c] |-> cache[ids[c][i]]]
         IN  /\ found \in Seq(Slot) /\ Len(found) = Len(ids[c])
             /\ DOMAIN found = DOMAIN ids[c] /\ Len(found) \in Nat
<1> DEFINE found == [i \in DOMAIN ids[c] |-> cache[ids[c][i]]]
<1>1. ids[c] \in Seq(Product) /\ cache \in [Product -> Slot]
  BY DEF TypeOK
<1>2. DOMAIN ids[c] = 1..Len(ids[c]) /\ Len(ids[c]) \in Nat
  BY <1>1
<1>3. \A i \in 1..Len(ids[c]) : cache[ids[c][i]] \in Slot
  BY <1>1
<1>4. found \in [1..Len(ids[c]) -> Slot]
  BY <1>2, <1>3
<1> QED BY <1>2, <1>4

LEMMA TypeLookup ==
  ASSUME TypeOK, NEW c \in Caller, Get(c) \/ Mget(c)
  PROVE  TypeOK'
<1> DEFINE found == [i \in DOMAIN ids[c] |-> cache[ids[c][i]]]
<1>1. pc[c] # "idle" /\ Lookup(c)
  BY DEF Get, Mget
<1>2. found \in Seq(Slot) /\ Len(found) = Len(ids[c]) /\ Len(found) \in Nat
  BY <1>1, LookupTypes
<1>3. /\ UNCHANGED <<cache, lasts, ids, fill, calls, asked, creators, steady>>
      /\ slots' = [slots EXCEPT ![c] = found]
      /\ looked' = looked + Len(found)
      /\ Record(found)
  BY <1>1 DEF Lookup
<1>4. {hits', misses', looked', asked'} \subseteq Nat
  <2>1. Cardinality({i \in DOMAIN found : found[i] = Nothing}) \in 0..Len(found)
    BY <1>2, CountBounds
  <2> QED BY <1>2, <1>3, <2>1 DEF TypeOK, Record
<1>5. slots' \in [Caller -> Seq(Slot)] /\ Len(slots'[c]) = Len(ids'[c])
  BY <1>2, <1>3 DEF TypeOK
<1>6. /\ pc' \in [Caller -> Points] /\ reply' \in [Caller -> Replies]
      /\ \A d \in Caller : d # c => pc'[d] = pc[d]
  <2>1. [kind |-> "read"] \in Replies
    BY DEF Replies
  <2> QED BY <2>1, PointNames DEF TypeOK, Get, Mget, Goto, Answer, Points
<1>7. \A d \in Caller :
       /\ pc'[d] # "idle" => ids'[d] \in Batches
       /\ pc'[d] \in {"find", "findMany", "set", "mset"} => Len(slots'[d]) = Len(ids'[d])
  BY <1>1, <1>3, <1>5, <1>6 DEF TypeOK
<1> QED BY <1>3, <1>4, <1>5, <1>6, <1>7 DEF TypeOK, Points

\* A read asks the origin.
LEMMA MergeTypes ==
  ASSUME TypeOK, NEW c \in Caller, pc[c] \in {"find", "findMany"}
  PROVE  /\ Merge(c) \in Seq(Slot) /\ Len(Merge(c)) = Len(ids[c])
         /\ DOMAIN Merge(c) = DOMAIN ids[c] /\ DOMAIN ids[c] = DOMAIN slots[c]
         /\ Entries(c) \in SUBSET Known
         /\ Cardinality(Missing(c)) \in Nat
<1>1. /\ ids[c] \in Seq(Product) /\ slots[c] \in Seq(Slot)
      /\ Len(slots[c]) = Len(ids[c]) /\ Len(ids[c]) \in Nat
      /\ DOMAIN ids[c] = 1..Len(ids[c]) /\ DOMAIN slots[c] = 1..Len(ids[c])
  BY DEF TypeOK
<1>2. \A i \in 1..Len(ids[c]) : ids[c][i] \in Product /\ slots[c][i] \in Slot
  BY <1>1
<1>3. Merge(c) \in [1..Len(ids[c]) -> Slot]
  BY <1>1, <1>2, RowOf DEF Merge
<1>4. Cardinality(Missing(c)) \in Nat
  BY <1>1, CountBounds DEF Missing
<1> QED BY <1>1, <1>3, <1>4 DEF Entries

LEMMA TypeFetch ==
  ASSUME TypeOK, NEW c \in Caller, Find(c) \/ FindMany(c)
  PROVE  TypeOK'
<1>1. PICK n \in {"set", "mset"} : Fetch(c, n) /\ pc[c] \in {"find", "findMany"}
  BY DEF Find, FindMany
<1>2. /\ UNCHANGED <<cache, lasts, ids, calls, hits, misses, looked, creators, steady>>
      /\ slots' = [slots EXCEPT ![c] = Merge(c)]
      /\ asked' = asked + Cardinality(Missing(c))
      /\ fill' = [fill EXCEPT ![c] = Entries(c)]
  BY <1>1 DEF Fetch
<1>3. /\ slots' \in [Caller -> Seq(Slot)] /\ fill' \in [Caller -> SUBSET Known]
      /\ asked' \in Nat /\ Len(slots'[c]) = Len(ids'[c])
  BY <1>1, <1>2, MergeTypes DEF TypeOK
<1>4. /\ pc' \in [Caller -> Points] /\ reply' \in [Caller -> Replies]
      /\ \A d \in Caller : d # c => pc'[d] = pc[d]
  <2>1. [kind |-> "read"] \in Replies
    BY DEF Replies
  <2>2. \/ pc' = [pc EXCEPT ![c] = "idle"] /\ reply' = [reply EXCEPT ![c] = [kind |-> "read"]]
        \/ pc' = [pc EXCEPT ![c] = n] /\ UNCHANGED reply
    BY <1>1 DEF Fetch, Goto, Answer
  <2>3. pc \in [Caller -> Points] /\ reply \in [Caller -> Replies] /\ n \in Points
    BY PointNames DEF TypeOK, Points
  <2> QED BY <2>1, <2>2, <2>3, PointNames
<1>5. \A d \in Caller :
       /\ pc'[d] # "idle" => ids'[d] \in Batches
       /\ pc'[d] \in {"find", "findMany", "set", "mset"} => Len(slots'[d]) = Len(ids'[d])
  BY <1>1, <1>2, <1>3, <1>4 DEF TypeOK
<1> QED BY <1>2, <1>3, <1>4, <1>5 DEF TypeOK, Points

\* The entries of a write-back, a bulk seed or a removal are replaced.
LEMMA ReplaceRow ==
  ASSUME TypeOK, NEW c \in Caller, WriteBack(c), pc[c] \in {"set", "mset"}
  PROVE  /\ cache' = [p \in Product |-> IF p \in fill[c] THEN Row(p) ELSE cache[p]]
         /\ steady' = [d \in Caller |-> steady[d] \ fill[c]]
         /\ cache' \in [Product -> Slot] /\ steady' \in [Caller -> SUBSET Product]
         /\ \A p \in Product : cache'[p] # Nothing => cache'[p].id = p
         /\ \A p \in Product : cache[p] # Nothing => cache'[p] # Nothing
         /\ lasts' \subseteq {p \in Product : cache'[p] # Nothing}
         /\ UNCHANGED creators
<1>1. fill[c] \subseteq Known /\ fill[c] \subseteq Product
  BY CatalogAssumption DEF TypeOK
<1>2. /\ cache' = [p \in Product |-> IF p \in fill[c] THEN Row(p) ELSE cache[p]]
      /\ steady' = [d \in Caller |-> steady[d] \ fill[c]]
      /\ lasts' \subseteq lasts \union fill[c]
      /\ UNCHANGED creators
  BY DEF WriteBack, Replace
<1>3. cache' \in [Product -> Slot] /\ \A p \in Product : cache'[p] # Nothing => cache'[p].id = p
  BY <1>1, <1>2, RowOf DEF TypeOK
<1>4. \A p \in Product : cache[p] # Nothing \/ p \in fill[c] => cache'[p] # Nothing
  BY <1>1, <1>2, RowOf
<1>5. steady' \in [Caller -> SUBSET Product]
  BY <1>2 DEF TypeOK
<1> QED BY <1>1, <1>2, <1>3, <1>4, <1>5 DEF TypeOK

LEMMA TypeSet ==
  ASSUME TypeOK, NEW c \in Caller, Set(c)
  PROVE  TypeOK'
<1>1. /\ WriteBack(c) /\ pc[c] \in {"set", "mset"}
      /\ Answer(c, [kind |-> "read"])
      /\ fill' = [fill EXCEPT ![c] = {}]
      /\ UNCHANGED <<ids, slots, calls, hits, misses, looked, asked>>
  BY DEF Set, metrics
<1>2. pc' = [pc EXCEPT ![c] = "idle"] /\ reply' = [reply EXCEPT ![c] = [kind |-> "read"]]
  BY <1>1 DEF Answer, Goto
<1>3. pc' \in [Caller -> Points] /\ reply' \in [Caller -> Replies]
  <2>1. [kind |-> "read"] \in Replies
    BY DEF Replies
  <2> QED BY <1>2, <2>1, PointNames DEF TypeOK, Points
<1>4. fill' \in [Caller -> SUBSET Known] /\ creators' \in [Product -> Nat]
  BY <1>1, ReplaceRow DEF TypeOK
<1>5. \A d \in Caller :
       /\ pc'[d] # "idle" => ids'[d] \in Batches
       /\ pc'[d] \in {"find", "findMany", "set", "mset"} => Len(slots'[d]) = Len(ids'[d])
  BY <1>1, <1>2 DEF TypeOK
<1> QED BY <1>1, <1>3, <1>4, <1>5, ReplaceRow DEF TypeOK, Points

LEMMA TypeSeedFind ==
  ASSUME TypeOK, NEW c \in Caller, SeedFind(c)
  PROVE  TypeOK' /\ slots'[c][1] \in Value /\ slots'[c][1].id = ids[c][1]
<1>1. /\ pc[c] = "seedFind" /\ pc' = [pc EXCEPT ![c] = "setNx"]
      /\ slots' = [slots EXCEPT ![c] = <<[id |-> ids[c][1]]>>]
      /\ UNCHANGED <<cache, lasts, ids, fill, reply, calls, hits, misses, looked, asked,
                     creators, steady>>
  BY DEF SeedFind, Goto, metrics
<1>2. ids[c][1] \in Product
  BY <1>1, BatchIsSeq DEF TypeOK
<1>3. [id |-> ids[c][1]] \in Value
  BY <1>2 DEF Value
<1>4. slots' \in [Caller -> Seq(Slot)] /\ slots'[c][1] = [id |-> ids[c][1]]
  BY <1>1, <1>3 DEF TypeOK, Slot
<1>5. pc' \in [Caller -> Points]
  BY <1>1, PointNames DEF TypeOK, Points
<1>6. \A d \in Caller :
       /\ pc'[d] # "idle" => ids'[d] \in Batches
       /\ pc'[d] \in {"find", "findMany", "set", "mset"} => Len(slots'[d]) = Len(ids'[d])
  BY <1>1 DEF TypeOK
<1> QED BY <1>1, <1>3, <1>4, <1>5, <1>6 DEF TypeOK, Points

\* setNx: what is in the slot is a value of the product being seeded.
SeedReady(c) == slots[c][1] \in Value /\ slots[c][1].id = ids[c][1]

LEMMA SeedWrites ==
  ASSUME TypeOK, NEW c \in Caller, pc[c] = "setNx", SeedReady(c), WriteSeed(c)
  PROVE  /\ ids[c][1] \in Product
         /\ cache' = IF IsCreated(c) THEN [cache EXCEPT ![ids[c][1]] = slots[c][1]] ELSE cache
         /\ cache' \in [Product -> Slot]
         /\ \A p \in Product : cache'[p] # Nothing => cache'[p].id = p
         /\ \A p \in Product : cache[p] # Nothing => cache'[p] # Nothing
         /\ cache'[ids[c][1]] # Nothing
         /\ lasts' \subseteq {p \in Product : cache'[p] # Nothing}
<1>1. ids[c][1] \in Product
  BY BatchIsSeq DEF TypeOK
<1>2. slots[c][1] \in Value /\ slots[c][1] # Nothing /\ slots[c][1].id = ids[c][1]
  BY CatalogAssumption DEF SeedReady
<1>3. CASE IsCreated(c)
  <2>1. /\ cache' = [p \in Product |-> IF p = ids[c][1] THEN slots[c][1] ELSE cache[p]]
        /\ lasts' = lasts \ {ids[c][1]}
    BY <1>3 DEF WriteSeed
  <2>2. cache' = [cache EXCEPT ![ids[c][1]] = slots[c][1]]
    BY <2>1 DEF TypeOK
  <2> QED BY <1>1, <1>2, <1>3, <2>1, <2>2 DEF TypeOK, Slot
<1>4. CASE ~IsCreated(c)
  <2>1. cache' = [p \in Product |-> cache[p]] /\ lasts' = lasts
    BY <1>4 DEF WriteSeed
  <2>2. cache' = cache
    BY <2>1 DEF TypeOK
  <2> QED BY <1>1, <1>4, <2>1, <2>2 DEF TypeOK, IsCreated
<1> QED BY <1>3, <1>4

LEMMA TypeSetNx ==
  ASSUME TypeOK, NEW c \in Caller, SetNx(c), SeedReady(c)
  PROVE  TypeOK'
<1>1. /\ pc[c] = "setNx" /\ WriteSeed(c) /\ pc' = [pc EXCEPT ![c] = "exists"]
      /\ creators' = [creators EXCEPT ![ids[c][1]] = IF IsCreated(c) THEN @ + 1 ELSE @]
      /\ steady' = [steady EXCEPT ![c] = {ids[c][1]}]
      /\ reply' = [reply EXCEPT ![c] =
                     [kind |-> "seed", created |-> IsCreated(c), present |-> FALSE]]
      /\ UNCHANGED <<ids, slots, fill, calls, hits, misses, looked, asked>>
  BY DEF SetNx, Goto, metrics
<1>2. ids[c][1] \in Product
  BY <1>1, SeedWrites
<1>3. reply' \in [Caller -> Replies]
  <2>1. IsCreated(c) \in BOOLEAN
    BY Zenon DEF IsCreated
  <2>2. [kind |-> "seed", created |-> IsCreated(c), present |-> FALSE] \in Replies
    BY <2>1 DEF Replies
  <2> QED BY <1>1, <2>2 DEF TypeOK
<1>4. /\ creators' \in [Product -> Nat] /\ steady' \in [Caller -> SUBSET Product]
      /\ pc' \in [Caller -> Points]
  BY <1>1, <1>2, PointNames DEF TypeOK, Points
<1>5. \A d \in Caller :
       /\ pc'[d] # "idle" => ids'[d] \in Batches
       /\ pc'[d] \in {"find", "findMany", "set", "mset"} => Len(slots'[d]) = Len(ids'[d])
  BY <1>1 DEF TypeOK
<1> QED BY <1>1, <1>3, <1>4, <1>5, SeedWrites DEF TypeOK, Points

LEMMA TypeExists ==
  ASSUME TypeOK, NEW c \in Caller, Exists(c), reply[c].kind = "seed"
  PROVE  TypeOK'
<1>1. /\ pc[c] = "exists" /\ pc' = [pc EXCEPT ![c] = "idle"]
      /\ reply' = [reply EXCEPT ![c] = [reply[c] EXCEPT !.present = IsPresent(c)]]
      /\ UNCHANGED <<cache, lasts, ids, slots, fill, calls, hits, misses, looked, asked,
                     creators, steady>>
  BY DEF Exists, Answer, Goto, metrics
<1>2. reply' \in [Caller -> Replies]
  <2>1. IsPresent(c) \in BOOLEAN
    BY Zenon DEF IsPresent
  <2>2. reply[c] \in [kind : {"seed"}, created : BOOLEAN, present : BOOLEAN]
    BY DEF TypeOK, Replies
  <2>3. [reply[c] EXCEPT !.present = IsPresent(c)] \in Replies
    BY <2>1, <2>2 DEF Replies
  <2> QED BY <1>1, <2>3 DEF TypeOK
<1>3. pc' \in [Caller -> Points]
  BY <1>1, PointNames DEF TypeOK, Points
<1>4. \A d \in Caller :
       /\ pc'[d] # "idle" => ids'[d] \in Batches
       /\ pc'[d] \in {"find", "findMany", "set", "mset"} => Len(slots'[d]) = Len(ids'[d])
  BY <1>1 DEF TypeOK
<1> QED BY <1>1, <1>2, <1>3, <1>4 DEF TypeOK, Points

LEMMA TypeFail ==
  ASSUME TypeOK, NEW c \in Caller, Fail(c), pc[c] = "setNx" => SeedReady(c)
  PROVE  TypeOK'
<1>1. /\ pc' = [pc EXCEPT ![c] = "idle"]
      /\ reply' = [reply EXCEPT ![c] = [kind |-> "failed"]]
      /\ ids' = [ids EXCEPT ![c] = <<>>] /\ slots' = [slots EXCEPT ![c] = <<>>]
      /\ fill' = [fill EXCEPT ![c] = {}]
      /\ UNCHANGED <<calls, hits, misses, looked, asked>>
  BY DEF Fail, Answer, Goto, metrics
<1>2. reply' \in [Caller -> Replies]
  <2>1. [kind |-> "failed"] \in Replies
    BY DEF Replies
  <2> QED BY <1>1, <2>1 DEF TypeOK
<1>3. pc' \in [Caller -> Points]
  BY <1>1, PointNames DEF TypeOK, Points
<1>4. ids' \in [Caller -> Seq(Product)] /\ slots' \in [Caller -> Seq(Slot)]
      /\ fill' \in [Caller -> SUBSET Known]
  BY <1>1 DEF TypeOK
<1>5. \A d \in Caller :
       /\ pc'[d] # "idle" => ids'[d] \in Batches
       /\ pc'[d] \in {"find", "findMany", "set", "mset"} => Len(slots'[d]) = Len(ids'[d])
  BY <1>1 DEF TypeOK
<1>6. /\ cache' \in [Product -> Slot] /\ steady' \in [Caller -> SUBSET Product]
      /\ \A p \in Product : cache'[p] # Nothing => cache'[p].id = p
      /\ lasts' \subseteq {p \in Product : cache'[p] # Nothing}
      /\ UNCHANGED creators
  <2>1. CASE pc[c] \in {"set", "mset"} /\ WriteBack(c)
    BY <2>1, ReplaceRow
  <2>2. CASE pc[c] = "setNx" /\ WriteSeed(c) /\ UNCHANGED <<creators, steady>>
    BY <2>2, SeedWrites DEF TypeOK
  <2>3. CASE UNCHANGED <<cache, lasts, creators, steady>>
    BY <2>3 DEF TypeOK
  <2> QED BY <2>1, <2>2, <2>3 DEF Fail
<1> QED BY <1>1, <1>2, <1>3, <1>4, <1>5, <1>6 DEF TypeOK, Points

\* The actions of other clients.
Others ==
  \/ \E p \in Product : SetTtl(p) \/ PersistKey(p) \/ Lapse(p) \/ DeleteKey(p)
  \/ FlushNamespace
  \/ \E P \in SUBSET Product : BulkSeed(P)

LEMMA TypeVanish ==
  ASSUME TypeOK, NEW P \in SUBSET Product, Vanish(P)
  PROVE  /\ TypeOK'
         /\ UNCHANGED handler
         /\ steady' = [d \in Caller |-> steady[d] \ P]
         /\ cache' = [p \in Product |-> IF p \in P THEN Nothing ELSE cache[p]]
         /\ creators' = [p \in Product |-> IF p \in P THEN 0 ELSE creators[p]]
<1>1. /\ cache' = [p \in Product |-> IF p \in P THEN Nothing ELSE cache[p]]
      /\ steady' = [d \in Caller |-> steady[d] \ P]
      /\ lasts' = lasts \ P
      /\ creators' = [p \in Product |-> IF p \in P THEN 0 ELSE creators[p]]
      /\ UNCHANGED handler
      /\ UNCHANGED <<hits, misses, looked, asked>>
  BY DEF Vanish, Replace, metrics
<1>2. UNCHANGED <<pc, ids, slots, fill, reply, calls>>
  BY <1>1 DEF handler
<1>3. /\ cache' \in [Product -> Slot] /\ steady' \in [Caller -> SUBSET Product]
      /\ creators' \in [Product -> Nat]
  BY <1>1 DEF TypeOK, Slot
<1>4. /\ \A p \in Product : cache'[p] # Nothing => cache'[p].id = p
      /\ lasts' \subseteq {p \in Product : cache'[p] # Nothing}
  BY <1>1 DEF TypeOK
<1> QED BY <1>1, <1>2, <1>3, <1>4 DEF TypeOK

LEMMA TypeBulkSeed ==
  ASSUME TypeOK, NEW P \in SUBSET Product, BulkSeed(P)
  PROVE  /\ TypeOK'
         /\ UNCHANGED <<handler, creators>>
         /\ steady' = [d \in Caller |-> steady[d] \ P]
         /\ \A p \in Product : cache[p] # Nothing => cache'[p] # Nothing
<1>1. /\ cache' = [p \in Product |-> IF p \in P THEN [id |-> p] ELSE cache[p]]
      /\ steady' = [d \in Caller |-> steady[d] \ P]
      /\ lasts' = lasts \union P
      /\ UNCHANGED <<handler, creators>>
      /\ UNCHANGED <<hits, misses, looked, asked>>
  BY DEF BulkSeed, Replace, metrics
<1>2. UNCHANGED <<pc, ids, slots, fill, reply, calls>>
  BY <1>1 DEF handler
<1>3. \A p \in Product : [id |-> p] \in Value
                         /\ [id |-> p] # Nothing
  BY CatalogAssumption DEF Value
<1>4. /\ cache' \in [Product -> Slot] /\ steady' \in [Caller -> SUBSET Product]
      /\ \A p \in Product : cache'[p] # Nothing => cache'[p].id = p
  BY <1>1, <1>3 DEF TypeOK, Slot
<1>5. /\ \A p \in Product : cache[p] # Nothing \/ p \in P => cache'[p] # Nothing
      /\ lasts' \subseteq {p \in Product : cache'[p] # Nothing}
  BY <1>1, <1>3 DEF TypeOK
<1> QED BY <1>1, <1>2, <1>4, <1>5 DEF TypeOK

LEMMA TypeOthers == ASSUME TypeOK, Others PROVE TypeOK'
<1>1. ASSUME NEW p \in Product, SetTtl(p) \/ PersistKey(p) PROVE TypeOK'
  <2>1. /\ UNCHANGED <<cache, handler, metrics, creators, steady>>
        /\ lasts' \subseteq lasts \union {p} /\ cache[p] # Nothing
    BY <1>1 DEF SetTtl, PersistKey
  <2>2. UNCHANGED <<pc, ids, slots, fill, reply, calls, hits, misses, looked, asked>>
    BY <2>1 DEF handler, metrics
  <2>3. lasts' \subseteq {q \in Product : cache'[q] # Nothing}
    BY <2>1 DEF TypeOK
  <2> QED BY <2>1, <2>2, <2>3 DEF TypeOK
<1>2. ASSUME NEW p \in Product, Lapse(p) \/ DeleteKey(p) PROVE TypeOK'
  BY <1>2, TypeVanish DEF Lapse, DeleteKey
<1>3. CASE FlushNamespace
  BY <1>3, TypeVanish DEF FlushNamespace
<1>4. ASSUME NEW P \in SUBSET Product, BulkSeed(P) PROVE TypeOK'
  BY <1>4, TypeBulkSeed
<1> QED BY <1>1, <1>2, <1>3, <1>4 DEF Others

-----------------------------------------------------------------------------
(* What a handler knows at each of its control points *)

Aligned(c) ==
  /\ Len(slots[c]) = Len(ids[c])
  /\ \A i \in DOMAIN ids[c] :
       /\ slots[c][i] # Nothing => slots[c][i].id = ids[c][i]
       /\ slots[c][i] = Nothing => ids[c][i] \notin Known

Local(c) ==
  /\ pc[c] = "setNx" => SeedReady(c)
  /\ pc[c] \notin {"idle", "exists"} => reply[c].kind = "none"
  /\ pc[c] = "exists" => reply[c].kind = "seed"
  /\ pc[c] = "get" => Len(ids[c]) = 1
  \* a lookup has found nothing it could not have found
  /\ pc[c] \in {"get", "mget", "exists"} => \A p \in steady[c] : cache[p] # Nothing
  /\ pc[c] \in {"find", "findMany"} =>
       \A i \in DOMAIN ids[c] :
         /\ slots[c][i] # Nothing => slots[c][i].id = ids[c][i]
         /\ slots[c][i] = Nothing => ids[c][i] \notin steady[c]
  /\ pc[c] \in {"set", "mset"} => Aligned(c) /\ fill[c] \intersect steady[c] = {}
  /\ reply[c].kind = "read" => Aligned(c)
  /\ pc[c] = "idle" /\ reply[c].kind = "seed" /\ ~reply[c].present =>
       ids[c][1] \notin steady[c]

\* Per product, the seeds that were told they created the key.
Made == \A p \in Product : creators[p] <= 1 /\ (creators[p] = 1 => cache[p] # Nothing)

IInv == TypeOK /\ (\A c \in Caller : Local(c)) /\ Made

\* A step of somebody else, as far as caller d is concerned.
Bystander(d) ==
  /\ pc'[d] = pc[d] /\ ids'[d] = ids[d] /\ slots'[d] = slots[d]
  /\ fill'[d] = fill[d] /\ reply'[d] = reply[d]
  /\ steady'[d] \subseteq steady[d]
  /\ \A p \in steady'[d] : cache[p] # Nothing => cache'[p] # Nothing

LEMMA BystandersKeep ==
  ASSUME NEW d \in Caller, Local(d), Bystander(d)
  PROVE  Local(d)'
<1>1. Aligned(d) => Aligned(d)'
  BY DEF Bystander, Aligned
<1>2. SeedReady(d) => SeedReady(d)'
  BY DEF Bystander, SeedReady
<1> QED BY <1>1, <1>2 DEF Bystander, Local

\* A key that is still there keeps its creator.
LEMMA MadeKept ==
  ASSUME TypeOK, Made, UNCHANGED creators,
         \A p \in Product : cache[p] # Nothing => cache'[p] # Nothing
  PROVE  Made'
BY DEF Made, TypeOK

-----------------------------------------------------------------------------
(* One lemma per step of a request *)

LEMMA BeginStep ==
  ASSUME IInv, NEW c \in Caller, GetProduct(c) \/ GetProducts(c) \/ SeedProduct(c)
  PROVE  IInv'
<1>1. PICK n \in {"get", "mget", "seedFind"}, b \in Batches :
        Begin(c, n, b) /\ (n = "get" => Len(b) = 1)
  BY BatchIsSeq DEF GetProduct, GetProducts, SeedProduct
<1>2. /\ pc' = [pc EXCEPT ![c] = n] /\ ids' = [ids EXCEPT ![c] = b]
      /\ slots' = [slots EXCEPT ![c] = <<>>]
      /\ reply' = [reply EXCEPT ![c] = [kind |-> "none"]]
      /\ steady' = [steady EXCEPT ![c] = {p \in Product : cache[p] # Nothing}]
      /\ UNCHANGED <<cache, fill, creators>>
  BY <1>1 DEF Begin, Goto
<1>3. TypeOK'
  BY <1>1, TypeBegin DEF IInv
<1>4. \A d \in Caller \ {c} : Bystander(d)
  BY <1>2 DEF Bystander, IInv, TypeOK
<1>5. Local(c)'
  <2>1. /\ pc'[c] \in {"get", "mget", "seedFind"} /\ reply'[c].kind = "none"
        /\ \A p \in steady'[c] : cache'[p] # Nothing
        /\ pc'[c] = "get" => Len(ids'[c]) = 1
    BY <1>1, <1>2 DEF IInv, TypeOK
  <2> QED BY <2>1 DEF Local
<1>6. Made'
  BY <1>2, MadeKept DEF IInv
<1> QED BY <1>3, <1>4, <1>5, <1>6, BystandersKeep DEF IInv

LEMMA LookupStep ==
  ASSUME IInv, NEW c \in Caller, Get(c) \/ Mget(c)
  PROVE  IInv'
<1> DEFINE found == [i \in DOMAIN ids[c] |-> cache[ids[c][i]]]
<1>1. /\ slots' = [slots EXCEPT ![c] = found]
      /\ UNCHANGED <<cache, ids, fill, creators, steady>>
      /\ pc[c] \in {"get", "mget"}
  BY DEF Get, Mget, Lookup
<1>2. TypeOK'
  BY TypeLookup DEF IInv
<1>3. \/ /\ pc' = [pc EXCEPT ![c] = "find"] \/ pc' = [pc EXCEPT ![c] = "findMany"]
         /\ UNCHANGED reply
      \/ /\ pc[c] = "get" /\ cache[ids[c][1]] # Nothing
         /\ pc' = [pc EXCEPT ![c] = "idle"]
         /\ reply' = [reply EXCEPT ![c] = [kind |-> "read"]]
  BY DEF Get, Mget, Goto, Answer
<1>4. \A d \in Caller \ {c} : Bystander(d)
  BY <1>1, <1>3 DEF Bystander, IInv, TypeOK
<1>5. /\ Len(found) = Len(ids[c]) /\ DOMAIN found = DOMAIN ids[c]
      /\ slots'[c] = found /\ ids'[c] = ids[c]
  BY <1>1, LookupTypes DEF IInv, TypeOK
<1>6. \A i \in DOMAIN ids[c] :
        /\ ids[c][i] \in Product /\ found[i] = cache[ids[c][i]]
        /\ found[i] # Nothing => found[i].id = ids[c][i]
        /\ found[i] = Nothing => ids[c][i] \notin steady[c]
  <2>1. ids[c] \in Seq(Product)
    BY DEF IInv, TypeOK
  <2>2. \A i \in DOMAIN ids[c] : ids[c][i] \in Product
    BY <2>1
  <2>3. \A p \in steady[c] : cache[p] # Nothing
    BY <1>1 DEF IInv, Local
  <2> QED BY <2>2, <2>3 DEF IInv, TypeOK
<1>7. Local(c)'
  <2>1. CASE UNCHANGED reply /\ pc'[c] \in {"find", "findMany"}
    <3>1. reply'[c].kind = "none"
      BY <1>1, <2>1 DEF IInv, Local
    <3> QED BY <1>1, <1>5, <1>6, <2>1, <3>1 DEF Local
  <2>2. CASE /\ pc[c] = "get" /\ cache[ids[c][1]] # Nothing
             /\ pc'[c] = "idle" /\ reply'[c].kind = "read"
    <3>1. \A i \in DOMAIN ids[c] : i = 1
      BY <2>2 DEF IInv, TypeOK, Local
    <3> QED BY <1>1, <1>5, <1>6, <2>2, <3>1 DEF Local, Aligned
  <2> QED BY <1>3, <2>1, <2>2 DEF IInv, TypeOK
<1>8. Made'
  BY <1>1, MadeKept DEF IInv
<1> QED BY <1>2, <1>4, <1>7, <1>8, BystandersKeep DEF IInv

LEMMA FetchStep ==
  ASSUME IInv, NEW c \in Caller, Find(c) \/ FindMany(c)
  PROVE  IInv'
<1>1. PICK n \in {"set", "mset"} : Fetch(c, n) /\ pc[c] \in {"find", "findMany"}
  BY DEF Find, FindMany
<1>2. /\ UNCHANGED <<cache, ids, creators, steady>>
      /\ slots' = [slots EXCEPT ![c] = Merge(c)]
      /\ fill' = [fill EXCEPT ![c] = Entries(c)]
  BY <1>1 DEF Fetch
<1>3. \/ /\ pc' = [pc EXCEPT ![c] = "idle"]
         /\ reply' = [reply EXCEPT ![c] = [kind |-> "read"]]
      \/ pc' = [pc EXCEPT ![c] = n] /\ UNCHANGED reply
  BY <1>1 DEF Fetch, Goto, Answer
<1>4. TypeOK'
  BY TypeFetch DEF IInv
<1>5. \A d \in Caller \ {c} : Bystander(d)
  BY <1>2, <1>3 DEF Bystander, IInv, TypeOK
<1>6. /\ slots'[c] = Merge(c) /\ ids'[c] = ids[c] /\ fill'[c] = Entries(c)
      /\ Len(Merge(c)) = Len(ids[c]) /\ DOMAIN ids[c] = DOMAIN slots[c]
  BY <1>1, <1>2, MergeTypes DEF IInv, TypeOK
<1>7. \A i \in DOMAIN ids[c] :
        /\ ids[c][i] \in Product
        /\ slots[c][i] # Nothing => slots[c][i].id = ids[c][i]
        /\ slots[c][i] = Nothing => ids[c][i] \notin steady[c]
  <2>1. ids[c] \in Seq(Product)
    BY DEF IInv, TypeOK
  <2> QED BY <1>1, <2>1 DEF IInv, Local
<1>8. Aligned(c)'
  <2>1. \A i \in DOMAIN ids[c] :
          Merge(c)[i] = IF slots[c][i] # Nothing THEN slots[c][i] ELSE Row(ids[c][i])
    BY <1>6 DEF Merge
  <2>2. \A i \in DOMAIN ids[c] :
          /\ Merge(c)[i] # Nothing => Merge(c)[i].id = ids[c][i]
          /\ Merge(c)[i] = Nothing => ids[c][i] \notin Known
    BY <1>7, <2>1, RowOf
  <2> QED BY <1>6, <2>2 DEF Aligned
<1>9. Entries(c) \intersect steady[c] = {}
  BY <1>6, <1>7 DEF Entries, Missing
<1>10. Local(c)'
  <2>1. CASE pc'[c] = "idle" /\ reply'[c].kind = "read"
    BY <1>8, <2>1 DEF Local
  <2>2. CASE pc'[c] = n /\ UNCHANGED reply
    <3>1. reply'[c].kind = "none"
      BY <1>1, <2>2 DEF IInv, Local
    <3>2. fill'[c] \intersect steady'[c] = {}
      BY <1>2, <1>6, <1>9
    <3> QED BY <1>8, <2>2, <3>1, <3>2 DEF Local
  <2> QED BY <1>3, <2>1, <2>2 DEF IInv, TypeOK
<1>11. Made'
  BY <1>2, MadeKept DEF IInv
<1> QED BY <1>4, <1>5, <1>10, <1>11, BystandersKeep DEF IInv

LEMMA SetStep ==
  ASSUME IInv, NEW c \in Caller, Set(c)
  PROVE  IInv'
<1>1. /\ WriteBack(c) /\ pc[c] \in {"set", "mset"}
      /\ pc' = [pc EXCEPT ![c] = "idle"]
      /\ reply' = [reply EXCEPT ![c] = [kind |-> "read"]]
      /\ fill' = [fill EXCEPT ![c] = {}]
      /\ UNCHANGED <<ids, slots>>
  BY DEF Set, Answer, Goto
<1>2. /\ steady' = [d \in Caller |-> steady[d] \ fill[c]]
      /\ \A p \in Product : cache[p] # Nothing => cache'[p] # Nothing
      /\ UNCHANGED creators
  BY <1>1, ReplaceRow DEF IInv
<1>3. TypeOK'
  BY TypeSet DEF IInv
<1>4. \A d \in Caller \ {c} : Bystander(d)
  BY <1>1, <1>2 DEF Bystander, IInv, TypeOK
<1>5. Local(c)'
  <2>1. Aligned(c)
    BY <1>1 DEF IInv, Local
  <2>2. Aligned(c)'
    BY <1>1, <2>1 DEF Aligned
  <2>3. pc'[c] = "idle" /\ reply'[c].kind = "read"
    BY <1>1 DEF IInv, TypeOK
  <2> QED BY <2>2, <2>3 DEF Local
<1>6. Made'
  BY <1>2, MadeKept DEF IInv
<1> QED BY <1>3, <1>4, <1>5, <1>6, BystandersKeep DEF IInv

LEMMA SeedFindStep ==
  ASSUME IInv, NEW c \in Caller, SeedFind(c)
  PROVE  IInv'
<1>1. /\ pc[c] = "seedFind" /\ pc' = [pc EXCEPT ![c] = "setNx"]
      /\ slots' = [slots EXCEPT ![c] = <<[id |-> ids[c][1]]>>]
      /\ UNCHANGED <<cache, ids, fill, reply, creators, steady>>
  BY DEF SeedFind, Goto
<1>2. TypeOK' /\ SeedReady(c)'
  BY <1>1, TypeSeedFind DEF IInv, SeedReady
<1>3. \A d \in Caller \ {c} : Bystander(d)
  BY <1>1 DEF Bystander, IInv, TypeOK
<1>4. Local(c)'
  <2>1. pc'[c] = "setNx" /\ reply'[c].kind = "none"
    BY <1>1 DEF IInv, TypeOK, Local
  <2> QED BY <1>2, <2>1 DEF Local
<1>5. Made'
  BY <1>1, MadeKept DEF IInv
<1> QED BY <1>2, <1>3, <1>4, <1>5, BystandersKeep DEF IInv

LEMMA SetNxStep ==
  ASSUME IInv, NEW c \in Caller, SetNx(c)
  PROVE  IInv'
<1> DEFINE q == ids[c][1]
<1>1. /\ pc[c] = "setNx" /\ WriteSeed(c) /\ pc' = [pc EXCEPT ![c] = "exists"]
      /\ creators' = [creators EXCEPT ![q] = IF IsCreated(c) THEN @ + 1 ELSE @]
      /\ steady' = [steady EXCEPT ![c] = {q}]
      /\ reply' = [reply EXCEPT ![c] =
                     [kind |-> "seed", created |-> IsCreated(c), present |-> FALSE]]
      /\ UNCHANGED <<ids, slots, fill>>
  BY DEF SetNx, Goto
<1>2. SeedReady(c)
  BY <1>1 DEF IInv, Local
<1>3. TypeOK'
  BY <1>2, TypeSetNx DEF IInv
<1>4. /\ q \in Product /\ cache'[q] # Nothing
      /\ \A p \in Product : cache[p] # Nothing => cache'[p] # Nothing
  BY <1>1, <1>2, SeedWrites DEF IInv
<1>5. \A d \in Caller \ {c} : Bystander(d)
  BY <1>1, <1>4 DEF Bystander, IInv, TypeOK
<1>6. Local(c)'
  <2>1. /\ pc'[c] = "exists" /\ reply'[c].kind = "seed"
        /\ \A p \in steady'[c] : cache'[p] # Nothing
    BY <1>1, <1>4 DEF IInv, TypeOK
  <2> QED BY <2>1 DEF Local
<1>7. Made'
  <2> SUFFICES ASSUME NEW p \in Product
               PROVE  creators'[p] <= 1 /\ (creators'[p] = 1 => cache'[p] # Nothing)
    BY DEF Made
  <2>1. CASE p = q
    <3>1. IsCreated(c) => creators[q] = 0
      BY <1>4 DEF IInv, Made, TypeOK, IsCreated
    <3>2. creators'[q] <= 1
      BY <1>1, <1>4, <3>1 DEF IInv, Made, TypeOK
    <3> QED BY <1>4, <2>1, <3>2
  <2>2. CASE p # q
    BY <1>1, <1>4, <2>2 DEF IInv, Made, TypeOK
  <2> QED BY <2>1, <2>2
<1> QED BY <1>3, <1>5, <1>6, <1>7, BystandersKeep DEF IInv

LEMMA ExistsStep ==
  ASSUME IInv, NEW c \in Caller, Exists(c)
  PROVE  IInv'
<1>1. /\ pc[c] = "exists" /\ pc' = [pc EXCEPT ![c] = "idle"]
      /\ reply' = [reply EXCEPT ![c] = [reply[c] EXCEPT !.present = IsPresent(c)]]
      /\ UNCHANGED <<cache, ids, slots, fill, creators, steady>>
  BY DEF Exists, Answer, Goto
<1>2. reply[c].kind = "seed" /\ \A p \in steady[c] : cache[p] # Nothing
  BY <1>1 DEF IInv, Local
<1>3. TypeOK'
  BY <1>2, TypeExists DEF IInv
<1>4. \A d \in Caller \ {c} : Bystander(d)
  BY <1>1 DEF Bystander, IInv, TypeOK
<1>5. Local(c)'
  <2>1. reply[c] \in [kind : {"seed"}, created : BOOLEAN, present : BOOLEAN]
    BY <1>2 DEF IInv, TypeOK, Replies
  <2>2. reply'[c].kind = "seed" /\ reply'[c].present = IsPresent(c) /\ pc'[c] = "idle"
    BY <1>1, <2>1 DEF IInv, TypeOK
  <2>3. ids[c][1] \in steady[c] => IsPresent(c)
    BY <1>2 DEF IsPresent
  <2>4. ~reply'[c].present => ids'[c][1] \notin steady'[c]
    BY <1>1, <2>2, <2>3
  <2> QED BY <2>2, <2>4 DEF Local
<1>6. Made'
  BY <1>1, MadeKept DEF IInv
<1> QED BY <1>3, <1>4, <1>5, <1>6, BystandersKeep DEF IInv

LEMMA FailStep ==
  ASSUME IInv, NEW c \in Caller, Fail(c)
  PROVE  IInv'
<1>1. /\ pc' = [pc EXCEPT ![c] = "idle"]
      /\ reply' = [reply EXCEPT ![c] = [kind |-> "failed"]]
      /\ ids' = [ids EXCEPT ![c] = <<>>] /\ slots' = [slots EXCEPT ![c] = <<>>]
      /\ fill' = [fill EXCEPT ![c] = {}]
  BY DEF Fail, Answer, Goto
<1>2. pc[c] = "setNx" => SeedReady(c)
  BY DEF IInv, Local
<1>3. TypeOK'
  BY <1>2, TypeFail DEF IInv
<1>4. /\ UNCHANGED creators
      /\ \A p \in Product : cache[p] # Nothing => cache'[p] # Nothing
      /\ \A d \in Caller : steady'[d] \subseteq steady[d]
  <2>1. CASE pc[c] \in {"set", "mset"} /\ WriteBack(c)
    BY <2>1, ReplaceRow DEF IInv
  <2>2. CASE pc[c] = "setNx" /\ WriteSeed(c) /\ UNCHANGED <<creators, steady>>
    BY <1>2, <2>2, SeedWrites DEF IInv
  <2>3. CASE UNCHANGED <<cache, lasts, creators, steady>>
    BY <2>3
  <2> QED BY <2>1, <2>2, <2>3 DEF Fail
<1>5. \A d \in Caller \ {c} : Bystander(d)
  BY <1>1, <1>4 DEF Bystander, IInv, TypeOK
<1>6. Local(c)'
  <2>1. pc'[c] = "idle" /\ reply'[c].kind = "failed"
    BY <1>1 DEF IInv, TypeOK
  <2> QED BY <2>1 DEF Local
<1>7. Made'
  BY <1>4, MadeKept DEF IInv
<1> QED BY <1>3, <1>5, <1>6, <1>7, BystandersKeep DEF IInv

\* The other clients move no handler; they may remove keys and replace them.
LEMMA OthersStep ==
  ASSUME IInv, Others
  PROVE  IInv'
<1>1. TypeOK'
  BY TypeOthers DEF IInv
<1>2. (\A d \in Caller : Bystander(d)) /\ Made'
  <2>1. ASSUME NEW p \in Product, SetTtl(p) \/ PersistKey(p)
        PROVE  (\A d \in Caller : Bystander(d)) /\ Made'
    <3>1. UNCHANGED <<cache, handler, creators, steady>>
      BY <2>1 DEF SetTtl, PersistKey
    <3>2. \A d \in Caller : Bystander(d)
      BY <3>1 DEF handler, Bystander
    <3>3. Made'
      BY <3>1, MadeKept DEF IInv
    <3> QED BY <3>2, <3>3
  <2>2. ASSUME NEW P \in SUBSET Product, Vanish(P)
        PROVE  (\A d \in Caller : Bystander(d)) /\ Made'
    <3>1. /\ UNCHANGED handler
          /\ steady' = [d \in Caller |-> steady[d] \ P]
          /\ cache' = [p \in Product |-> IF p \in P THEN Nothing ELSE cache[p]]
          /\ creators' = [p \in Product |-> IF p \in P THEN 0 ELSE creators[p]]
      BY <2>2, TypeVanish DEF IInv
    <3>2. \A d \in Caller : Bystander(d)
      BY <3>1 DEF handler, Bystander, IInv, TypeOK
    <3>3. Made'
      BY <3>1 DEF Made, IInv, TypeOK
    <3> QED BY <3>2, <3>3
  <2>3. ASSUME NEW P \in SUBSET Product, BulkSeed(P)
        PROVE  (\A d \in Caller : Bystander(d)) /\ Made'
    <3>1. /\ UNCHANGED <<handler, creators>>
          /\ steady' = [d \in Caller |-> steady[d] \ P]
          /\ \A p \in Product : cache[p] # Nothing => cache'[p] # Nothing
      BY <2>3, TypeBulkSeed DEF IInv
    <3>2. \A d \in Caller : Bystander(d)
      BY <3>1 DEF handler, Bystander, IInv, TypeOK
    <3>3. Made'
      BY <3>1, MadeKept DEF IInv
    <3> QED BY <3>2, <3>3
  <2> QED BY <2>1, <2>2, <2>3 DEF Others, Lapse, DeleteKey, FlushNamespace
<1> QED BY <1>1, <1>2, BystandersKeep DEF IInv

-----------------------------------------------------------------------------
(* The theorems *)

LEMMA InitInv == Init => IInv
<1> SUFFICES ASSUME Init PROVE IInv
  OBVIOUS
<1>1. TypeOK
  BY TypeInit
<1>2. /\ \A c \in Caller : pc[c] = "idle" /\ reply[c].kind = "none"
      /\ \A p \in Product : creators[p] = 0
  BY DEF Init
<1>3. ASSUME NEW c \in Caller PROVE Local(c)
  BY <1>2 DEF Local
<1> QED BY <1>1, <1>2, <1>3 DEF IInv, Made

LEMMA StutterInv == IInv /\ UNCHANGED vars => IInv'
<1> SUFFICES ASSUME IInv, UNCHANGED vars PROVE IInv'
  OBVIOUS
<1>1. /\ UNCHANGED <<cache, lasts, pc, ids, slots, fill, reply, calls, creators, steady>>
      /\ UNCHANGED <<hits, misses, looked, asked>>
  BY DEF vars, handler, metrics
<1>2. TypeOK'
  BY <1>1 DEF IInv, TypeOK
<1>3. \A d \in Caller : Bystander(d)
  BY <1>1 DEF Bystander
<1>4. Made'
  BY <1>1, MadeKept DEF IInv
<1> QED BY <1>2, <1>3, <1>4, BystandersKeep DEF IInv

LEMMA StepInv == IInv /\ [Next]_vars => IInv'
<1> SUFFICES ASSUME IInv, [Next]_vars PROVE IInv'
  OBVIOUS
<1>1. ASSUME NEW c \in Caller, GetProduct(c) \/ GetProducts(c) \/ SeedProduct(c)
      PROVE  IInv'
  BY <1>1, BeginStep
<1>2. ASSUME NEW c \in Caller, Handle(c) PROVE IInv'
  BY <1>2, LookupStep, FetchStep, SetStep, SeedFindStep, SetNxStep, ExistsStep, FailStep
     DEF Handle
<1>3. CASE Others
  BY <1>3, OthersStep
<1>4. CASE UNCHANGED vars
  BY <1>4, StutterInv
<1> QED BY <1>1, <1>2, <1>3, <1>4 DEF Next, Others

\* Everything a handler knows at its control points stays true while the
\* other handlers and the other clients of its keys run.
THEOREM Invariant == Spec => []IInv
BY InitInv, StepInv, PTL DEF Spec

\* Redis, the handlers of CatalogService and the counters of MetricsService
\* keep the shape their types declare.
THEOREM TypeCorrect == Spec => []TypeOK
<1>1. IInv => TypeOK
  BY DEF IInv
<1> QED BY <1>1, Invariant, PTL

\* Of any number of overlapping seedProduct calls at most one is told that it
\* created the key, until the key vanishes.
THEOREM OneCreatorHolds == Spec => []OneCreator
<1>1. IInv => OneCreator
  BY DEF IInv, Made, OneCreator
<1> QED BY <1>1, Invariant, PTL

\* A seedProduct answer that reports the key absent is explained by a removal
\* between its setNx and its exists.
THEOREM SeedNeverMisleadsHolds == Spec => []SeedNeverMisleads
<1>1. IInv => SeedNeverMisleads
  BY DEF IInv, Local, SeedNeverMisleads
<1> QED BY <1>1, Invariant, PTL

\* The answers of getProduct and getProducts are aligned with their ids, and
\* null only where neither the cache nor the origin had a value.
THEOREM BatchAlignedHolds == Spec => []BatchAligned
<1>1. IInv => BatchAligned
  BY DEF IInv, Local, Aligned, BatchAligned
<1> QED BY <1>1, Invariant, PTL

\* The write-back of a read replaces no entry that was there throughout.
THEOREM ReadsSpareHolds == Spec => []ReadsSpareWhatTheySaw
<1>1. IInv => ReadsSpareWhatTheySaw
  BY DEF IInv, Local, ReadsSpareWhatTheySaw
<1> QED BY <1>1, Invariant, PTL

-----------------------------------------------------------------------------
(* What the reads under way owe the origin *)

Meters == IsFiniteSet(Owed) /\ MissesPayOrigin

LEMMA OwedPairs ==
  \A c, i : <<c, i>> \in Owed <=>
    c \in Caller /\ pc[c] \in {"find", "findMany"} /\ i \in Missing(c)
PROOF BY DEF Owed

LEMMA OwedIsPairs == \A x \in Owed : x = <<x[1], x[2]>>
PROOF BY DEF Owed

\* The ids a caller has missed are finitely many, and so are the pairs of them.
LEMMA MissingFinite ==
  ASSUME NEW s \in Seq(Slot), NEW c
  PROVE  LET M == {i \in DOMAIN s : s[i] = Nothing}
         IN  /\ IsFiniteSet({c} \X M) /\ Cardinality({c} \X M) = Cardinality(M)
             /\ Cardinality(M) \in Nat
<1> DEFINE M == {i \in DOMAIN s : s[i] = Nothing}
<1>1. DOMAIN s = 1..Len(s) /\ Len(s) \in Nat
  OBVIOUS
<1>2. IsFiniteSet(DOMAIN s)
  BY <1>1, FS_Interval
<1>3. IsFiniteSet(M) /\ Cardinality(M) \in Nat
  BY <1>2, FS_Subset, FS_CardinalityType
<1>4. IsFiniteSet({c}) /\ Cardinality({c}) = 1
  BY FS_Singleton
<1> HIDE DEF M
<1>5. IsFiniteSet({c} \X M) /\ Cardinality({c} \X M) = 1 * Cardinality(M)
  BY <1>3, <1>4, FS_Product
<1> QED BY <1>3, <1>5 DEF M

\* A step that leaves the handlers and the meters of the others alone, and neither
\* begins nor ends what its own caller owes.
LEMMA OwedStands ==
  ASSUME Meters, UNCHANGED <<hits, misses, looked, asked>>,
         \A c \in Caller : pc[c] \in {"find", "findMany"} <=> pc'[c] \in {"find", "findMany"},
         \A c \in Caller : pc[c] \in {"find", "findMany"} => slots'[c] = slots[c]
  PROVE  Meters'
<1>1. \A c \in Caller : pc[c] \in {"find", "findMany"} => Missing(c)' = Missing(c)
  BY DEF Missing
<1>2. {d \in Caller : pc[d] \in {"find", "findMany"}}' = {d \in Caller : pc[d] \in {"find", "findMany"}}
  OBVIOUS
<1>3. Owed' = Owed
  BY <1>1, <1>2 DEF Owed
<1> QED BY <1>3 DEF Meters, MissesPayOrigin

LEMMA LookupMeters ==
  ASSUME IInv, Meters, NEW c \in Caller, Get(c) \/ Mget(c)
  PROVE  Meters'
<1> DEFINE found == [i \in DOMAIN ids[c] |-> cache[ids[c][i]]]
           M == {i \in DOMAIN found : found[i] = Nothing}
<1>1. /\ slots' = [slots EXCEPT ![c] = found] /\ Record(found)
      /\ looked' = looked + Len(found) /\ UNCHANGED <<ids, asked>>
      /\ pc[c] \in {"get", "mget"}
  BY DEF Get, Mget, Lookup
<1>2. found \in Seq(Slot) /\ Len(found) = Len(ids[c]) /\ DOMAIN found = DOMAIN ids[c]
      /\ Len(found) \in Nat
  BY <1>1, LookupTypes DEF IInv
<1>3. /\ IsFiniteSet({c} \X M) /\ Cardinality({c} \X M) = Cardinality(M)
      /\ Cardinality(M) \in Nat
  BY <1>2, MissingFinite
<1>4. misses' = misses + Cardinality(M) /\ hits' = hits + Len(found) - Cardinality(M)
  BY <1>1 DEF Record
<1>5. \/ pc' = [pc EXCEPT ![c] = "find"] \/ pc' = [pc EXCEPT ![c] = "findMany"]
      \/ /\ pc[c] = "get" /\ cache[ids[c][1]] # Nothing
         /\ pc' = [pc EXCEPT ![c] = "idle"]
  BY DEF Get, Mget, Goto, Answer
<1>6. /\ DOMAIN pc = Caller /\ DOMAIN slots = Caller /\ pc' = [d \in Caller |-> pc'[d]]
      /\ {hits, misses, looked, asked} \subseteq Nat
  BY <1>5 DEF IInv, TypeOK
<1>7. slots'[c] = found /\ \A d \in Caller : d # c => slots'[d] = slots[d] /\ pc'[d] = pc[d]
  BY <1>1, <1>5, <1>6
<1>8. Missing(c)' = M
  BY <1>7 DEF Missing
<1> HIDE DEF found, M
<1>9. \A d \in Caller : d # c => Missing(d)' = Missing(d)
  BY <1>7 DEF Missing
<1>10. pc'[c] \notin {"find", "findMany"} => M = {}
  <2>1. SUFFICES ASSUME pc[c] = "get", cache[ids[c][1]] # Nothing PROVE M = {}
    BY <1>5, <1>6
  <2>2. \A i \in DOMAIN ids[c] : i = 1
    BY <2>1 DEF IInv, TypeOK, Local
  <2> QED BY <1>2, <2>1, <2>2 DEF M, found
<1>11. Owed' = Owed \union ({c} \X M)
  <2>1. ASSUME NEW d, NEW i
        PROVE  <<d, i>> \in Owed' <=> <<d, i>> \in Owed \/ (d = c /\ i \in M)
    <3>1. <<d, i>> \in Owed' <=>
            d \in Caller /\ pc'[d] \in {"find", "findMany"} /\ i \in Missing(d)'
      BY DEF Owed
    <3>2. <<d, i>> \in Owed <=> d \in Caller /\ pc[d] \in {"find", "findMany"} /\ i \in Missing(d)
      BY OwedPairs
    <3>3. CASE d = c
      BY <1>1, <1>8, <1>10, <3>1, <3>2, <3>3
    <3>4. CASE d # c
      BY <1>7, <1>9, <3>1, <3>2, <3>4
    <3> QED BY <3>3, <3>4
  <2>2. \A x \in Owed' : x = <<x[1], x[2]>>
    BY DEF Owed
  <2>3. \A x : x \in Owed' <=> x \in Owed \union ({c} \X M)
    BY <2>1, <2>2, OwedIsPairs
  <2> QED BY <2>3
<1>12. Owed \intersect ({c} \X M) = {}
  <2>1. \A x \in Owed : x[1] # c
    BY <1>1, OwedPairs, OwedIsPairs
  <2> QED BY <2>1
<1>13. IsFiniteSet(Owed') /\ Cardinality(Owed') = Cardinality(Owed) + Cardinality(M)
  <2>1. Cardinality(Owed) \in Nat /\ Cardinality({}) = 0
    BY FS_CardinalityType, FS_EmptySet DEF Meters
  <2>2. PICK X : X = {c} \X M
    OBVIOUS
  <2>3. IsFiniteSet(Owed) /\ IsFiniteSet(X) /\ Cardinality(X) = Cardinality(M)
    BY <1>3, <2>2 DEF Meters
  <2>4. /\ IsFiniteSet(Owed \union X)
        /\ Cardinality(Owed \union X) = Cardinality(Owed) + Cardinality(X) - Cardinality(Owed \intersect X)
    BY <2>3, FS_Union
  <2>5. Cardinality(Owed \intersect X) = 0 /\ Cardinality(X) \in Nat
    BY <1>3, <1>12, <2>1, <2>2, <2>3
  <2>6. Cardinality(Owed \union X) = Cardinality(Owed) + Cardinality(X)
    BY <2>1, <2>4, <2>5
  <2>7. Owed' = Owed \union X
    BY <1>11, <2>2
  <2> QED BY <2>3, <2>4, <2>6, <2>7
<1>14. Cardinality(Owed) \in Nat
  BY FS_CardinalityType DEF Meters
<1>15. misses = asked + Cardinality(Owed) /\ hits + misses = looked
  BY DEF Meters, MissesPayOrigin
<1>16. misses' = asked' + Cardinality(Owed') /\ hits' + misses' = looked'
  <2>1. hits \in Nat /\ misses \in Nat /\ looked \in Nat /\ asked \in Nat
    BY <1>6
  <2>2. PICK m \in Nat : m = Cardinality(M)
    BY <1>3
  <2>3. PICK k \in Nat : k = Len(found)
    BY <1>2
  <2>4. /\ misses' = misses + m /\ hits' = hits + k - m /\ looked' = looked + k /\ asked' = asked
        /\ Cardinality(Owed') = Cardinality(Owed) + m
    BY <1>1, <1>4, <1>13, <2>2, <2>3
  <2> QED BY <1>14, <1>15, <2>1, <2>4
<1> QED BY <1>13, <1>16 DEF Meters, MissesPayOrigin

LEMMA FetchMeters ==
  ASSUME IInv, Meters, NEW c \in Caller, Find(c) \/ FindMany(c)
  PROVE  Meters'
<1> DEFINE M == Missing(c)
<1>1. PICK n \in {"set", "mset"} : Fetch(c, n) /\ pc[c] \in {"find", "findMany"}
  BY DEF Find, FindMany
<1>2. /\ slots' = [slots EXCEPT ![c] = Merge(c)] /\ asked' = asked + Cardinality(M)
      /\ UNCHANGED <<hits, misses, looked>>
      /\ pc' = [pc EXCEPT ![c] = "idle"] \/ pc' = [pc EXCEPT ![c] = n]
  BY <1>1 DEF Fetch, Goto, Answer
<1>3. /\ slots \in [Caller -> Seq(Slot)] /\ pc \in [Caller -> Points]
      /\ {hits, misses, looked, asked} \subseteq Nat
  BY DEF IInv, TypeOK, Points
<1>4. /\ IsFiniteSet({c} \X M) /\ Cardinality({c} \X M) = Cardinality(M)
      /\ Cardinality(M) \in Nat
  BY <1>3, MissingFinite DEF Missing
<1>5. /\ pc'[c] \notin {"find", "findMany"}
      /\ \A d \in Caller : d # c => slots'[d] = slots[d] /\ pc'[d] = pc[d]
  BY <1>2, <1>3
<1>6. \A d \in Caller : d # c => Missing(d)' = Missing(d)
  BY <1>5 DEF Missing
<1> HIDE DEF M
<1>7. Owed' = Owed \ ({c} \X M)
  <2>1. ASSUME NEW d, NEW i
        PROVE  <<d, i>> \in Owed' <=> <<d, i>> \in Owed /\ ~(d = c /\ i \in M)
    <3>1. <<d, i>> \in Owed' <=>
            d \in Caller /\ pc'[d] \in {"find", "findMany"} /\ i \in Missing(d)'
      BY DEF Owed
    <3>2. <<d, i>> \in Owed <=> d \in Caller /\ pc[d] \in {"find", "findMany"} /\ i \in Missing(d)
      BY OwedPairs
    <3>3. CASE d = c
      BY <1>5, <3>1, <3>2, <3>3 DEF M
    <3>4. CASE d # c
      BY <1>5, <1>6, <3>1, <3>2, <3>4
    <3> QED BY <3>3, <3>4
  <2>2. \A x \in Owed' : x = <<x[1], x[2]>>
    BY DEF Owed
  <2>3. \A x : x \in Owed' <=> x \in Owed \ ({c} \X M)
    BY <2>1, <2>2, OwedIsPairs
  <2> QED BY <2>3
<1>8. Owed \intersect ({c} \X M) = {c} \X M
  <2>1. \A i \in M : <<c, i>> \in Owed
    BY <1>1, OwedPairs DEF M
  <2> QED BY <2>1
<1>9. IsFiniteSet(Owed') /\ Cardinality(Owed') = Cardinality(Owed) - Cardinality(M)
  <2>1. PICK X : X = {c} \X M
    OBVIOUS
  <2>2. IsFiniteSet(Owed) /\ Owed' = Owed \ X /\ Owed \intersect X = X
    BY <1>7, <1>8, <2>1 DEF Meters
  <2>3. /\ IsFiniteSet(Owed \ X)
        /\ Cardinality(Owed \ X) = Cardinality(Owed) - Cardinality(Owed \intersect X)
    BY <2>2, FS_Difference
  <2>4. Cardinality(Owed \intersect X) = Cardinality(M)
    BY <1>4, <2>1, <2>2
  <2> QED BY <2>2, <2>3, <2>4
<1>10. Cardinality(Owed) \in Nat
  BY FS_CardinalityType DEF Meters
<1>11. misses = asked + Cardinality(Owed) /\ hits + misses = looked
  BY DEF Meters, MissesPayOrigin
<1>12. misses' = asked' + Cardinality(Owed') /\ hits' + misses' = looked'
  BY <1>2, <1>3, <1>4, <1>9, <1>10, <1>11
<1> QED BY <1>9, <1>12 DEF Meters, MissesPayOrigin

LEMMA MetersInit == Init => Meters
<1> SUFFICES ASSUME Init PROVE Meters
  OBVIOUS
<1>1. Owed = {}
  BY DEF Owed, Init
<1> QED BY <1>1, FS_EmptySet DEF Init, Meters, MissesPayOrigin

LEMMA MetersNext == IInv /\ Meters /\ [Next]_vars => Meters'
<1> SUFFICES ASSUME IInv, Meters, [Next]_vars PROVE Meters'
  OBVIOUS
<1>1. DOMAIN pc = Caller /\ DOMAIN slots = Caller
  BY DEF IInv, TypeOK
<1>2. ASSUME NEW c \in Caller, GetProduct(c) \/ GetProducts(c) \/ SeedProduct(c) PROVE Meters'
  <2>1. PICK n \in {"get", "mget", "seedFind"} : \E b \in Batches : Begin(c, n, b)
    BY <1>2, BatchIsSeq DEF GetProduct, GetProducts, SeedProduct
  <2>2. /\ pc[c] = "idle" /\ pc' = [pc EXCEPT ![c] = n] /\ slots' = [slots EXCEPT ![c] = <<>>]
        /\ UNCHANGED <<hits, misses, looked, asked>>
    BY <2>1 DEF Begin, Goto, metrics
  <2> QED BY <1>1, <2>2, OwedStands
<1>3. ASSUME NEW c \in Caller, SeedFind(c) \/ SetNx(c) \/ Exists(c) \/ Set(c) \/ Fail(c) PROVE Meters'
  <2>1. /\ UNCHANGED <<hits, misses, looked, asked>>
        /\ pc[c] \notin {"find", "findMany"}
        /\ \/ pc' = [pc EXCEPT ![c] = "setNx"] \/ pc' = [pc EXCEPT ![c] = "exists"]
           \/ pc' = [pc EXCEPT ![c] = "idle"]
    BY <1>3 DEF SeedFind, SetNx, Exists, Set, Fail, Goto, Answer, metrics, Commands
  <2>2. \A d \in Caller : d # c => slots'[d] = slots[d]
    BY <1>1, <1>3 DEF SeedFind, SetNx, Exists, Set, Fail
  <2> QED BY <1>1, <2>1, <2>2, OwedStands
<1>4. ASSUME NEW c \in Caller, Get(c) \/ Mget(c) PROVE Meters'
  BY <1>4, LookupMeters
<1>5. ASSUME NEW c \in Caller, Find(c) \/ FindMany(c) PROVE Meters'
  BY <1>5, FetchMeters
<1>6. CASE Others \/ UNCHANGED vars
  <2>1. UNCHANGED <<pc, slots, hits, misses, looked, asked>>
    BY <1>6 DEF Others, SetTtl, PersistKey, Lapse, DeleteKey, FlushNamespace, Vanish, BulkSeed,
                handler, metrics, vars
  <2> QED BY <2>1, OwedStands
<1> QED BY <1>2, <1>3, <1>4, <1>5, <1>6 DEF Next, Handle, Others

\* Catalog.MissesPayOrigin, catalog.service.ts, metrics.service.ts: one hit or miss per
\* id looked up, and one row asked of the origin per miss.
THEOREM MissesPayOriginHolds == Spec => []MissesPayOrigin
<1>1. Init => IInv /\ Meters
  BY InitInv, MetersInit
<1>2. (IInv /\ Meters) /\ [Next]_vars => (IInv /\ Meters)'
  BY StepInv, MetersNext
<1>3. IInv /\ Meters => MissesPayOrigin
  BY DEF Meters
<1> QED BY <1>1, <1>2, <1>3, PTL DEF Spec

-----------------------------------------------------------------------------
(* The playground: one operation of a card at a time, and what it was told *)

\* An operation under way is the card's last click, and newer than what it shows.
OneAtATime ==
  \A c \in Card :
    /\ isPending[c] <=> ops[c] # {}
    /\ \A o, p \in ops[c] : o = p
    /\ \A o \in ops[c] : o.click = clicks[c] /\ newest[c] < clicks[c]
    /\ outcome[c].click = newest[c] /\ newest[c] <= clicks[c]

\* A listing of tags of card c, under way or shown, with the members mem of the sets
\* and the listings mix whose set changed.
ListingTrue(c, o, mem, mix) ==
  /\ o.at = "listed" =>
       o.op = "smembers" /\ (<<c, o.click>> \notin mix => o.reply.listed = mem[<<"tags", o.id>>])
  /\ o.at = "replied" /\ o.op = "smembers" /\ <<c, o.click>> \notin mix =>
       o.reply.n = Cardinality(o.reply.listed)
ShownTrue(c, r, mix) ==
  r # NoOutcome /\ r.op = "smembers" /\ <<c, r.click>> \notin mix =>
    r.reply.n = Cardinality(r.reply.listed)

ListingsTrue ==
  \A c \in Card : /\ \A o \in ops[c] : ListingTrue(c, o, members, mixed)
                  /\ ShownTrue(c, outcome[c], mixed)

\* Card c has been told n for an increment of counter i.
Tells(o, i, n) == o.op \in Increments /\ o.id = i /\ o.reply.n = n
Told(c, i, n) == \/ outcome[c] # NoOutcome /\ Tells(outcome[c], i, n)
                 \/ \E o \in ops[c] : o.at = "replied" /\ Tells(o, i, n)

TicketsDiffer ==
  ~recounted => \A c \in Card, i \in Id, n \in Int : Told(c, i, n) =>
    /\ n <= views[i]
    /\ \A d \in Card : Told(d, i, n) => d = c

PlayInv ==
  /\ PlayTypeOK
  /\ \A x \in Collection \X Id : IsFiniteSet(members[x])
  /\ OneAtATime
  /\ ListingsTrue
  /\ TicketsDiffer

\* The operation under way is the card's only one.
LEMMA TheOperation ==
  ASSUME PlayInv, NEW c \in Card, NEW o \in ops[c]
  PROVE  ops[c] = {o} /\ o \in Running
PROOF BY DEF PlayInv, OneAtATime, PlayTypeOK

LEMMA MovesOn ==
  ASSUME PlayInv, NEW c \in Card, NEW o \in ops[c], NEW at \in {"listed", "replied"},
         NEW answer \in Reply, Moves(c, o, at, answer)
  PROVE  \E q \in Running :
           /\ q.at = at /\ q.click = o.click /\ q.op = o.op /\ q.id = o.id /\ q.reply = answer
           /\ ops' = [ops EXCEPT ![c] = {q}]
<1>1. ops[c] = {o} /\ o \in Running /\ ops \in [Card -> SUBSET Running]
  BY TheOperation DEF PlayInv, PlayTypeOK
<1>2. PICK q : q = [o EXCEPT !.at = at, !.reply = answer]
  OBVIOUS
<1>3. /\ q \in Running /\ q.at = at /\ q.click = o.click /\ q.op = o.op /\ q.id = o.id
      /\ q.reply = answer
  BY <1>1, <1>2 DEF Running
<1>4. ops' = [ops EXCEPT ![c] = {q}]
  <2>1. ops' = [ops EXCEPT ![c] = (ops[c] \ {o}) \union {q}]
    BY <1>2 DEF Moves
  <2>2. (ops[c] \ {o}) \union {q} = {q}
    BY <1>1
  <2> QED BY <2>1, <2>2
<1> QED BY <1>3, <1>4

\* A step that moves the operation of one card keeps the cards in order.
LEMMA MovesOneAtATime ==
  ASSUME PlayInv, NEW c \in Card, NEW o \in ops[c], NEW q \in Running, q.click = o.click,
         ops' = [ops EXCEPT ![c] = {q}], UNCHANGED <<isPending, outcome, clicks, newest>>
  PROVE  OneAtATime' /\ ops' \in [Card -> SUBSET Running]
<1>1. ops \in [Card -> SUBSET Running]
  BY DEF PlayInv, PlayTypeOK
<1>2. ops' \in [Card -> SUBSET Running] /\ ops'[c] = {q} /\ \A d \in Card : d # c => ops'[d] = ops[d]
  BY <1>1
<1>3. OneAtATime /\ o.click = clicks[c]
  BY DEF PlayInv, OneAtATime
<1>4. ASSUME NEW d \in Card
      PROVE  /\ isPending'[d] <=> ops'[d] # {}
             /\ \A p, r \in ops'[d] : p = r
             /\ \A p \in ops'[d] : p.click = clicks'[d] /\ newest'[d] < clicks'[d]
             /\ outcome'[d].click = newest'[d] /\ newest'[d] <= clicks'[d]
  BY <1>2, <1>3 DEF OneAtATime
<1> QED BY <1>2, <1>4 DEF OneAtATime

\* Listings keep being true when only listings that changed lose their set.
LEMMA ListingsStand ==
  ASSUME PlayInv, NEW c \in Card, NEW o \in ops[c], mixed \subseteq mixed',
         o.at = "listed" /\ <<c, o.click>> \notin mixed' =>
           members'[<<"tags", o.id>>] = members[<<"tags", o.id>>]
  PROVE  ListingTrue(c, o, members', mixed')
PROOF BY DEF PlayInv, ListingsTrue, ListingTrue

LEMMA ShownStands ==
  ASSUME PlayInv, NEW c \in Card, mixed \subseteq mixed'
  PROVE  ShownTrue(c, outcome[c], mixed')
PROOF BY DEF PlayInv, ListingsTrue, ShownTrue

LEMMA TicketsStand ==
  ASSUME PlayInv, UNCHANGED <<views, recounted>>,
         \A d \in Card, i \in Id, n \in Int : Told(d, i, n)' => Told(d, i, n)
  PROVE  TicketsDiffer'
PROOF BY DEF PlayInv, TicketsDiffer

\* An operation that is no increment moves on.
LEMMA MovesInv ==
  ASSUME PlayInv, NEW c \in Card, NEW o \in ops[c], NEW at \in {"listed", "replied"},
         NEW answer \in Reply, Moves(c, o, at, answer), o.op \notin Increments,
         UNCHANGED <<kindOf, views, isPending, outcome, clicks, newest, recounted>>,
         stock' \in [Id -> Int], members' \in [Collection \X Id -> SUBSET Member],
         \A x \in Collection \X Id : IsFiniteSet(members'[x]),
         mixed \subseteq mixed', mixed' \subseteq Card \X Turn,
         \A d \in Card : \A p \in ops[d] :
           p.at = "listed" /\ <<d, p.click>> \notin mixed' =>
             members'[<<"tags", p.id>>] = members[<<"tags", p.id>>],
         at = "listed" =>
           o.op = "smembers" /\
             (<<c, o.click>> \notin mixed' => answer.listed = members'[<<"tags", o.id>>]),
         at = "replied" /\ o.op = "smembers" /\ <<c, o.click>> \notin mixed' =>
           answer.n = Cardinality(answer.listed)
  PROVE  PlayInv'
<1>1. PICK q \in Running :
        /\ q.at = at /\ q.click = o.click /\ q.op = o.op /\ q.id = o.id /\ q.reply = answer
        /\ ops' = [ops EXCEPT ![c] = {q}]
  BY MovesOn
<1>2. OneAtATime' /\ ops' \in [Card -> SUBSET Running]
  BY <1>1, MovesOneAtATime
<1>3. ops'[c] = {q} /\ \A d \in Card : d # c => ops'[d] = ops[d]
  BY <1>1 DEF PlayInv, PlayTypeOK
<1>4. ListingsTrue'
  <2>1. ListingTrue(c, q, members', mixed')
    BY <1>1 DEF ListingTrue
  <2>2. ASSUME NEW d \in Card, NEW p \in ops'[d] PROVE ListingTrue(d, p, members', mixed')
    <3>1. CASE d = c
      BY <1>3, <2>1, <3>1
    <3>2. CASE d # c
      <4>1. p \in ops[d]
        BY <1>3, <3>2
      <4> QED BY <4>1, ListingsStand
    <3> QED BY <3>1, <3>2
  <2>3. ASSUME NEW d \in Card PROVE ShownTrue(d, outcome'[d], mixed')
    BY ShownStands
  <2> QED BY <2>2, <2>3 DEF ListingsTrue
<1>5. TicketsDiffer'
  <2>1. ASSUME NEW d \in Card, NEW i \in Id, NEW n \in Int, Told(d, i, n)' PROVE Told(d, i, n)
    <3>1. CASE d = c
      BY <1>1, <1>3, <2>1, <3>1 DEF Told, Tells
    <3>2. CASE d # c
      BY <1>3, <2>1, <3>2 DEF Told
    <3> QED BY <3>1, <3>2
  <2> QED BY <2>1, TicketsStand
<1>6. PlayTypeOK'
  BY <1>2 DEF PlayInv, PlayTypeOK
<1> QED BY <1>2, <1>4, <1>5, <1>6 DEF PlayInv

LEMMA PlayTypes ==
  PlayInv =>
    /\ kindOf \in [Card -> Kind]
    /\ views \in [Id -> Nat] /\ stock \in [Id -> Int]
    /\ members \in [Collection \X Id -> SUBSET Member]
    /\ \A x \in Collection \X Id : IsFiniteSet(members[x])
    /\ isPending \in [Card -> BOOLEAN]
    /\ ops \in [Card -> SUBSET Running] /\ outcome \in [Card -> Outcome \union {NoOutcome}]
    /\ clicks \in [Card -> 0..MaxClicks] /\ newest \in [Card -> 0..MaxClicks]
    /\ mixed \subseteq Card \X Turn /\ recounted \in BOOLEAN
PROOF BY DEF PlayInv, PlayTypeOK

LEMMA TruthReply == ASSUME NEW b \in BOOLEAN PROVE Truth(b) \in Reply
PROOF BY DEF Truth, Number, Reply

LEMMA NumberReply == ASSUME NEW n \in Int PROVE Number(n) \in Reply
PROOF BY DEF Number, Reply

LEMMA ReadsInv ==
  ASSUME PlayInv, NEW c \in Card, NEW o \in ops[c], UNCHANGED kindOf,
         Reads(c, o) \/ ListMembers(c, o) \/ CountMembers(c, o),
         UNCHANGED <<views, stock, isPending, outcome, clicks, newest, recounted>>
  PROVE  PlayInv'
<1>1. /\ o \in Running /\ UNCHANGED <<members, mixed>>
      /\ CollectionOf(o.op) \in Collection /\ "tags" \in Collection
  BY TheOperation DEF Reads, ListMembers, CountMembers, CollectionOf, Collection
<1>2. o.id \in Id /\ o.member \in Member /\ o.reply \in Reply
  BY <1>1 DEF Running
<1>3. CASE Reads(c, o)
  <2> DEFINE S == members[<<CollectionOf(o.op), o.id>>]
             answer == IF o.op = "hgetall" THEN [n |-> 0, listed |-> S] ELSE Truth(o.member \in S)
  <2>1. S \subseteq Member /\ (o.member \in S) \in BOOLEAN
    BY <1>1, <1>2, PlayTypes
  <2>2. answer \in Reply
    <3>1. [n |-> 0, listed |-> S] \in Reply
      BY <2>1 DEF Reply
    <3>2. Truth(o.member \in S) \in Reply
      BY <2>1, TruthReply
    <3> QED BY <3>1, <3>2
  <2>3. Moves(c, o, "replied", answer) /\ o.op \notin Increments /\ o.op # "smembers"
    BY <1>3 DEF Reads, RepliesTo, Increments
  <2> HIDE DEF answer
  <2> QED BY <1>1, <2>2, <2>3, PlayTypes, MovesInv
<1>4. CASE ListMembers(c, o)
  <2> DEFINE answer == [n |-> 0, listed |-> members[<<"tags", o.id>>]]
  <2>1. answer \in Reply /\ answer.listed = members[<<"tags", o.id>>]
    BY <1>1, <1>2, PlayTypes DEF Reply
  <2>2. Moves(c, o, "listed", answer) /\ o.op = "smembers" /\ o.op \notin Increments
    BY <1>4 DEF ListMembers, Increments
  <2> HIDE DEF answer
  <2> QED BY <1>1, <2>1, <2>2, PlayTypes, MovesInv
<1>5. CASE CountMembers(c, o)
  <2> DEFINE S == members[<<"tags", o.id>>]
  <2>1. PICK answer : answer = [o.reply EXCEPT !.n = Cardinality(S)]
    OBVIOUS
  <2>2. IsFiniteSet(S) /\ Cardinality(S) \in Nat
    BY <1>1, <1>2, PlayTypes, FS_CardinalityType
  <2>3. answer \in Reply /\ answer.n = Cardinality(S) /\ answer.listed = o.reply.listed
    BY <1>2, <2>1, <2>2 DEF Reply
  <2>4. Moves(c, o, "replied", answer) /\ o.at = "listed"
    BY <1>5, <2>1 DEF CountMembers, RepliesTo
  <2>5. o.op = "smembers" /\ o.op \notin Increments
        /\ (<<c, o.click>> \notin mixed => o.reply.listed = S)
    BY <2>4 DEF PlayInv, ListingsTrue, ListingTrue, Increments
  <2> HIDE DEF S
  <2> QED BY <1>1, <2>3, <2>4, <2>5, PlayTypes, MovesInv
<1> QED BY <1>3, <1>4, <1>5

LEMMA ChangesInv ==
  ASSUME PlayInv, NEW c \in Card, NEW o \in ops[c], UNCHANGED kindOf, Changes(c, o),
         UNCHANGED <<views, stock, isPending, outcome, clicks, newest, recounted>>
  PROVE  PlayInv'
<1> DEFINE S == <<CollectionOf(o.op), o.id>>
<1>1. o \in Running /\ S \in Collection \X Id /\ o.member \in Member
  BY TheOperation DEF CollectionOf, Collection, Running
<1>2. PICK After : /\ After = IF o.op \in {"sadd", "hset"} THEN members[S] \union {o.member}
                              ELSE members[S] \ {o.member}
                   /\ members' = [members EXCEPT ![S] = After]
                   /\ RepliesTo(c, o, Truth(After # members[S]))
                   /\ mixed' = IF After # members[S] THEN mixed \union Listing(S) ELSE mixed
  BY DEF Changes
<1>3. IsFiniteSet(members[S]) /\ members[S] \subseteq Member
  BY <1>1, PlayTypes
<1>4. IsFiniteSet(After) /\ After \subseteq Member
  <2>1. IsFiniteSet(members[S] \union {o.member}) /\ IsFiniteSet(members[S] \ {o.member})
    BY <1>3, FS_AddElement, FS_RemoveElement
  <2> QED BY <1>1, <1>2, <1>3, <2>1
<1>5. /\ members' \in [Collection \X Id -> SUBSET Member]
      /\ \A x \in Collection \X Id : IsFiniteSet(members'[x])
      /\ \A x \in Collection \X Id : x # S => members'[x] = members[x]
      /\ members'[S] = After
  BY <1>1, <1>2, <1>4, PlayTypes
<1>6. mixed \subseteq mixed' /\ mixed' \subseteq Card \X Turn
  BY <1>2, PlayTypes DEF Listing
<1>7. ASSUME NEW d \in Card, NEW p \in ops[d], p.at = "listed", <<d, p.click>> \notin mixed'
      PROVE  members'[<<"tags", p.id>>] = members[<<"tags", p.id>>]
  <2>1. p \in Running /\ <<"tags", p.id>> \in Collection \X Id
    BY PlayTypes DEF Collection, Running
  <2>2. CASE <<"tags", p.id>> # S
    BY <1>5, <2>1, <2>2
  <2>3. CASE <<"tags", p.id>> = S
    <3>1. <<d, p.click>> \in Listing(S)
      BY <1>7, <2>1, <2>3 DEF Listing, Running
    <3>2. After = members[S]
      BY <1>2, <1>7, <3>1
    <3> QED BY <1>5, <2>3, <3>2
  <2> QED BY <2>2, <2>3
<1>8. /\ Moves(c, o, "replied", Truth(After # members[S]))
      /\ o.op \notin Increments /\ o.op # "smembers"
  BY <1>2 DEF RepliesTo, Changes, Increments
<1>9. Truth(After # members[S]) \in Reply
  <2>1. (After # members[S]) \in BOOLEAN
    OBVIOUS
  <2> QED BY <2>1, TruthReply
<1> HIDE DEF S
<1> QED BY <1>5, <1>6, <1>7, <1>8, <1>9, PlayTypes, MovesInv

LEMMA IncrViewsInv ==
  ASSUME PlayInv, NEW c \in Card, NEW o \in ops[c], UNCHANGED kindOf, IncrViews(c, o),
         UNCHANGED <<members, isPending, outcome, clicks, newest, mixed, recounted>>
  PROVE  PlayInv'
<1>1. o \in Running /\ o.id \in Id /\ By(o.op) \in Nat \ {0} /\ views[o.id] \in Nat
  <2>1. By(o.op) = IncrStep \/ By(o.op) = 1
    BY Zenon DEF By
  <2>2. o \in Running /\ o.id \in Id
    BY TheOperation DEF Running
  <2> QED BY <2>1, <2>2, PlayTypes, PlaygroundAssumption
<1>2. /\ o.at = "sent" /\ o.op \in {"incr", "incr +N"} /\ UNCHANGED stock
      /\ views' = [views EXCEPT ![o.id] = views[o.id] + By(o.op)]
      /\ Moves(c, o, "replied", Number(views'[o.id]))
  BY DEF IncrViews, RepliesTo
<1>3. views' \in [Id -> Nat] /\ views'[o.id] = views[o.id] + By(o.op)
      /\ \A i \in Id : views[i] <= views'[i]
  <2>1. PICK n \in Nat : n = views[o.id] + By(o.op) /\ n > views[o.id]
    BY <1>1
  <2>2. views' = [views EXCEPT ![o.id] = n] /\ views \in [Id -> Nat]
    BY <1>2, <2>1, PlayTypes
  <2>3. \A i \in Id : views[i] <= views[i]
    BY <2>2
  <2> QED BY <1>1, <2>1, <2>2, <2>3
<1>4. Number(views'[o.id]) \in Reply /\ Number(views'[o.id]).n = views'[o.id]
  BY <1>1, <1>3, NumberReply DEF Number
<1>5. PICK q \in Running :
        /\ q.at = "replied" /\ q.click = o.click /\ q.op = o.op /\ q.id = o.id
        /\ q.reply = Number(views'[o.id])
        /\ ops' = [ops EXCEPT ![c] = {q}]
  <2>1. PICK answer \in Reply : answer = Number(views'[o.id])
    BY <1>4
  <2>2. Moves(c, o, "replied", answer)
    BY <1>2, <2>1
  <2> QED BY <2>1, <2>2, MovesOn
<1>6. OneAtATime' /\ ops' \in [Card -> SUBSET Running]
  BY <1>5, MovesOneAtATime
<1>7. ops'[c] = {q} /\ \A d \in Card : d # c => ops'[d] = ops[d]
  BY <1>5, PlayTypes
<1>8. ListingsTrue'
  <2>1. ASSUME NEW d \in Card, NEW p \in ops'[d] PROVE ListingTrue(d, p, members', mixed')
    <3>1. CASE d = c
      BY <1>2, <1>5, <1>7, <3>1 DEF ListingTrue
    <3>2. CASE d # c
      <4>1. p \in ops[d]
        BY <1>7, <3>2
      <4> QED BY <4>1, ListingsStand
    <3> QED BY <3>1, <3>2
  <2>2. ASSUME NEW d \in Card PROVE ShownTrue(d, outcome'[d], mixed')
    BY ShownStands
  <2> QED BY <2>1, <2>2 DEF ListingsTrue
<1>9. TicketsDiffer'
  <2> SUFFICES ASSUME ~recounted,
                      NEW d \in Card, NEW i \in Id, NEW n \in Int, Told(d, i, n)'
               PROVE  /\ n <= views'[i]
                      /\ \A e \in Card : Told(e, i, n)' => e = d
    BY DEF TicketsDiffer
  <2>1. ASSUME NEW e \in Card, NEW k \in Id, NEW m \in Int, Told(e, k, m)'
        PROVE  Told(e, k, m) \/ (e = c /\ k = o.id /\ m = views'[o.id])
    <3>1. CASE e = c
      BY <1>4, <1>5, <1>7, <2>1, <3>1 DEF Told, Tells
    <3>2. CASE e # c
      BY <1>7, <2>1, <3>2 DEF Told
    <3> QED BY <3>1, <3>2
  <2>2. ASSUME NEW e \in Card, NEW k \in Id, NEW m \in Int, Told(e, k, m)
        PROVE  m <= views[k] /\ \A f \in Card : Told(f, k, m) => f = e
    BY <2>2 DEF PlayInv, TicketsDiffer
  <2>3. views[o.id] < views'[o.id]
    BY <1>1, <1>3
  <2>4. \A k \in Id : views[k] \in Nat /\ views'[k] \in Nat /\ views[k] <= views'[k]
    BY <1>3, PlayTypes
  <2>5. n <= views'[i]
    <3>1. CASE Told(d, i, n)
      <4>1. n <= views[i]
        BY <2>2, <3>1
      <4> QED BY <2>4, <4>1
    <3>2. CASE n = views'[o.id] /\ i = o.id
      BY <2>4, <3>2
    <3> QED BY <2>1, <3>1, <3>2
  <2>6. ASSUME NEW e \in Card, Told(e, i, n)' PROVE e = d
    <3>1. CASE Told(d, i, n)
      <4>1. n <= views[i] /\ (Told(e, i, n) => e = d)
        BY <2>2, <3>1
      <4>2. ~(i = o.id /\ n = views'[o.id])
        BY <2>3, <2>4, <4>1
      <4> QED BY <2>1, <2>6, <4>1, <4>2
    <3>2. CASE ~Told(d, i, n)
      <4>1. d = c /\ i = o.id /\ n = views'[o.id]
        BY <2>1, <3>2
      <4>2. ~Told(e, i, n)
        <5>1. Told(e, i, n) => n <= views[i]
          BY <2>2
        <5> QED BY <2>3, <2>4, <4>1, <5>1
      <4> QED BY <2>1, <2>6, <4>1, <4>2
    <3> QED BY <3>1, <3>2
  <2> QED BY <2>5, <2>6
<1>10. PlayTypeOK'
  BY <1>2, <1>3, <1>6 DEF PlayInv, PlayTypeOK
<1> QED BY <1>6, <1>8, <1>9, <1>10 DEF PlayInv

LEMMA CountingInv ==
  ASSUME PlayInv, NEW c \in Card, NEW o \in ops[c], UNCHANGED kindOf, Counting(c, o)
  PROVE  PlayInv'
<1>1. UNCHANGED <<members, isPending, outcome, clicks, newest, mixed, recounted>>
  BY DEF Counting
<1>2. o \in Running /\ o.id \in Id /\ views[o.id] \in Int /\ stock[o.id] \in Int
  BY TheOperation, PlayTypes DEF Running
<1>3. CASE GetViews(c, o)
  <2>1. /\ Moves(c, o, "replied", Number(views[o.id])) /\ UNCHANGED <<views, stock>>
        /\ o.op \notin Increments /\ o.op # "smembers"
    BY <1>3 DEF GetViews, RepliesTo, Increments
  <2>2. Number(views[o.id]) \in Reply
    BY <1>2, NumberReply
  <2> QED BY <1>1, <2>1, <2>2, PlayTypes, MovesInv
<1>4. CASE DecrStock(c, o)
  <2>1. /\ Moves(c, o, "replied", Number(stock'[o.id])) /\ UNCHANGED views
        /\ o.op \notin Increments /\ o.op # "smembers"
        /\ stock' = [stock EXCEPT ![o.id] = @ - 1]
    BY <1>4 DEF DecrStock, RepliesTo, Increments
  <2>2. stock' \in [Id -> Int] /\ stock'[o.id] \in Int
    BY <1>2, <2>1, PlayTypes
  <2>3. Number(stock'[o.id]) \in Reply
    BY <2>2, NumberReply
  <2> QED BY <1>1, <2>1, <2>2, <2>3, PlayTypes, MovesInv
<1>5. CASE IncrViews(c, o)
  BY <1>1, <1>5, IncrViewsInv
<1> QED BY <1>3, <1>4, <1>5 DEF Counting

LEMMA CatalogCallInv ==
  ASSUME PlayInv, NEW c \in Card, NEW o \in ops[c], UNCHANGED kindOf, CatalogCall(c, o)
  PROVE  PlayInv'
<1>1. PICK n \in {0, 1} : Moves(c, o, "replied", Number(n))
  BY DEF CatalogCall, RepliesTo
<1>2. /\ UNCHANGED <<views, stock, members, isPending, outcome, clicks, newest, mixed, recounted>>
      /\ o.op \in {"string call", "batch call"}
  BY DEF CatalogCall, inRedis, Buttons, StringsCard, BatchCard
<1>3. Number(n) \in Reply /\ o.op \notin Increments /\ o.op # "smembers"
  <2>1. n \in Int
    OBVIOUS
  <2>2. Number(n) \in Reply
    BY <2>1, NumberReply
  <2> QED BY <1>2, <2>2 DEF Increments
<1> QED BY <1>1, <1>2, <1>3, PlayTypes, MovesInv

LEMMA RunOpInv ==
  ASSUME PlayInv, UNCHANGED kindOf, NEW c \in Card, NEW op \in Op, NEW k \in Id,
         NEW m \in Member, RunOp(c, op, k, m)
  PROVE  PlayInv'
<1> DEFINE q == [at |-> "sent", click |-> clicks[c] + 1, op |-> op, id |-> k, member |-> m,
                 reply |-> Number(0)]
<1>1. /\ ~isPending[c] /\ clicks[c] < MaxClicks
      /\ clicks' = [clicks EXCEPT ![c] = clicks[c] + 1]
      /\ isPending' = [isPending EXCEPT ![c] = TRUE]
      /\ ops' = [ops EXCEPT ![c] = ops[c] \union {q}]
      /\ UNCHANGED <<views, stock, members, outcome, newest, mixed, recounted>>
  BY DEF RunOp, Runs, inRedis
<1>2. ops[c] = {} /\ newest[c] <= clicks[c] /\ clicks[c] \in 0..MaxClicks /\ newest[c] \in 0..MaxClicks
  BY <1>1, PlayTypes DEF PlayInv, OneAtATime
<1>3. q \in Running
  BY <1>1, <1>2, NumberReply, PlaygroundAssumption DEF Running, Turn
<1>4. q.at = "sent" /\ q.click = clicks[c] + 1
  OBVIOUS
<1> HIDE DEF q
<1>5. /\ ops' \in [Card -> SUBSET Running] /\ ops'[c] = {q}
      /\ \A d \in Card : d # c => ops'[d] = ops[d]
  BY <1>1, <1>2, <1>3, PlayTypes
<1>6. /\ clicks' \in [Card -> 0..MaxClicks] /\ clicks'[c] = clicks[c] + 1
      /\ \A d \in Card : d # c => clicks'[d] = clicks[d]
  BY <1>1, <1>2, PlayTypes, PlaygroundAssumption
<1>7. /\ isPending' \in [Card -> BOOLEAN] /\ isPending'[c] = TRUE
      /\ \A d \in Card : d # c => isPending'[d] = isPending[d]
  BY <1>1, PlayTypes
<1>8. OneAtATime'
  <2>1. ASSUME NEW d \in Card
        PROVE  /\ isPending'[d] <=> ops'[d] # {}
               /\ \A p, r \in ops'[d] : p = r
               /\ \A p \in ops'[d] : p.click = clicks'[d] /\ newest'[d] < clicks'[d]
               /\ outcome'[d].click = newest'[d] /\ newest'[d] <= clicks'[d]
    <3>1. CASE d = c
      <4>1. outcome[c].click = newest[c]
        BY DEF PlayInv, OneAtATime
      <4> QED BY <1>1, <1>2, <1>4, <1>5, <1>6, <1>7, <3>1, <4>1
    <3>2. CASE d # c
      BY <1>1, <1>5, <1>6, <1>7, <3>2 DEF PlayInv, OneAtATime
    <3> QED BY <3>1, <3>2
  <2> QED BY <2>1 DEF OneAtATime
<1>9. ListingsTrue'
  <2>1. ASSUME NEW d \in Card, NEW p \in ops'[d] PROVE ListingTrue(d, p, members', mixed')
    <3>1. CASE d = c
      BY <1>4, <1>5, <3>1 DEF ListingTrue
    <3>2. CASE d # c
      <4>1. p \in ops[d]
        BY <1>5, <3>2
      <4> QED BY <1>1, <4>1, ListingsStand
    <3> QED BY <3>1, <3>2
  <2>2. ASSUME NEW d \in Card PROVE ShownTrue(d, outcome'[d], mixed')
    BY <1>1, ShownStands
  <2> QED BY <2>1, <2>2 DEF ListingsTrue
<1>10. TicketsDiffer'
  <2>1. ASSUME NEW d \in Card, NEW i \in Id, NEW n \in Int, Told(d, i, n)' PROVE Told(d, i, n)
    <3>1. CASE d = c
      BY <1>1, <1>4, <1>5, <2>1, <3>1 DEF Told
    <3>2. CASE d # c
      BY <1>1, <1>5, <2>1, <3>2 DEF Told
    <3> QED BY <3>1, <3>2
  <2> QED BY <1>1, <2>1, TicketsStand
<1>11. PlayTypeOK'
  BY <1>1, <1>5, <1>6, <1>7 DEF PlayInv, PlayTypeOK
<1> QED BY <1>1, <1>8, <1>9, <1>10, <1>11 DEF PlayInv

\* An operation ends: the card has none, and what it shows is checked by the caller.
LEMMA EndsInv ==
  ASSUME PlayInv, UNCHANGED kindOf, NEW c \in Card, NEW o \in ops[c],
         NEW shown \in Outcome \union {NoOutcome}, NEW last \in 0..MaxClicks,
         isPending' = [isPending EXCEPT ![c] = FALSE],
         ops' = [ops EXCEPT ![c] = @ \ {o}],
         outcome' = [outcome EXCEPT ![c] = shown], newest' = [newest EXCEPT ![c] = last],
         UNCHANGED <<views, stock, members, clicks, mixed, recounted>>,
         shown.click = last, last <= clicks[c], ShownTrue(c, shown, mixed),
         \A i \in Id, n \in Int : shown # NoOutcome /\ Tells(shown, i, n) => Told(c, i, n)
  PROVE  PlayInv'
<1>1. ops[c] = {o}
  BY TheOperation
<1>2. /\ ops' \in [Card -> SUBSET Running] /\ ops'[c] = {}
      /\ \A d \in Card : d # c => ops'[d] = ops[d]
  BY <1>1, PlayTypes
<1>3. /\ isPending' \in [Card -> BOOLEAN] /\ isPending'[c] = FALSE
      /\ \A d \in Card : d # c => isPending'[d] = isPending[d]
  BY PlayTypes
<1>4. /\ outcome' \in [Card -> Outcome \union {NoOutcome}] /\ outcome'[c] = shown
      /\ \A d \in Card : d # c => outcome'[d] = outcome[d]
  BY PlayTypes
<1>5. /\ newest' \in [Card -> 0..MaxClicks] /\ newest'[c] = last
      /\ \A d \in Card : d # c => newest'[d] = newest[d]
  BY PlayTypes
<1>6. OneAtATime'
  <2>1. ASSUME NEW d \in Card
        PROVE  /\ isPending'[d] <=> ops'[d] # {}
               /\ \A p, r \in ops'[d] : p = r
               /\ \A p \in ops'[d] : p.click = clicks'[d] /\ newest'[d] < clicks'[d]
               /\ outcome'[d].click = newest'[d] /\ newest'[d] <= clicks'[d]
    <3>1. CASE d = c
      BY <1>2, <1>3, <1>4, <1>5, <3>1
    <3>2. CASE d # c
      BY <1>2, <1>3, <1>4, <1>5, <3>2 DEF PlayInv, OneAtATime
    <3> QED BY <3>1, <3>2
  <2> QED BY <2>1 DEF OneAtATime
<1>7. ListingsTrue'
  <2>1. ASSUME NEW d \in Card, NEW p \in ops'[d] PROVE ListingTrue(d, p, members', mixed')
    <3>1. d # c /\ p \in ops[d]
      BY <1>2
    <3> QED BY <3>1, ListingsStand
  <2>2. ASSUME NEW d \in Card PROVE ShownTrue(d, outcome'[d], mixed')
    BY <1>4, ShownStands
  <2> QED BY <2>1, <2>2 DEF ListingsTrue
<1>8. TicketsDiffer'
  <2>1. ASSUME NEW d \in Card, NEW i \in Id, NEW n \in Int, Told(d, i, n)' PROVE Told(d, i, n)
    <3>1. CASE d = c
      <4>1. shown # NoOutcome /\ Tells(shown, i, n)
        BY <1>2, <1>4, <2>1, <3>1 DEF Told
      <4> QED BY <3>1, <4>1
    <3>2. CASE d # c
      BY <1>2, <1>4, <2>1, <3>2 DEF Told
    <3> QED BY <3>1, <3>2
  <2> QED BY <2>1, TicketsStand
<1>9. PlayTypeOK'
  BY <1>2, <1>3, <1>4, <1>5 DEF PlayInv, PlayTypeOK
<1> QED BY <1>6, <1>7, <1>8, <1>9 DEF PlayInv

LEMMA ShowOutcomeInv ==
  ASSUME PlayInv, UNCHANGED kindOf, NEW c \in Card, NEW o \in ops[c], ShowOutcome(c, o)
  PROVE  PlayInv'
<1> DEFINE shown == [click |-> o.click, op |-> o.op, id |-> o.id, reply |-> o.reply]
<1>1. /\ o \in Running /\ o.click = clicks[c] /\ newest[c] < clicks[c]
      /\ newest[c] \in 0..MaxClicks /\ clicks[c] \in 0..MaxClicks
  BY TheOperation, PlayTypes DEF PlayInv, OneAtATime
<1>2. /\ o.at = "replied" /\ outcome' = [outcome EXCEPT ![c] = shown]
      /\ newest' = [newest EXCEPT ![c] = o.click]
      /\ isPending' = [isPending EXCEPT ![c] = FALSE] /\ ops' = [ops EXCEPT ![c] = @ \ {o}]
      /\ UNCHANGED <<views, stock, members, clicks, mixed, recounted>>
  <2>1. newest' = [newest EXCEPT ![c] = IF o.click > newest[c] THEN o.click ELSE newest[c]]
    BY DEF ShowOutcome
  <2>2. o.click > newest[c]
    BY <1>1
  <2> QED BY <2>1, <2>2 DEF ShowOutcome, inRedis
<1>3. shown \in Outcome /\ shown.click = o.click /\ o.click \in 0..MaxClicks /\ o.click <= clicks[c]
  BY <1>1 DEF Outcome, Running
<1>4. ShownTrue(c, shown, mixed)
  BY <1>2 DEF PlayInv, ListingsTrue, ListingTrue, ShownTrue
<1>5. \A i \in Id, n \in Int : Tells(shown, i, n) => Told(c, i, n)
  BY <1>2 DEF Told, Tells
<1> HIDE DEF shown
<1> QED BY <1>2, <1>3, <1>4, <1>5, EndsInv

LEMMA OpFailsInv ==
  ASSUME PlayInv, UNCHANGED kindOf, NEW c \in Card, NEW o \in ops[c], OpFails(c, o)
  PROVE  PlayInv'
<1>1. /\ outcome' = [outcome EXCEPT ![c] = outcome[c]] /\ newest' = [newest EXCEPT ![c] = newest[c]]
      /\ outcome[c] \in Outcome \union {NoOutcome} /\ newest[c] \in 0..MaxClicks
      /\ isPending' = [isPending EXCEPT ![c] = FALSE] /\ ops' = [ops EXCEPT ![c] = @ \ {o}]
      /\ UNCHANGED <<views, stock, members, clicks, mixed, recounted>>
  BY PlayTypes DEF OpFails, inRedis
<1>2. outcome[c].click = newest[c] /\ newest[c] <= clicks[c] /\ ShownTrue(c, outcome[c], mixed)
  BY DEF PlayInv, OneAtATime, ListingsTrue
<1>3. \A i \in Id, n \in Int : outcome[c] # NoOutcome /\ Tells(outcome[c], i, n) => Told(c, i, n)
  BY DEF Told
<1> QED BY <1>1, <1>2, <1>3, EndsInv

LEMMA RemovalsInv ==
  ASSUME PlayInv, UNCHANGED kindOf, NEW i \in Id, CounterRemoved(i) \/ TagsRemoved(i)
  PROVE  PlayInv'
<1>1. UNCHANGED <<stock, isPending, ops, outcome, clicks, newest>>
  BY DEF CounterRemoved, TagsRemoved
<1>2. OneAtATime'
  BY <1>1 DEF PlayInv, OneAtATime
<1>3. CASE CounterRemoved(i)
  <2>1. views' \in [Id -> Nat] /\ recounted' = TRUE /\ UNCHANGED <<members, mixed>>
    BY <1>3, PlayTypes DEF CounterRemoved
  <2>2. TicketsDiffer' /\ ListingsTrue'
    BY <1>1, <2>1 DEF PlayInv, TicketsDiffer, ListingsTrue
  <2> QED BY <1>1, <1>2, <2>1, <2>2 DEF PlayInv, PlayTypeOK
<1>4. CASE TagsRemoved(i)
  <2> DEFINE S == <<"tags", i>>
  <2>1. /\ members' = [members EXCEPT ![S] = {}] /\ S \in Collection \X Id
        /\ mixed' = mixed \union Listing(S) /\ UNCHANGED <<views, recounted>>
    BY <1>4 DEF TagsRemoved, Collection
  <2>2. /\ members' \in [Collection \X Id -> SUBSET Member]
        /\ \A x \in Collection \X Id : IsFiniteSet(members'[x])
        /\ \A x \in Collection \X Id : x # S => members'[x] = members[x]
    BY <2>1, PlayTypes, FS_EmptySet
  <2>3. mixed \subseteq mixed' /\ mixed' \subseteq Card \X Turn
    BY <2>1, PlayTypes DEF Listing
  <2>4. ASSUME NEW d \in Card, NEW p \in ops[d], p.at = "listed", <<d, p.click>> \notin mixed'
        PROVE  members'[<<"tags", p.id>>] = members[<<"tags", p.id>>]
    <3>1. p \in Running /\ <<"tags", p.id>> \in Collection \X Id
      BY PlayTypes DEF Collection, Running
    <3>2. <<"tags", p.id>> = S => <<d, p.click>> \in Listing(S)
      BY <2>4, <3>1 DEF Listing, Running
    <3> QED BY <2>1, <2>2, <2>4, <3>1, <3>2
  <2>5. ListingsTrue'
    <3>1. ASSUME NEW d \in Card, NEW p \in ops[d] PROVE ListingTrue(d, p, members', mixed')
      BY <2>3, <2>4, ListingsStand
    <3>2. ASSUME NEW d \in Card PROVE ShownTrue(d, outcome[d], mixed')
      BY <2>3, ShownStands
    <3> QED BY <1>1, <3>1, <3>2 DEF ListingsTrue
  <2>6. TicketsDiffer'
    <3>1. \A d \in Card, k \in Id, n \in Int : Told(d, k, n)' => Told(d, k, n)
      BY <1>1 DEF Told
    <3> QED BY <2>1, <3>1, TicketsStand
  <2> HIDE DEF S
  <2> QED BY <1>1, <1>2, <2>1, <2>2, <2>3, <2>5, <2>6 DEF PlayInv, PlayTypeOK
<1> QED BY <1>3, <1>4

LEMMA PlayInitInv == PlayInit => PlayInv
<1> SUFFICES ASSUME PlayInit PROVE PlayInv
  OBVIOUS
<1>1. PlayTypeOK
  <2>1. 0 \in 0..MaxClicks
    BY PlaygroundAssumption
  <2>2. /\ views \in [Id -> Nat] /\ stock \in [Id -> Int]
        /\ members \in [Collection \X Id -> SUBSET Member]
    BY DEF PlayInit
  <2>3. /\ isPending \in [Card -> BOOLEAN] /\ recounted \in BOOLEAN
        /\ ops \in [Card -> SUBSET Running] /\ outcome \in [Card -> Outcome \union {NoOutcome}]
    BY DEF PlayInit
  <2>4. /\ clicks \in [Card -> 0..MaxClicks] /\ newest \in [Card -> 0..MaxClicks]
        /\ mixed \subseteq Card \X Turn /\ kindOf \in [Card -> Kind]
    BY <2>1 DEF PlayInit
  <2> QED BY <2>2, <2>3, <2>4 DEF PlayTypeOK
<1>2. OneAtATime /\ ListingsTrue
  BY PlaygroundAssumption DEF PlayInit, OneAtATime, ListingsTrue, ShownTrue, NoOutcome
<1>3. TicketsDiffer
  BY DEF PlayInit, TicketsDiffer, Told
<1> QED BY <1>1, <1>2, <1>3, FS_EmptySet DEF PlayInit, PlayInv

LEMMA PlayInvNext == PlayInv /\ [PlayNext]_playVars => PlayInv'
<1> SUFFICES ASSUME PlayInv, [PlayNext]_playVars PROVE PlayInv'
  OBVIOUS
<1>1. CASE UNCHANGED playVars
  BY <1>1 DEF playVars, PlayInv, PlayTypeOK, OneAtATime, ListingsTrue, TicketsDiffer, Told
<1>2. CASE PlayNext
  <2>1. UNCHANGED kindOf
    BY <1>2 DEF PlayNext
  <2>2. ASSUME NEW c \in Card, NEW op \in Buttons[kindOf[c]], NEW i \in Id, NEW m \in Member,
               RunOp(c, op, i, m)
        PROVE  PlayInv'
    <3>1. op \in Op
      BY PlayTypes DEF Op
    <3> QED BY <2>1, <2>2, <3>1, RunOpInv
  <2>3. ASSUME NEW c \in Card, NEW o \in ops[c], Collecting(c, o) PROVE PlayInv'
    BY <2>1, <2>3, ChangesInv, ReadsInv DEF Collecting
  <2> QED BY <1>2, <2>1, <2>2, <2>3, ShowOutcomeInv, OpFailsInv, CountingInv, CatalogCallInv,
             RemovalsInv DEF PlayNext
<1> QED BY <1>1, <1>2

LEMMA PlayShows == PlayInv => PlayTypeOK /\ CardShowsNewest /\ AnswersAddUp
<1> SUFFICES ASSUME PlayInv PROVE PlayTypeOK /\ CardShowsNewest /\ AnswersAddUp
  OBVIOUS
<1>1. PlayTypeOK /\ CardShowsNewest
  BY DEF PlayInv, OneAtATime, CardShowsNewest
<1>2. \A c \in Card : outcome[c] # NoOutcome =>
        outcome[c] \in Outcome /\ outcome[c].id \in Id /\ outcome[c].reply.n \in Int
  BY PlayTypes DEF Outcome, Reply
<1>3. ASSUME NEW c \in Shown({"smembers"}), <<c, outcome[c].click>> \notin mixed
      PROVE  outcome[c].reply.n = Cardinality(outcome[c].reply.listed)
  BY <1>3 DEF PlayInv, ListingsTrue, ShownTrue, Shown
<1>4. ASSUME ~recounted, NEW c \in Shown(Increments), NEW d \in Shown(Increments)
      PROVE  /\ outcome[c].reply.n <= views[outcome[c].id]
             /\ c # d /\ outcome[c].id = outcome[d].id => outcome[c].reply.n # outcome[d].reply.n
  <2>1. c \in Card /\ d \in Card /\ Told(c, outcome[c].id, outcome[c].reply.n)
        /\ Told(d, outcome[d].id, outcome[d].reply.n)
    BY DEF Shown, Told, Tells
  <2>2. outcome[c].id \in Id /\ outcome[c].reply.n \in Int
    BY <1>2 DEF Shown
  <2> QED BY <1>4, <2>1, <2>2 DEF PlayInv, TicketsDiffer
<1> QED BY <1>1, <1>3, <1>4 DEF AnswersAddUp

\* Playground.CardShowsNewest and AnswersAddUp; use-playground-op.ts,
\* counters.service.ts, collections.service.ts: a card shows the newest of its
\* operations that succeeded, and the numbers it was told agree with what was done.
THEOREM PlaygroundTrue == PlaySpec => [](PlayTypeOK /\ CardShowsNewest /\ AnswersAddUp)
<1>1. PlayInit => PlayInv
  BY PlayInitInv
<1>2. PlayInv /\ [PlayNext]_playVars => PlayInv'
  BY PlayInvNext
<1>3. PlayInv => PlayTypeOK /\ CardShowsNewest /\ AnswersAddUp
  BY PlayShows
<1> QED BY <1>1, <1>2, <1>3, PTL DEF PlaySpec

-----------------------------------------------------------------------------
(* The serializer lab: what a run will show is settled as it goes *)

\* A run p of job j that is under way, with the demo keys st, and whether no other
\* request and no removal has come between its commands.
RunOK(j, p, st, alone) ==
  /\ j[2] = "caveat" => p.mine = Dated
  /\ p.mine \in Payload \union {Dated, EmptyObject}
  /\ p.at # "set" => p.mine # EmptyObject
  /\ p.at \in {"getRaw", "get"} /\ alone => st[KeyOf[j[2]]] = p.mine
  /\ p.at \in {"get", "setRaw", "getBypass"} /\ alone => p.raw = p.mine
  /\ p.at \in {"setRaw", "getBypass"} =>
       j[2] = "roundtrip" /\ p.raw # Gone /\ (alone => p.decoded = p.mine)
  /\ p.at = "getBypass" /\ alone => st["raw"] = p.mine

\* What RoundTripWhole says of one result.
ResultOK(j, r, alone) ==
  /\ alone => /\ r.raw = r.mine /\ r.decoded = r.mine
              /\ j[2] = "roundtrip" => r.bypass = r.mine
              /\ j[2] = "caveat" => (r.survived <=> Active = "msgpack")
  /\ r.survived => Active = "msgpack"
  /\ r.raw = Gone => r.bypass = Gone

JobOK(j, p, r, st, alone) ==
  /\ p \in Progress
  /\ r = NoResult \/ (r \in Result /\ ResultOK(j, r, alone))
  /\ p.at # "idle" => r = NoResult /\ RunOK(j, p, st, alone)

SerializerInv ==
  /\ store \in [DemoKey -> Stored]
  /\ jsonError \in [LabTab -> BOOLEAN]
  /\ runs \in 0..MaxRuns /\ touched \subseteq Job
  /\ jobs \in [Job -> Progress] /\ results \in [Job -> Result \union {NoResult}]
  /\ \A j \in Job : JobOK(j, jobs[j], results[j], store, j \notin touched)

LEMMA JobKinds ==
  \A j \in Job : j[2] \in {"roundtrip", "caveat"} /\ KeyOf[j[2]] \in {"last", "caveat"}
PROOF BY DEF Job, KeyOf

\* A job that stands still stays in order when it is touched, and when no key it
\* will read again is written.
LEMMA JobStands ==
  ASSUME NEW j \in Job, NEW p, NEW r, NEW st, NEW st1, NEW alone \in BOOLEAN,
         NEW alone1 \in BOOLEAN, JobOK(j, p, r, st, alone), alone1 => alone,
         p.at \in {"getRaw", "get"} /\ alone1 => st1[KeyOf[j[2]]] = st[KeyOf[j[2]]],
         p.at = "getBypass" /\ alone1 => st1["raw"] = st["raw"]
  PROVE  JobOK(j, p, r, st1, alone1)
<1>1. ResultOK(j, r, alone) => ResultOK(j, r, alone1)
  BY DEF ResultOK
<1>2. p.at # "idle" /\ RunOK(j, p, st, alone) => RunOK(j, p, st1, alone1)
  BY DEF RunOK
<1> QED BY <1>1, <1>2 DEF JobOK

\* The invariant holds again when one job has taken a step and the others stand.
LEMMA JobSteps ==
  ASSUME SerializerInv, NEW j \in Job, NEW p, NEW r,
         jobs' = [jobs EXCEPT ![j] = p], results' = [results EXCEPT ![j] = r],
         JobOK(j, p, r, store', j \notin touched'),
         store' \in [DemoKey -> Stored], jsonError' \in [LabTab -> BOOLEAN],
         runs' \in 0..MaxRuns, touched' \subseteq Job,
         \A i \in Job : i # j =>
           /\ i \in touched => i \in touched'
           /\ jobs[i].at \in {"getRaw", "get"} /\ i \notin touched' =>
                store'[KeyOf[i[2]]] = store[KeyOf[i[2]]]
           /\ jobs[i].at = "getBypass" /\ i \notin touched' => store'["raw"] = store["raw"]
  PROVE  SerializerInv'
<1>1. jobs' \in [Job -> Progress] /\ results' \in [Job -> Result \union {NoResult}]
  <2>1. p \in Progress /\ r \in Result \union {NoResult}
    BY DEF JobOK
  <2> QED BY <2>1 DEF SerializerInv
<1>2. ASSUME NEW i \in Job PROVE JobOK(i, jobs'[i], results'[i], store', i \notin touched')
  <2>1. CASE i = j
    BY <2>1 DEF SerializerInv
  <2>2. CASE i # j
    <3>1. jobs'[i] = jobs[i] /\ results'[i] = results[i]
      BY <2>2 DEF SerializerInv
    <3>2. JobOK(i, jobs[i], results[i], store, i \notin touched)
      BY DEF SerializerInv
    <3>3. (i \notin touched) \in BOOLEAN /\ (i \notin touched') \in BOOLEAN
      OBVIOUS
    <3>4. JobOK(i, jobs[i], results[i], store', i \notin touched')
      BY <2>2, <3>2, <3>3, JobStands
    <3> QED BY <3>1, <3>4
  <2> QED BY <2>1, <2>2
<1> QED BY <1>1, <1>2 DEF SerializerInv

LEMMA IdleOK ==
  ASSUME NEW j, NEW st, NEW alone \in BOOLEAN, NEW r, r = NoResult \/ (r \in Result /\ ResultOK(j, r, alone))
  PROVE  JobOK(j, Idle, r, st, alone)
PROOF BY DEF JobOK, Idle, Progress, Phase, Stored

LEMMA SerializerInitInv == SerializerInit => SerializerInv
<1> SUFFICES ASSUME SerializerInit PROVE SerializerInv
  OBVIOUS
<1>0. jobs \in [Job -> Progress] /\ results \in [Job -> Result \union {NoResult}]
  BY DEF SerializerInit, Idle, Progress, Phase, Stored
<1>1. store \in [DemoKey -> Stored] /\ jsonError \in [LabTab -> BOOLEAN]
      /\ runs \in 0..MaxRuns /\ touched \subseteq Job
  BY SerializerAssumption DEF SerializerInit, Stored
<1>2. ASSUME NEW j \in Job PROVE JobOK(j, jobs[j], results[j], store, j \notin touched)
  BY IdleOK DEF SerializerInit
<1> QED BY <1>0, <1>1, <1>2 DEF SerializerInit, SerializerInv

LEMMA MutateInv ==
  ASSUME SerializerInv, NEW j \in Job, NEW value \in Payload \union {Dated, EmptyObject},
         j[2] = "caveat" => value = Dated, Mutate(j, value),
         UNCHANGED store, jsonError' \in [LabTab -> BOOLEAN]
  PROVE  SerializerInv'
<1> DEFINE p == [at |-> "set", mine |-> value, raw |-> Gone, decoded |-> Gone]
<1>1. jobs' = [jobs EXCEPT ![j] = p]
  <2>1. Idle \in [at : {"idle"}, mine : {Gone}, raw : {Gone}, decoded : {Gone}]
    BY DEF Idle
  <2>2. PICK q : q = [Idle EXCEPT !.at = "set"]
    OBVIOUS
  <2>3. [q EXCEPT !.mine = value] = p
    <3>1. q \in [at : {"set"}, mine : {Gone}, raw : {Gone}, decoded : {Gone}]
      BY <2>1, <2>2
    <3> QED BY <3>1
  <2>4. [[Idle EXCEPT !.at = "set"] EXCEPT !.mine = value] = [Idle EXCEPT !.at = "set", !.mine = value]
    OBVIOUS
  <2> QED BY <2>2, <2>3, <2>4 DEF Mutate
<1>2. JobOK(j, p, NoResult, store', j \notin touched')
  BY DEF JobOK, Progress, Phase, Stored, RunOK
<1>3. runs' \in 0..MaxRuns /\ touched' \subseteq Job /\ store' \in [DemoKey -> Stored]
  BY SerializerAssumption DEF Mutate, SerializerInv
<1>4. \A i \in Job : i # j /\ i \in touched => i \in touched'
  BY DEF Mutate
<1>5. results' = [results EXCEPT ![j] = NoResult]
  BY DEF Mutate
<1> HIDE DEF p
<1> QED BY <1>1, <1>2, <1>3, <1>4, <1>5, JobSteps

LEMMA FailsInv == ASSUME SerializerInv, NEW j \in Job, Fails(j) PROVE SerializerInv'
<1>1. jobs' = [jobs EXCEPT ![j] = Idle] /\ UNCHANGED <<store, jsonError, results, runs, touched>>
  BY DEF Fails
<1>2. results' = [results EXCEPT ![j] = results[j]]
  BY <1>1 DEF SerializerInv
<1>3. JobOK(j, Idle, results[j], store', j \notin touched')
  <2>1. JobOK(j, jobs[j], results[j], store, j \notin touched)
    BY DEF SerializerInv
  <2>2. results[j] = NoResult \/ (results[j] \in Result /\ ResultOK(j, results[j], j \notin touched'))
    BY <1>1, <2>1 DEF JobOK
  <2>3. (j \notin touched') \in BOOLEAN
    OBVIOUS
  <2> QED BY <2>2, <2>3, IdleOK
<1> QED BY <1>1, <1>2, <1>3, JobSteps DEF SerializerInv

\* A job under way has no result yet.
LEMMA UnderWay ==
  ASSUME SerializerInv, NEW j \in Job, jobs[j].at # "idle"
  PROVE  /\ jobs[j] \in Progress /\ results[j] = NoResult
         /\ results = [results EXCEPT ![j] = NoResult]
         /\ RunOK(j, jobs[j], store, j \notin touched)
<1>1. jobs[j] \in Progress /\ results[j] = NoResult /\ RunOK(j, jobs[j], store, j \notin touched)
  BY DEF SerializerInv, JobOK
<1> QED BY <1>1 DEF SerializerInv

LEMMA SetDemoInv == ASSUME SerializerInv, NEW j \in Job, SetDemo(j) PROVE SerializerInv'
<1> DEFINE p == [at |-> "getRaw", mine |-> jobs[j].mine, raw |-> jobs[j].raw,
                 decoded |-> jobs[j].decoded]
<1>1. /\ jobs[j].at = "set" /\ jobs[j].mine # EmptyObject
      /\ jobs[j] \in Progress /\ RunOK(j, jobs[j], store, j \notin touched)
      /\ jobs[j].mine \in Stored
  BY UnderWay DEF SetDemo, Progress
<1>2. results' = [results EXCEPT ![j] = NoResult]
  BY <1>1, UnderWay DEF SetDemo
<1>3. jobs' = [jobs EXCEPT ![j] = p]
  <2>1. jobs' = [jobs EXCEPT ![j].at = "getRaw"] /\ jobs \in [Job -> Progress]
    BY DEF SetDemo, SerializerInv
  <2>2. jobs'[j] = p /\ jobs' = [i \in Job |-> jobs'[i]] /\ \A i \in Job : i # j => jobs'[i] = jobs[i]
    BY <2>1 DEF Progress
  <2> QED BY <2>1, <2>2
<1>4. /\ store' = [store EXCEPT ![KeyOf[j[2]]] = jobs[j].mine]
      /\ store' \in [DemoKey -> Stored]
      /\ touched' = touched \union {i \in ReadingBack \ {j} : i[2] = j[2]} /\ touched' \subseteq Job
      /\ KeyOf[j[2]] \in DemoKey /\ KeyOf[j[2]] # "raw"
      /\ j \in touched' <=> j \in touched
  BY <1>1, JobKinds DEF SerializerInv, SetDemo, Touches, ReadingBack, DemoKey
<1>5. JobOK(j, p, NoResult, store', j \notin touched')
  <2>1. p \in Progress
    BY <1>1 DEF Progress, Phase
  <2>2. store'[KeyOf[j[2]]] = p.mine
    BY <1>4 DEF SerializerInv
  <2> QED BY <1>1, <1>4, <2>1, <2>2 DEF JobOK, RunOK
<1>6. ASSUME NEW i \in Job, i # j
      PROVE  /\ i \in touched => i \in touched'
             /\ jobs[i].at \in {"getRaw", "get"} /\ i \notin touched' =>
                  store'[KeyOf[i[2]]] = store[KeyOf[i[2]]]
             /\ jobs[i].at = "getBypass" /\ i \notin touched' => store'["raw"] = store["raw"]
  <2>1. i \in touched => i \in touched'
    BY <1>4
  <2>2. ASSUME jobs[i].at \in {"getRaw", "get"}, i \notin touched'
        PROVE  store'[KeyOf[i[2]]] = store[KeyOf[i[2]]]
    <3>1. i \in ReadingBack \ {j}
      BY <1>6, <2>2 DEF ReadingBack
    <3>2. i[2] # j[2]
      BY <1>4, <2>2, <3>1
    <3>3. KeyOf[i[2]] # KeyOf[j[2]]
      BY <3>2, JobKinds DEF KeyOf
    <3>4. KeyOf[i[2]] \in DemoKey
      BY JobKinds DEF DemoKey
    <3> QED BY <1>4, <3>3, <3>4 DEF SerializerInv
  <2>3. store'["raw"] = store["raw"]
    BY <1>4 DEF SerializerInv, DemoKey
  <2> QED BY <2>1, <2>2, <2>3
<1> HIDE DEF p
<1>7. jsonError' \in [LabTab -> BOOLEAN] /\ runs' \in 0..MaxRuns
  BY DEF SerializerInv, SetDemo
<1> QED BY <1>2, <1>3, <1>4, <1>5, <1>6, <1>7, JobSteps

LEMMA GetRawInv == ASSUME SerializerInv, NEW j \in Job, GetRaw(j) PROVE SerializerInv'
<1> DEFINE p == [at |-> "get", mine |-> jobs[j].mine, raw |-> store[KeyOf[j[2]]],
                 decoded |-> jobs[j].decoded]
<1>1. /\ jobs[j].at = "getRaw" /\ UNCHANGED <<store, jsonError, results, runs, touched>>
      /\ jobs[j] \in Progress /\ RunOK(j, jobs[j], store, j \notin touched)
      /\ results = [results EXCEPT ![j] = NoResult]
      /\ store[KeyOf[j[2]]] \in Stored
  BY UnderWay, JobKinds DEF GetRaw, SerializerInv, DemoKey
<1>2. jobs' = [jobs EXCEPT ![j] = p]
  <2>1. /\ jobs' = [jobs EXCEPT ![j].at = "get", ![j].raw = store[KeyOf[j[2]]]]
        /\ jobs \in [Job -> Progress]
    BY DEF GetRaw, SerializerInv
  <2>2. jobs'[j] = p /\ jobs' = [i \in Job |-> jobs'[i]] /\ \A i \in Job : i # j => jobs'[i] = jobs[i]
    BY <2>1 DEF Progress
  <2> QED BY <2>1, <2>2
<1>3. JobOK(j, p, NoResult, store', j \notin touched')
  <2>1. p \in Progress
    BY <1>1 DEF Progress, Phase
  <2> QED BY <1>1, <2>1 DEF JobOK, RunOK
<1> HIDE DEF p
<1> QED BY <1>1, <1>2, <1>3, JobSteps DEF SerializerInv

\* A run that ends leaves a result in order.
LEMMA FinishesInv ==
  ASSUME SerializerInv, NEW j \in Job, NEW p \in Progress, NEW bypass \in Stored,
         p.mine \in Stored, UNCHANGED <<store, jsonError, runs, touched>>,
         j \notin touched =>
           /\ p.raw = p.mine /\ p.decoded = p.mine
           /\ j[2] = "roundtrip" => bypass = p.mine
           /\ j[2] = "caveat" => p.mine = Dated,
         p.raw = Gone => bypass = Gone,
         Finishes(j, p, bypass)
  PROVE  SerializerInv'
<1> DEFINE r == [done |-> TRUE, mine |-> p.mine, raw |-> p.raw, decoded |-> p.decoded,
                 bypass |-> bypass, survived |-> Active = "msgpack" /\ p.decoded = Dated]
<1>1. jobs' = [jobs EXCEPT ![j] = Idle] /\ results' = [results EXCEPT ![j] = r]
  BY DEF Finishes
<1>2. r \in Result
  <2>1. (Active = "msgpack" /\ p.decoded = Dated) \in BOOLEAN
    OBVIOUS
  <2> QED BY <2>1 DEF Result, Progress
<1>3. ResultOK(j, r, j \notin touched')
  BY DEF ResultOK
<1> HIDE DEF r
<1>4. JobOK(j, Idle, r, store', j \notin touched')
  <2>1. (j \notin touched') \in BOOLEAN
    OBVIOUS
  <2> QED BY <1>2, <1>3, <2>1, IdleOK
<1> QED BY <1>1, <1>4, JobSteps DEF SerializerInv

LEMMA GetDecodedInv == ASSUME SerializerInv, NEW j \in Job, GetDecoded(j) PROVE SerializerInv'
<1> DEFINE key == store[KeyOf[j[2]]]
           p == [at |-> "get", mine |-> jobs[j].mine, raw |-> jobs[j].raw, decoded |-> key]
<1>1. /\ jobs[j].at = "get" /\ UNCHANGED <<store, jsonError, runs, touched>>
      /\ jobs[j] \in Progress /\ RunOK(j, jobs[j], store, j \notin touched)
      /\ results = [results EXCEPT ![j] = NoResult]
      /\ key \in Stored /\ Gone \in Stored
  BY UnderWay, JobKinds DEF GetDecoded, SerializerInv, DemoKey, Stored
<1>2. [jobs[j] EXCEPT !.decoded = key] = p /\ p \in Progress /\ p.mine \in Stored
  BY <1>1, SerializerAssumption DEF Progress, Stored, RunOK
<1>3. IF j[2] = "caveat" \/ p.raw = Gone
        THEN Finishes(j, p, Gone)
        ELSE jobs' = [jobs EXCEPT ![j] = [p EXCEPT !.at = "setRaw"]] /\ UNCHANGED results
  BY <1>2 DEF GetDecoded
<1>4. j \notin touched => p.raw = p.mine /\ p.decoded = p.mine /\ p.mine # Gone
  BY <1>1, SerializerAssumption DEF RunOK, Gone, Dated, EmptyObject
<1>5. j[2] = "caveat" => p.mine = Dated
  BY <1>1 DEF RunOK
<1>6. CASE j[2] = "caveat" \/ p.raw = Gone
  <2>1. Finishes(j, p, Gone)
    BY <1>3, <1>6
  <2>2. j[2] = "roundtrip" /\ j \notin touched => Gone = p.mine
    BY <1>4, <1>6
  <2> HIDE DEF p
  <2> QED BY <1>1, <1>2, <1>4, <1>5, <2>1, <2>2, FinishesInv
<1>7. CASE ~(j[2] = "caveat" \/ p.raw = Gone)
  <2> DEFINE q == [at |-> "setRaw", mine |-> jobs[j].mine, raw |-> jobs[j].raw, decoded |-> key]
  <2>1. jobs' = [jobs EXCEPT ![j] = q] /\ UNCHANGED results
    <3>1. [p EXCEPT !.at = "setRaw"] = q
      BY <1>2 DEF Progress
    <3> QED BY <1>3, <1>7, <3>1
  <2>2. q \in Progress
    BY <1>1 DEF Progress, Phase
  <2>3. j[2] = "roundtrip"
    BY <1>7, JobKinds
  <2>4. JobOK(j, q, NoResult, store', j \notin touched')
    BY <1>1, <1>4, <1>5, <1>7, <2>2, <2>3 DEF JobOK, RunOK
  <2> HIDE DEF q
  <2> QED BY <1>1, <2>1, <2>4, JobSteps DEF SerializerInv
<1> QED BY <1>6, <1>7

LEMMA SetBypassInv == ASSUME SerializerInv, NEW j \in Job, SetBypass(j) PROVE SerializerInv'
<1> DEFINE p == [at |-> "getBypass", mine |-> jobs[j].mine, raw |-> jobs[j].raw,
                 decoded |-> jobs[j].decoded]
<1>1. /\ jobs[j].at = "setRaw" /\ UNCHANGED <<jsonError, results, runs>>
      /\ jobs[j] \in Progress /\ RunOK(j, jobs[j], store, j \notin touched)
      /\ results = [results EXCEPT ![j] = NoResult]
      /\ jobs[j].raw \in Stored /\ j[2] = "roundtrip"
  BY UnderWay DEF SetBypass, Progress, RunOK
<1>2. jobs' = [jobs EXCEPT ![j] = p]
  <2>1. jobs' = [jobs EXCEPT ![j].at = "getBypass"] /\ jobs \in [Job -> Progress]
    BY DEF SetBypass, SerializerInv
  <2>2. jobs'[j] = p /\ jobs' = [i \in Job |-> jobs'[i]] /\ \A i \in Job : i # j => jobs'[i] = jobs[i]
    BY <2>1 DEF Progress
  <2> QED BY <2>1, <2>2
<1>3. /\ store' = [store EXCEPT !["raw"] = jobs[j].raw]
      /\ store' \in [DemoKey -> Stored]
      /\ touched' = touched \union {i \in ReadingBack \ {j} : i[2] = j[2]} /\ touched' \subseteq Job
      /\ j \in touched' <=> j \in touched
  BY <1>1 DEF SerializerInv, SetBypass, Touches, ReadingBack
<1>4. JobOK(j, p, NoResult, store', j \notin touched')
  <2>1. p \in Progress
    BY <1>1 DEF Progress, Phase
  <2>2. store'["raw"] = p.raw
    BY <1>3 DEF SerializerInv, DemoKey
  <2> QED BY <1>1, <1>3, <2>1, <2>2 DEF JobOK, RunOK
<1>5. ASSUME NEW i \in Job, i # j
      PROVE  /\ i \in touched => i \in touched'
             /\ jobs[i].at \in {"getRaw", "get"} /\ i \notin touched' =>
                  store'[KeyOf[i[2]]] = store[KeyOf[i[2]]]
             /\ jobs[i].at = "getBypass" /\ i \notin touched' => store'["raw"] = store["raw"]
  <2>1. i \in touched => i \in touched'
    BY <1>3
  <2>2. store'[KeyOf[i[2]]] = store[KeyOf[i[2]]]
    <3>1. KeyOf[i[2]] \in DemoKey \ {"raw"}
      BY JobKinds DEF DemoKey
    <3> QED BY <1>3, <3>1 DEF SerializerInv
  <2>3. ASSUME jobs[i].at = "getBypass", i \notin touched' PROVE FALSE
    <3>1. i \in ReadingBack \ {j}
      BY <1>5, <2>3 DEF ReadingBack
    <3>2. i[2] = "roundtrip"
      BY <2>3, UnderWay DEF RunOK
    <3> QED BY <1>1, <1>3, <2>3, <3>1, <3>2
  <2> QED BY <2>1, <2>2, <2>3
<1> HIDE DEF p
<1>6. jsonError' \in [LabTab -> BOOLEAN] /\ runs' \in 0..MaxRuns
  BY <1>1 DEF SerializerInv
<1> QED BY <1>1, <1>2, <1>3, <1>4, <1>5, <1>6, JobSteps

LEMMA GetBypassInv == ASSUME SerializerInv, NEW j \in Job, GetBypass(j) PROVE SerializerInv'
<1>1. /\ jobs[j].at = "getBypass" /\ UNCHANGED <<store, jsonError, runs, touched>>
      /\ jobs[j] \in Progress /\ RunOK(j, jobs[j], store, j \notin touched)
      /\ Finishes(j, jobs[j], store["raw"]) /\ store["raw"] \in Stored
  BY UnderWay DEF GetBypass, SerializerInv, DemoKey
<1>2. jobs[j].mine \in Stored
  BY <1>1 DEF RunOK, Stored
<1> QED BY <1>1, <1>2, FinishesInv DEF RunOK

LEMMA RemovedInv == ASSUME SerializerInv, NEW k \in DemoKey, Removed(k) PROVE SerializerInv'
<1>1. /\ store' = [store EXCEPT ![k] = Gone] /\ touched' = touched \union ReadingBack
      /\ UNCHANGED <<jsonError, jobs, results, runs>>
  BY DEF Removed
<1>2. store' \in [DemoKey -> Stored] /\ touched' \subseteq Job
  BY <1>1 DEF SerializerInv, Stored, ReadingBack
<1>3. ASSUME NEW j \in Job PROVE JobOK(j, jobs'[j], results'[j], store', j \notin touched')
  <2>1. JobOK(j, jobs[j], results[j], store, j \notin touched)
    BY DEF SerializerInv
  <2>2. jobs[j].at \in {"getRaw", "get", "getBypass"} => j \in touched'
    BY <1>1 DEF ReadingBack
  <2>3. (j \notin touched) \in BOOLEAN /\ (j \notin touched') \in BOOLEAN
        /\ (j \notin touched' => j \notin touched)
    BY <1>1
  <2>4. JobOK(j, jobs[j], results[j], store', j \notin touched')
    BY <2>1, <2>2, <2>3, JobStands
  <2> QED BY <1>1, <2>4
<1> QED BY <1>1, <1>2, <1>3 DEF SerializerInv

LEMMA SerializerInvNext == SerializerInv /\ [SerializerNext]_serializerVars => SerializerInv'
<1> SUFFICES ASSUME SerializerInv, [SerializerNext]_serializerVars PROVE SerializerInv'
  OBVIOUS
<1>1. ASSUME NEW t \in LabTab, NEW text \in Input, HandleRoundtrip(t, text) PROVE SerializerInv'
  <2>1. jsonError' \in [LabTab -> BOOLEAN] /\ UNCHANGED store
    <3>1. (text = Invalid) \in BOOLEAN
      OBVIOUS
    <3> QED BY <1>1, <3>1 DEF HandleRoundtrip, SerializerInv
  <2>2. CASE text = Invalid
    BY <1>1, <2>1, <2>2 DEF HandleRoundtrip, SerializerInv
  <2>3. CASE text # Invalid
    <3>1. <<t, "roundtrip">> \in Job /\ <<t, "roundtrip">>[2] = "roundtrip"
      BY DEF Job
    <3>2. Mutate(<<t, "roundtrip">>, text) /\ text \in Payload \union {Dated, EmptyObject}
      BY <1>1, <2>3 DEF HandleRoundtrip, Input
    <3> QED BY <2>1, <3>1, <3>2, MutateInv
  <2> QED BY <2>2, <2>3
<1>2. ASSUME NEW t \in LabTab, RunCaveat(t) PROVE SerializerInv'
  <2>1. <<t, "caveat">> \in Job
    BY DEF Job
  <2>2. Mutate(<<t, "caveat">>, Dated) /\ UNCHANGED <<store, jsonError>>
    BY <1>2 DEF RunCaveat
  <2>3. jsonError' \in [LabTab -> BOOLEAN]
    BY <2>2 DEF SerializerInv
  <2> QED BY <2>1, <2>2, <2>3, MutateInv
<1>3. CASE UNCHANGED serializerVars
  BY <1>3 DEF serializerVars, SerializerInv
<1> QED
  BY <1>1, <1>2, <1>3, FailsInv, SetDemoInv, GetRawInv, GetDecodedInv, SetBypassInv,
     GetBypassInv, RemovedInv DEF SerializerNext

LEMMA SerializerShows == SerializerInv => SerializerTypeOK /\ RoundTripWhole
PROOF BY DEF SerializerInv, SerializerTypeOK, RoundTripWhole, JobOK, ResultOK, NoResult

\* SerializerLab.RoundTripWhole, serializer-demo.service.ts, SerializerView.tsx: what a
\* tab shows of its last run is of what that run sent.
THEOREM RoundTripWholeHolds == SerializerSpec => [](SerializerTypeOK /\ RoundTripWhole)
<1>1. SerializerInit => SerializerInv
  BY SerializerInitInv
<1>2. SerializerInv /\ [SerializerNext]_serializerVars => SerializerInv'
  BY SerializerInvNext
<1>3. SerializerInv => SerializerTypeOK /\ RoundTripWhole
  BY SerializerShows
<1> QED BY <1>1, <1>2, <1>3, PTL DEF SerializerSpec

-----------------------------------------------------------------------------
(* The stampede page *)

\* Rounding a quotient of no more than m times the divisor.
LEMMA QuotientBound ==
  ASSUME NEW c \in Nat, NEW o \in Nat \ {0}, o <= c
  PROVE  (2 * c + o) \div (2 * o) \in 1..c
<1> DEFINE d == 2 * o
           n == 2 * c + o
           q == n \div d
<1>1. d \in Nat \ {0} /\ n \in Nat
  OBVIOUS
<1>2. q \in Nat /\ d * q <= n /\ n < d * (q + 1)
  BY <1>1
<1>3. q >= 1
  <2>1. n >= d
    OBVIOUS
  <2>2. q # 0
    BY <1>1, <1>2, <2>1
  <2> QED BY <1>2, <2>2
<1>4. q <= c
  BY <1>2
<1> QED BY <1>2, <1>3, <1>4

\* What was typed is clamped between the bounds.
LEMMA Clamped ==
  ASSUME NEW raw \in NumberText, NEW min \in Int, NEW max \in Int, NEW d \in min..max
  PROVE  clampInt(raw, min, max, d) \in min..max
BY LabAssumption DEF clampInt

\* From the click to the answer: as many contenders as announced, and a summary that
\* counts them.
Fired ==
  /\ burst.request.concurrency = announced /\ announced \in MinConcurrency..MaxConcurrency
  /\ burst.request.lockMs \in MinLockMs..MaxLockMs

Counted ==
  LET r == burst.result IN
  /\ r.lanes \in [1..announced -> Lane] /\ r.concurrency = announced
  /\ r.originFetches = Cardinality(LanesThat(r.lanes, "origin"))
  /\ r.cacheHits = Cardinality(LanesThat(r.lanes, "hit"))

BurstInv ==
  /\ LabTypeOK
  /\ burst.at \in {"pending", "served", "refused", "shown"} => Fired
  /\ burst.at \in {"served", "shown"} => Counted
  /\ burst.at = "refused" => burst.request.productId \notin SafeId

\* The lanes are origin fetches and hits, each one of the two.
LEMMA LanesAddUp ==
  ASSUME NEW n \in Nat, NEW lanes \in [1..n -> Lane]
  PROVE  /\ Cardinality(DOMAIN lanes) = n
         /\ Cardinality(LanesThat(lanes, "origin")) \in 0..n
         /\ Cardinality(LanesThat(lanes, "hit")) \in 0..n
         /\ Cardinality(LanesThat(lanes, "origin")) + Cardinality(LanesThat(lanes, "hit")) = n
<1> DEFINE O == LanesThat(lanes, "origin")
           H == LanesThat(lanes, "hit")
<1>1. IsFiniteSet(1..n) /\ Cardinality(1..n) = n /\ DOMAIN lanes = 1..n
  BY FS_Interval
<1>2. O \subseteq 1..n /\ H \subseteq 1..n /\ O \union H = 1..n /\ O \intersect H = {}
  BY DEF LanesThat, Lane, LaneOutcome
<1> HIDE DEF O, H
<1>3. IsFiniteSet(O) /\ IsFiniteSet(H) /\ Cardinality(O) \in Nat /\ Cardinality(H) \in Nat
  BY <1>1, <1>2, FS_Subset, FS_CardinalityType
<1>4. Cardinality(O \union H) = Cardinality(O) + Cardinality(H) - Cardinality(O \intersect H)
  BY <1>3, FS_Union
<1>5. n = Cardinality(O) + Cardinality(H) - 0
  BY <1>1, <1>2, <1>4, FS_EmptySet
<1>6. Cardinality(O) + Cardinality(H) = n /\ Cardinality(O) \in 0..n /\ Cardinality(H) \in 0..n
  BY <1>3, <1>5
<1> QED BY <1>1, <1>6 DEF O, H

LEMMA BurstShows == BurstInv => BurstAddsUp
<1> SUFFICES ASSUME BurstInv, burst.at = "shown"
             PROVE  LET r == burst.result
                    IN  /\ Cardinality(DOMAIN r.lanes) = announced
                        /\ r.originFetches + r.cacheHits = announced
                        /\ LoadReduction \in 1..announced
  BY DEF BurstAddsUp, BurstInv
<1> DEFINE r == burst.result
<1>1. Counted /\ Fired
  BY DEF BurstInv
<1>2. announced \in Nat \ {0}
  BY <1>1, LabAssumption DEF Fired
<1>3. /\ r.lanes \in [1..announced -> Lane] /\ r.concurrency = announced
      /\ r.originFetches = Cardinality(LanesThat(r.lanes, "origin"))
      /\ r.cacheHits = Cardinality(LanesThat(r.lanes, "hit"))
  BY <1>1 DEF Counted
<1>4. /\ Cardinality(DOMAIN r.lanes) = announced
      /\ r.originFetches \in 0..announced /\ r.cacheHits \in 0..announced
      /\ r.originFetches + r.cacheHits = announced
  BY <1>2, <1>3, LanesAddUp
<1>5. LoadReduction \in 1..announced
  <2>1. CASE r.originFetches = 0
    BY <1>2, <1>3, <2>1 DEF LoadReduction
  <2>2. CASE r.originFetches # 0
    <3>1. (2 * announced + r.originFetches) \div (2 * r.originFetches) \in 1..announced
      BY <1>2, <1>4, <2>2, QuotientBound
    <3> QED BY <1>3, <2>2, <3>1 DEF LoadReduction
  <2> QED BY <2>1, <2>2
<1> QED BY <1>4, <1>5

LEMMA NobodyType == Nobody \in Summary
BY DEF Nobody, Summary

LEMMA BurstInitInv == LabInit => BurstInv
<1> SUFFICES ASSUME LabInit PROVE BurstInv
  OBVIOUS
<1>1. /\ productId \in ProductText /\ concurrency \in NumberText /\ lockMs \in NumberText
      /\ announced = 0 /\ bursts \in 0..MaxBursts
  BY LabAssumption DEF LabInit
<1>2. burst.at = "idle" /\ burst.request \in Request /\ burst.result = Nobody
      /\ burst = [at |-> "idle", result |-> burst.result, request |-> burst.request]
  BY LabAssumption DEF LabInit, NoBurst, Request
<1> QED BY <1>1, <1>2, NobodyType DEF BurstInv, LabTypeOK

LEMMA BurstInvNext == BurstInv /\ [LabNext]_labVars => BurstInv'
<1> SUFFICES ASSUME BurstInv, [LabNext]_labVars PROVE BurstInv'
  OBVIOUS
<1> DEFINE At == {"idle", "pending", "served", "refused", "shown", "failed"}
           B  == [at : At, result : Summary, request : Request]
<1>1. /\ productId \in ProductText /\ concurrency \in NumberText /\ lockMs \in NumberText
      /\ burst \in B /\ announced \in Int /\ bursts \in 0..MaxBursts
      /\ burst.at \in {"pending", "served", "refused", "shown"} => Fired
      /\ burst.at \in {"served", "shown"} => Counted
      /\ burst.at = "refused" => burst.request.productId \notin SafeId
  BY DEF BurstInv, LabTypeOK
<1>2. ASSUME productId' \in ProductText, {concurrency', lockMs'} \subseteq NumberText,
             burst' \in B, announced' \in Int, bursts' \in 0..MaxBursts,
             burst'.at \in {"pending", "served", "refused", "shown"} => Fired',
             burst'.at \in {"served", "shown"} => Counted',
             burst'.at = "refused" => burst'.request.productId \notin SafeId
      PROVE  BurstInv'
  BY <1>2 DEF BurstInv, LabTypeOK
<1>3. CASE FireBurst
  <2> DEFINE c == clampInt(concurrency, MinConcurrency, MaxConcurrency, DefaultConcurrency)
             l == clampInt(lockMs, MinLockMs, MaxLockMs, DefaultLockMs)
             req == [productId |-> productId, concurrency |-> c, lockMs |-> l]
  <2>1. c \in MinConcurrency..MaxConcurrency /\ l \in MinLockMs..MaxLockMs
    <3>1. {MinConcurrency, MaxConcurrency, MinLockMs, MaxLockMs} \subseteq Int
      BY LabAssumption
    <3>2. c \in MinConcurrency..MaxConcurrency
      BY <1>1, <3>1, Clamped, LabAssumption
    <3>3. l \in MinLockMs..MaxLockMs
      BY <1>1, <3>1, Clamped, LabAssumption
    <3> QED BY <3>2, <3>3
  <2>2. /\ burst' = [at |-> "pending", result |-> Nobody, request |-> req]
        /\ announced' = c /\ UNCHANGED <<productId, concurrency, lockMs>>
        /\ bursts < MaxBursts /\ bursts' = bursts + 1
    BY <1>3 DEF FireBurst, NoBurst, Fields
  <2> HIDE DEF c, l
  <2>3. bursts' \in 0..MaxBursts
    BY <1>1, <2>2, LabAssumption
  <2>4. req \in Request /\ announced' \in Int /\ burst' \in B
    BY <1>1, <2>1, <2>2, LabAssumption, NobodyType DEF Request
  <2>5. Fired' /\ burst'.at = "pending"
    BY <2>1, <2>2 DEF Fired
  <2> QED BY <1>1, <1>2, <2>2, <2>3, <2>4, <2>5
<1>4. CASE Refuse
  <2>1. /\ burst.at = "pending" /\ burst' = [burst EXCEPT !.at = "refused"]
        /\ UNCHANGED <<productId, concurrency, lockMs, announced, bursts>> /\ ~Accepted(burst.request)
    BY <1>4 DEF Refuse, Fields
  <2>2. burst'.at = "refused" /\ burst'.request = burst.request /\ burst' \in B
    BY <1>1, <2>1
  <2>3. Fired' /\ burst.request.productId \notin SafeId
    BY <1>1, <2>1, <2>2 DEF Accepted, Fired
  <2> QED BY <1>1, <1>2, <2>1, <2>2, <2>3
<1>5. CASE RunBurst
  <2>1. PICK lanes \in [1..burst.request.concurrency -> Lane] :
          burst' = [burst EXCEPT !.at = "served", !.result =
            [lanes |-> lanes, concurrency |-> burst.request.concurrency,
             originFetches |-> Cardinality(LanesThat(lanes, "origin")),
             cacheHits |-> Cardinality(LanesThat(lanes, "hit"))]]
    BY <1>5 DEF RunBurst
  <2>2. /\ burst.at = "pending" /\ UNCHANGED <<productId, concurrency, lockMs, announced, bursts>>
        /\ burst.request.concurrency = announced /\ announced \in Nat
    BY <1>1, <1>5, LabAssumption DEF RunBurst, Fields, Fired
  <2>3. /\ Cardinality(LanesThat(lanes, "origin")) \in Nat /\ Cardinality(LanesThat(lanes, "hit")) \in Nat
    BY <2>2, LanesAddUp
  <2> DEFINE sum == [lanes |-> lanes, concurrency |-> burst.request.concurrency,
                     originFetches |-> Cardinality(LanesThat(lanes, "origin")),
                     cacheHits |-> Cardinality(LanesThat(lanes, "hit"))]
  <2>4. sum \in Summary
    <3>1. lanes \in Seq(Lane)
      BY <2>2
    <3> QED BY <2>2, <2>3, <3>1 DEF Summary
  <2>5. /\ sum.lanes = lanes /\ sum.concurrency = announced
        /\ sum.originFetches = Cardinality(LanesThat(lanes, "origin"))
        /\ sum.cacheHits = Cardinality(LanesThat(lanes, "hit"))
    BY <2>2
  <2> HIDE DEF sum
  <2>6. burst' = [at |-> "served", result |-> sum, request |-> burst.request]
    BY <1>1, <2>1 DEF sum
  <2>7. burst'.at = "served" /\ burst'.request = burst.request /\ burst'.result = sum /\ burst' \in B
    BY <1>1, <2>4, <2>6
  <2>8. Fired' /\ Counted'
    BY <1>1, <2>2, <2>5, <2>7 DEF Fired, Counted
  <2> QED BY <1>1, <1>2, <2>2, <2>7, <2>8
<1>6. CASE ShowBurst
  <2>1. /\ burst.at = "served" /\ burst' = [burst EXCEPT !.at = "shown"]
        /\ UNCHANGED <<productId, concurrency, lockMs, announced, bursts>>
    BY <1>6 DEF ShowBurst, Fields
  <2>2. burst'.at = "shown" /\ burst'.request = burst.request /\ burst'.result = burst.result /\ burst' \in B
    BY <1>1, <2>1
  <2>3. Fired' /\ Counted'
    BY <1>1, <2>1, <2>2 DEF Fired, Counted
  <2> QED BY <1>1, <1>2, <2>1, <2>2, <2>3
<1>7. CASE BurstFails
  <2>1. /\ burst' = [at |-> "failed", result |-> Nobody, request |-> burst.request]
        /\ UNCHANGED <<productId, concurrency, lockMs, announced, bursts>>
    BY <1>7 DEF BurstFails, Fields, NoBurst
  <2>2. burst' \in B /\ burst'.at = "failed"
    BY <1>1, <2>1, NobodyType
  <2> QED BY <1>1, <1>2, <2>1, <2>2
<1>8. CASE \/ \E text \in ProductText : TypeProduct(text)
           \/ \E n \in NumberText : TypeConcurrency(n) \/ TypeLockMs(n)
           \/ UNCHANGED labVars
  <2>1. /\ UNCHANGED <<burst, announced, bursts>> /\ productId' \in ProductText
        /\ {concurrency', lockMs'} \subseteq NumberText
    BY <1>1, <1>8 DEF TypeProduct, TypeConcurrency, TypeLockMs, labVars
  <2> QED BY <1>1, <1>2, <2>1 DEF Fired, Counted
<1> QED BY <1>3, <1>4, <1>5, <1>6, <1>7, <1>8 DEF LabNext

\* StampedeView.tsx, stampede-query.dto.ts, StampedeTimeline.tsx: no number that can be
\* typed makes the API refuse a burst, and what is shown of one adds up.
THEOREM BurstAddsUpHolds == LabSpec => []BurstAddsUp
BY BurstInitInv, BurstInvNext, BurstShows, PTL DEF LabSpec

-----------------------------------------------------------------------------
(* The error catalogue *)

\* The newest request is of the code selected, an answer of the code that was asked for,
\* but for a command that failed, and the newest answer is the one shown.
ErrorInv ==
  /\ ErrorTypeOK /\ LastTrigger \in Nat
  /\ LastTrigger > 0 => triggers[LastTrigger].code = selected
  /\ \A i \in Sent : triggers[i].at = "answered" => answers[i].code = triggers[i].code \/ i \in faulted
  /\ ResponseOfSelected

LEMMA ErrorTypes ==
  ASSUME ErrorInv
  PROVE  /\ {corrupted, isProdGuard} \subseteq BOOLEAN
         /\ Sent = 1..LastTrigger /\ LastTrigger \in Nat /\ LastTrigger <= MaxTriggers
         /\ LastTrigger > 0 => LastTrigger \in Sent
         /\ triggers \in [Sent -> Trigger] /\ answers \in [Sent -> ErrorAnswer \union {NoAnswer}]
         /\ selected \in Code \union {NoCode} /\ response \in ErrorAnswer \union {NoAnswer}
         /\ faulted \subseteq Sent
         /\ LastTrigger > 0 => triggers[LastTrigger].code = selected
         /\ \A i \in Sent : triggers[i].at = "answered" => answers[i].code = triggers[i].code \/ i \in faulted
         /\ response # NoAnswer => response.code = selected \/ LastTrigger \in faulted
         /\ LastTrigger > 0 /\ triggers[LastTrigger].at # "done" => response = NoAnswer
<1>1. /\ {corrupted, isProdGuard} \subseteq BOOLEAN
      /\ Sent = 1..LastTrigger /\ LastTrigger \in Nat /\ LastTrigger <= MaxTriggers
      /\ triggers \in [Sent -> Trigger] /\ answers \in [Sent -> ErrorAnswer \union {NoAnswer}]
      /\ selected \in Code \union {NoCode} /\ response \in ErrorAnswer \union {NoAnswer}
      /\ faulted \subseteq Sent
  BY DEF ErrorInv, ErrorTypeOK
<1>2. LastTrigger > 0 => LastTrigger \in Sent
  BY <1>1
<1> QED BY <1>1, <1>2 DEF ErrorInv, ResponseOfSelected, IsPending

\* A step of request i, which stays of its code; the others stay as they are.
LEMMA TriggerStep ==
  ASSUME ErrorInv, NEW i \in Sent, NEW at \in {"sent", "written", "answered", "done"},
         triggers' = [triggers EXCEPT ![i].at = at]
  PROVE  /\ Sent' = Sent /\ LastTrigger' = LastTrigger /\ triggers' \in [Sent -> Trigger]
         /\ triggers'[i].at = at /\ \A j \in Sent : triggers'[j].code = triggers[j].code
         /\ \A j \in Sent : j # i => triggers'[j] = triggers[j]
<1>1. triggers \in [Sent -> Trigger] /\ triggers[i] \in Trigger
  BY ErrorTypes
<1>2. DOMAIN triggers' = DOMAIN triggers
  BY <1>1
<1>3. Sent' = Sent /\ LastTrigger' = LastTrigger
  BY <1>2 DEF Sent, LastTrigger
<1>4. /\ triggers'[i] = [triggers[i] EXCEPT !.at = at]
      /\ \A j \in Sent : j # i => triggers'[j] = triggers[j]
  BY <1>1
<1>5. /\ triggers'[i] \in Trigger /\ triggers'[i].at = at /\ triggers'[i].code = triggers[i].code
  BY <1>1, <1>4 DEF Trigger
<1>6. triggers' \in [Sent -> Trigger]
  <2>1. DOMAIN triggers' = Sent /\ \A j \in Sent : triggers'[j] \in Trigger
    BY <1>1, <1>2, <1>4, <1>5
  <2>2. triggers' = [j \in Sent |-> triggers'[j]]
    BY <2>1, <1>1
  <2> QED BY <2>1, <2>2
<1> QED BY <1>3, <1>4, <1>5, <1>6

\* What such a step must keep.
LEMMA ErrorBack ==
  ASSUME ErrorInv, NEW i \in Sent, NEW at \in {"sent", "written", "answered", "done"},
         triggers' = [triggers EXCEPT ![i].at = at],
         corrupted' \in BOOLEAN, UNCHANGED <<selected, isProdGuard>>,
         answers' \in [Sent -> ErrorAnswer \union {NoAnswer}],
         \A j \in Sent : j # i => answers'[j] = answers[j],
         faulted \subseteq faulted', faulted' \subseteq Sent,
         at = "answered" => answers'[i].code = triggers[i].code \/ i \in faulted',
         response' \in ErrorAnswer \union {NoAnswer},
         response' # NoAnswer => response'.code = selected \/ LastTrigger \in faulted',
         i = LastTrigger => at = "done" \/ response' = NoAnswer,
         i # LastTrigger => response' = response
  PROVE  ErrorInv'
<1>1. /\ Sent' = Sent /\ LastTrigger' = LastTrigger /\ triggers' \in [Sent -> Trigger]
      /\ triggers'[i].at = at /\ \A j \in Sent : triggers'[j].code = triggers[j].code
      /\ \A j \in Sent : j # i => triggers'[j] = triggers[j]
  BY TriggerStep
<1>2. /\ Sent = 1..LastTrigger /\ LastTrigger \in Nat /\ LastTrigger <= MaxTriggers
      /\ LastTrigger > 0 => LastTrigger \in Sent
      /\ selected \in Code \union {NoCode} /\ isProdGuard \in BOOLEAN
      /\ LastTrigger > 0 => triggers[LastTrigger].code = selected
      /\ \A j \in Sent : triggers[j].at = "answered" => answers[j].code = triggers[j].code \/ j \in faulted
      /\ LastTrigger > 0 /\ triggers[LastTrigger].at # "done" => response = NoAnswer
  BY ErrorTypes
<1>3. ErrorTypeOK'
  BY <1>1, <1>2 DEF ErrorTypeOK
<1>4. \A j \in Sent : triggers'[j].at = "answered" => answers'[j].code = triggers'[j].code \/ j \in faulted'
  BY <1>1, <1>2
<1>5. LastTrigger' > 0 => triggers'[LastTrigger'].code = selected'
  BY <1>1, <1>2
<1>6. LastTrigger' > 0 /\ triggers'[LastTrigger'].at # "done" => response' = NoAnswer
  <2>1. CASE i = LastTrigger
    BY <1>1, <2>1
  <2>2. CASE i # LastTrigger
    BY <1>1, <1>2, <2>2
  <2> QED BY <2>1, <2>2
<1>7. ResponseOfSelected'
  BY <1>1, <1>6 DEF ResponseOfSelected, IsPending
<1> QED BY <1>1, <1>2, <1>3, <1>4, <1>5, <1>7 DEF ErrorInv

LEMMA ErrorInitInv == ErrorInit => ErrorInv
<1> SUFFICES ASSUME ErrorInit PROVE ErrorInv
  OBVIOUS
<1>1. Sent = {} /\ LastTrigger = 0
  <2>1. DOMAIN <<>> = {}
    OBVIOUS
  <2> QED BY <2>1, FS_EmptySet DEF ErrorInit, Sent, LastTrigger
<1>2. ErrorTypeOK
  <2>1. triggers \in [{} -> Trigger] /\ answers \in [{} -> ErrorAnswer \union {NoAnswer}]
    BY DEF ErrorInit
  <2>2. 1..LastTrigger = {} /\ LastTrigger <= MaxTriggers
    BY <1>1, ErrorAssumption
  <2> QED BY <1>1, <2>1, <2>2 DEF ErrorInit, ErrorTypeOK
<1> QED BY <1>1, <1>2 DEF ErrorInv, ErrorInit, ResponseOfSelected, IsPending

\* A new request is the newest, and nothing is shown until it is answered.
LEMMA MutationInv == ASSUME ErrorInv, NEW c \in Code, Mutation(c) PROVE ErrorInv'
<1> DEFINE n == LastTrigger
<1>1. /\ Sent = 1..n /\ n \in Nat /\ triggers \in [Sent -> Trigger]
      /\ answers \in [Sent -> ErrorAnswer \union {NoAnswer}] /\ faulted \subseteq Sent
      /\ {corrupted, isProdGuard} \subseteq BOOLEAN
      /\ \A j \in Sent : triggers[j].at = "answered" => answers[j].code = triggers[j].code \/ j \in faulted
  BY ErrorTypes
<1>2. /\ n < MaxTriggers
      /\ triggers' = [i \in 1..(n + 1) |-> IF i \in Sent THEN triggers[i] ELSE [code |-> c, at |-> "sent"]]
      /\ answers' = [i \in 1..(n + 1) |-> IF i \in Sent THEN answers[i] ELSE NoAnswer]
      /\ selected' = c /\ response' = NoAnswer /\ UNCHANGED <<corrupted, isProdGuard, faulted>>
  BY DEF Mutation
<1>3. Sent' = 1..(n + 1) /\ LastTrigger' = n + 1
  <2>1. Sent' = 1..(n + 1)
    BY <1>2 DEF Sent
  <2> QED BY <1>1, <2>1, FS_Interval DEF LastTrigger
<1> HIDE DEF n
<1>4. /\ \A i \in Sent : i \in Sent' /\ triggers'[i] = triggers[i] /\ answers'[i] = answers[i]
      /\ n + 1 \in Sent' /\ n + 1 \notin Sent /\ \A i \in Sent' : i \in Sent \/ i = n + 1
  BY <1>1, <1>2, <1>3
<1>5. triggers'[n + 1] = [code |-> c, at |-> "sent"] /\ answers'[n + 1] = NoAnswer
  BY <1>2, <1>3, <1>4
<1>6. triggers' \in [Sent' -> Trigger] /\ answers' \in [Sent' -> ErrorAnswer \union {NoAnswer}]
  <2>1. [code |-> c, at |-> "sent"] \in Trigger
    BY DEF Trigger
  <2>2. \A i \in Sent' : triggers'[i] \in Trigger /\ answers'[i] \in ErrorAnswer \union {NoAnswer}
    BY <1>1, <1>4, <1>5, <2>1
  <2> QED BY <1>2, <1>3, <2>2
<1>7. ErrorTypeOK'
  BY <1>1, <1>2, <1>3, <1>4, <1>6, ErrorAssumption DEF ErrorTypeOK
<1>8. \A i \in Sent' : triggers'[i].at = "answered" => answers'[i].code = triggers'[i].code \/ i \in faulted'
  BY <1>1, <1>2, <1>4, <1>5
<1>9. triggers'[LastTrigger'].code = selected'
  BY <1>2, <1>3, <1>5
<1>10. ResponseOfSelected'
  BY <1>2 DEF ResponseOfSelected
<1> QED BY <1>1, <1>3, <1>7, <1>8, <1>9, <1>10 DEF ErrorInv

LEMMA ServedInv ==
  ASSUME ErrorInv, NEW i \in Sent,
         RaiseAtOnce(i) \/ WriteCorrupt(i) \/ ReadCorrupt(i) \/ CommandFails(i)
  PROVE  ErrorInv'
<1>1. /\ triggers \in [Sent -> Trigger] /\ triggers[i] \in Trigger /\ answers \in [Sent -> ErrorAnswer \union {NoAnswer}]
      /\ faulted \subseteq Sent /\ {corrupted, isProdGuard} \subseteq BOOLEAN
      /\ response \in ErrorAnswer \union {NoAnswer}
      /\ response # NoAnswer => response.code = selected \/ LastTrigger \in faulted
      /\ i = LastTrigger /\ triggers[LastTrigger].at # "done" => response = NoAnswer
  BY ErrorTypes
<1>2. triggers[i].at # "done" /\ UNCHANGED <<selected, isProdGuard, response>> /\ corrupted' \in BOOLEAN
  BY <1>1 DEF RaiseAtOnce, WriteCorrupt, ReadCorrupt, CommandFails
<1>3. CASE WriteCorrupt(i)
  <2>1. triggers' = [triggers EXCEPT ![i].at = "written"] /\ UNCHANGED <<answers, faulted>>
    BY <1>3 DEF WriteCorrupt
  <2> QED BY <1>1, <1>2, <2>1, ErrorBack
<1>4. ASSUME NEW code, NEW simulated \in BOOLEAN, Responds(i, code, simulated),
             \/ code = triggers[i].code /\ UNCHANGED faulted
             \/ code = Other /\ faulted' = faulted \union {i}
      PROVE  ErrorInv'
  <2>1. /\ triggers' = [triggers EXCEPT ![i].at = "answered"]
        /\ answers' = [answers EXCEPT ![i] = [code |-> code, simulated |-> simulated]]
    BY <1>4 DEF Responds
  <2>2. [code |-> code, simulated |-> simulated] \in ErrorAnswer
    BY <1>1, <1>4 DEF ErrorAnswer, Trigger
  <2>3. /\ answers' \in [Sent -> ErrorAnswer \union {NoAnswer}]
        /\ \A j \in Sent : j # i => answers'[j] = answers[j]
        /\ answers'[i].code = code
    BY <1>1, <2>1, <2>2
  <2>4. faulted \subseteq faulted' /\ faulted' \subseteq Sent /\ (code = triggers[i].code \/ i \in faulted')
    BY <1>1, <1>4
  <2> QED BY <1>1, <1>2, <2>1, <2>3, <2>4, ErrorBack
<1>5. CASE RaiseAtOnce(i)
  <2> DEFINE c == triggers[i].code
             b == \/ Way[c] = "simulate"
                  \/ Way[c] = "serialize" /\ ~JsonCodec
                  \/ Way[c] = "cluster" /\ ~Cluster
  <2>1. Responds(i, c, b) /\ UNCHANGED faulted /\ b \in BOOLEAN
    BY <1>5, Zenon DEF RaiseAtOnce
  <2> HIDE DEF b
  <2> QED BY <1>4, <2>1
<1>6. CASE ReadCorrupt(i)
  <2>1. CASE JsonCodec \/ ~corrupted
    <3>1. Responds(i, triggers[i].code, ~corrupted) /\ UNCHANGED faulted /\ (~corrupted) \in BOOLEAN
      BY <1>6, <2>1, Zenon DEF ReadCorrupt
    <3> QED BY <1>4, <3>1
  <2>2. CASE ~(JsonCodec \/ ~corrupted)
    <3>1. Responds(i, Other, ~corrupted) /\ faulted' = faulted \union {i} /\ (~corrupted) \in BOOLEAN
      BY <1>6, <2>2, Zenon DEF ReadCorrupt
    <3> QED BY <1>4, <3>1
  <2> QED BY <2>1, <2>2
<1>7. CASE CommandFails(i)
  <2>1. Responds(i, Other, FALSE) /\ faulted' = faulted \union {i}
    BY <1>7 DEF CommandFails
  <2> QED BY <1>4, <2>1
<1> QED BY <1>3, <1>5, <1>6, <1>7

LEMMA SettlesInv ==
  ASSUME ErrorInv, NEW i \in Sent, AnswerArrives(i) \/ NetworkFails(i)
  PROVE  ErrorInv'
<1>1. /\ corrupted \in BOOLEAN /\ faulted \subseteq Sent
      /\ answers \in [Sent -> ErrorAnswer \union {NoAnswer}]
      /\ response \in ErrorAnswer \union {NoAnswer}
      /\ response # NoAnswer => response.code = selected \/ LastTrigger \in faulted
      /\ i = LastTrigger => triggers[i].code = selected
      /\ triggers[i].at = "answered" => answers[i].code = triggers[i].code \/ i \in faulted
  <2>1. LastTrigger \in Nat /\ Sent = 1..LastTrigger
    BY ErrorTypes
  <2>2. i = LastTrigger => LastTrigger > 0
    BY <2>1
  <2> QED BY <2>2, ErrorTypes
<1>2. PICK answer \in ErrorAnswer \union {NoAnswer} :
        /\ answer # NoAnswer => answer.code = triggers[i].code \/ i \in faulted
        /\ Settles(i, answer)
  BY <1>1 DEF AnswerArrives, NetworkFails
<1>3. /\ triggers' = [triggers EXCEPT ![i].at = "done"]
      /\ response' = IF i = LastTrigger THEN answer ELSE response
      /\ UNCHANGED <<corrupted, answers, selected, isProdGuard, faulted>>
  BY <1>2 DEF Settles
<1>4. /\ response' \in ErrorAnswer \union {NoAnswer}
      /\ response' # NoAnswer => response'.code = selected \/ LastTrigger \in faulted'
  BY <1>1, <1>2, <1>3
<1> QED BY <1>1, <1>3, <1>4, ErrorBack

LEMMA ErrorInvNext == ErrorInv /\ [ErrorNext]_errorVars => ErrorInv'
<1> SUFFICES ASSUME ErrorInv, [ErrorNext]_errorVars PROVE ErrorInv'
  OBVIOUS
<1>1. CASE \E c \in Code : TriggerRow(c)
  BY <1>1, MutationInv DEF TriggerRow
<1>2. CASE TriggerFlushGuard
  BY <1>2, MutationInv, ErrorAssumption DEF TriggerFlushGuard
<1>3. CASE ToggleProdGuard \/ CorruptGone \/ UNCHANGED errorVars
  <2>1. /\ UNCHANGED <<triggers, answers, selected, response, faulted>>
        /\ corrupted' \in BOOLEAN /\ isProdGuard' \in BOOLEAN
    BY <1>3, ErrorTypes DEF ToggleProdGuard, CorruptGone, errorVars
  <2>2. Sent' = Sent /\ LastTrigger' = LastTrigger
    BY <2>1 DEF Sent, LastTrigger
  <2> QED BY <2>1, <2>2 DEF ErrorInv, ErrorTypeOK, ResponseOfSelected, IsPending
<1>4. CASE \E i \in Sent : RaiseAtOnce(i) \/ WriteCorrupt(i) \/ ReadCorrupt(i) \/ CommandFails(i)
  BY <1>4, ServedInv
<1>5. CASE \E i \in Sent : AnswerArrives(i) \/ NetworkFails(i)
  BY <1>5, SettlesInv
<1> QED BY <1>1, <1>2, <1>3, <1>4, <1>5 DEF ErrorNext

LEMMA ErrorShows == ErrorInv => ErrorTypeOK /\ ResponseOfSelected
PROOF BY DEF ErrorInv

\* ErrorLab.ResponseOfSelected, ErrorsView.tsx, errors-demo.service.ts: no code's answer
\* is shown under another code, in whatever order the answers come.
THEOREM ResponseOfSelectedHolds == ErrorSpec => [](ErrorTypeOK /\ ResponseOfSelected)
<1>1. ErrorInit => ErrorInv
  BY ErrorInitInv
<1>2. ErrorInv /\ [ErrorNext]_errorVars => ErrorInv'
  BY ErrorInvNext
<1>3. ErrorInv => ErrorTypeOK /\ ResponseOfSelected
  BY ErrorShows
<1> QED BY <1>1, <1>2, <1>3, PTL DEF ErrorSpec

-----------------------------------------------------------------------------
(* The catalog and the pages beside it *)

\* Each part keeps its invariant: it takes a step of its own, or stands still.
CatalogInv == IInv /\ Meters /\ PlayInv /\ SerializerInv /\ ErrorInv /\ BurstInv

LEMMA CatalogInvInit == CatalogInit => CatalogInv
PROOF BY InitInv, MetersInit, PlayInitInv, SerializerInitInv, ErrorInitInv, BurstInitInv
         DEF CatalogInit, CatalogInv

LEMMA PartsStep ==
  [CatalogNext]_catalogVars =>
    /\ [Next]_vars /\ [PlayNext]_playVars /\ [SerializerNext]_serializerVars
    /\ [ErrorNext]_errorVars /\ [LabNext]_labVars
PROOF BY DEF CatalogNext, catalogVars

LEMMA CatalogInvNext == CatalogInv /\ [CatalogNext]_catalogVars => CatalogInv'
PROOF BY PartsStep, StepInv, MetersNext, PlayInvNext, SerializerInvNext, ErrorInvNext, BurstInvNext
         DEF CatalogInv

LEMMA CatalogInvariant == CatalogSpec => []CatalogInv
PROOF BY CatalogInvInit, CatalogInvNext, PTL DEF CatalogSpec

\* MCCatalog.CatalogTypeOK: the catalog and every page keep their types.
THEOREM CatalogTypeCorrect == CatalogSpec => []CatalogTypeOK
<1>1. CatalogInv => CatalogTypeOK
  BY PlayShows, SerializerShows, ErrorShows DEF CatalogInv, IInv, BurstInv, CatalogTypeOK
<1> QED BY <1>1, CatalogInvariant, PTL

\* MCCatalog.ViewsShowTheirOwn; SerializerView.tsx, ErrorsView.tsx,
\* use-playground-op.ts: no page shows what belongs to another request.
THEOREM ViewsShowTheirOwnHolds == CatalogSpec => []ViewsShowTheirOwn
<1>1. CatalogInv => ViewsShowTheirOwn
  BY PlayShows, SerializerShows, ErrorShows DEF CatalogInv, ViewsShowTheirOwn
<1> QED BY <1>1, CatalogInvariant, PTL

\* MCCatalog.NumbersAddUp; counters.service.ts, collections.service.ts,
\* StampedeView.tsx: the numbers of an answer agree with what was done.
THEOREM NumbersAddUpHolds == CatalogSpec => []NumbersAddUp
<1>1. CatalogInv => NumbersAddUp
  BY PlayShows, BurstShows DEF CatalogInv, NumbersAddUp
<1> QED BY <1>1, CatalogInvariant, PTL
=============================================================================
