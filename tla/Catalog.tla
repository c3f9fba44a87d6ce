-------------------------------- MODULE Catalog --------------------------------
(***************************************************************************)
(* The product catalog: read-through gets, batched read-through, idempotent *)
(* seeding and the TTL operations of CatalogService, the key operations of  *)
(* AdminService that other clients run on the same keys, and the hit and     *)
(* miss counters of MetricsService.  Every await of a handler is a step, so  *)
(* handlers interleave; each Redis command is atomic.                        *)
(***************************************************************************)
EXTENDS Naturals, Sequences, FiniteSetsExt

CONSTANTS
  Caller,    \* concurrent HTTP clients
  Product,   \* product ids
  Known,     \* those the origin store has a row for
  Nothing,   \* null
  MaxBatch,  \* bound: ids of one batch (the DTO's 50)
  MaxCalls   \* bound: requests of all callers

\* A product document, as far as the handlers look at it.
Value == [id : Product]

ASSUME CatalogAssumption ==
  /\ Known \subseteq Product
  /\ Nothing \notin Value
  /\ MaxBatch \in Nat \ {0}
  /\ MaxCalls \in Nat

VARIABLES
  cache,    \* the value Redis holds for each product, or Nothing
  lasts,    \* the products whose key has no TTL
  pc,       \* the next command of each caller's handler
  ids,      \* the ids it was asked for
  slots,    \* its answer so far, by position
  fill,     \* the products it is about to write back
  reply,    \* what its last request came to
  hits, misses,  \* MetricsService
  calls,
  looked,   \* history: ids looked up in the cache by reads
  asked,    \* history: rows reads have asked of the origin
  creators, \* history: isCreated answers since the key was last absent
  steady    \* history: products whose entry was there when the caller's
            \* request began, and has neither vanished nor been replaced since

handler == <<pc, ids, slots, fill, reply, calls>>
metrics == <<hits, misses, looked, asked>>
vars == <<cache, lasts, handler, metrics, creators, steady>>

-----------------------------------------------------------------------------
Batches == UNION {[1..n -> Product] : n \in 1..MaxBatch}
Commands == {"get", "set", "mget", "mset", "setNx", "exists"}

Slot == Value \union {Nothing}
Replies == [kind : {"none", "read", "failed"}]
             \union [kind : {"seed"}, created : BOOLEAN, present : BOOLEAN]

TypeOK ==
  /\ cache \in [Product -> Slot]
  /\ \A p \in Product : cache[p] # Nothing => cache[p].id = p
  /\ lasts \subseteq {p \in Product : cache[p] # Nothing}
  /\ pc \in [Caller -> Commands \union {"idle", "find", "findMany", "seedFind"}]
  /\ ids \in [Caller -> Seq(Product)]
  /\ slots \in [Caller -> Seq(Slot)]
  /\ \A c \in Caller :
       /\ pc[c] # "idle" => ids[c] \in Batches
       /\ pc[c] \in {"find", "findMany", "set", "mset"} => Len(slots[c]) = Len(ids[c])
  /\ fill \in [Caller -> SUBSET Known]
  /\ reply \in [Caller -> Replies]
  /\ steady \in [Caller -> SUBSET Product]
  /\ {hits, misses, looked, asked} \subseteq Nat
  /\ calls \in 0..MaxCalls
  /\ creators \in [Product -> Nat]

Init ==
  /\ cache = [p \in Product |-> Nothing] /\ lasts = {}
  /\ pc = [c \in Caller |-> "idle"]
  /\ ids = [c \in Caller |-> <<>>] /\ slots = [c \in Caller |-> <<>>]
  /\ fill = [c \in Caller |-> {}]
  /\ reply = [c \in Caller |-> [kind |-> "none"]]
  /\ calls = 0
  /\ hits = 0 /\ misses = 0 /\ looked = 0 /\ asked = 0
  /\ creators = [p \in Product |-> 0]
  /\ steady = [c \in Caller |-> {}]

\* ProductOriginStore: a pure read, after its delay.
Row(p) == IF p \in Known THEN [id |-> p] ELSE Nothing

Goto(c, command) == pc' = [pc EXCEPT ![c] = command]

Answer(c, r) ==
  /\ Goto(c, "idle")
  /\ reply' = [reply EXCEPT ![c] = r]

\* The entries of the products in P are replaced by value(p).
Replace(P, value(_)) ==
  /\ cache' = [p \in Product |-> IF p \in P THEN value(p) ELSE cache[p]]
  /\ steady' = [c \in Caller |-> steady[c] \ P]

-----------------------------------------------------------------------------
(* Requests *)

Begin(c, command, batch) ==
  /\ pc[c] = "idle" /\ calls < MaxCalls
  /\ calls' = calls + 1
  /\ Goto(c, command)
  /\ ids' = [ids EXCEPT ![c] = batch]
  /\ slots' = [slots EXCEPT ![c] = <<>>]
  /\ reply' = [reply EXCEPT ![c] = [kind |-> "none"]]
  /\ steady' = [steady EXCEPT ![c] = {p \in Product : cache[p] # Nothing}]
  /\ UNCHANGED <<cache, lasts, fill, metrics, creators>>

GetProduct(c) == \E p \in Product : Begin(c, "get", <<p>>)
GetProducts(c) == \E batch \in Batches : Begin(c, "mget", batch)
SeedProduct(c) == \E p \in Product : Begin(c, "seedFind", <<p>>)

-----------------------------------------------------------------------------
(* Read-through *)

Missing(c) == {i \in DOMAIN slots[c] : slots[c][i] = Nothing}

\* Mutant: a batch records one hit or one miss for all of its ids.
BugCountBatch(found) ==
  LET miss == \E i \in DOMAIN found : found[i] = Nothing
  IN  /\ misses' = misses + (IF miss THEN 1 ELSE 0)
      /\ hits' = hits + (IF miss THEN 0 ELSE 1)

\* One hit or miss per id looked up.
Record(found) ==
  LET miss == Cardinality({i \in DOMAIN found : found[i] = Nothing})
  IN  /\ misses' = misses + miss
      /\ hits' = hits + Len(found) - miss

Lookup(c) ==
  LET found == [i \in DOMAIN ids[c] |-> cache[ids[c][i]]]
  IN  /\ slots' = [slots EXCEPT ![c] = found]
      /\ Record(found)
      /\ looked' = looked + Len(found)
      /\ UNCHANGED <<cache, lasts, ids, fill, calls, asked, creators, steady>>

Get(c) ==
  /\ pc[c] = "get"
  /\ Lookup(c)
  /\ IF cache[ids[c][1]] = Nothing
       THEN Goto(c, "find") /\ UNCHANGED reply
       ELSE Answer(c, [kind |-> "read"])

\* The origin is asked also when nothing is missing.
Mget(c) ==
  /\ pc[c] = "mget"
  /\ Lookup(c)
  /\ Goto(c, "findMany") /\ UNCHANGED reply

\* Mutant: rows are taken by their position among the missing ids.
BugMergeByPosition(c) ==
  LET miss == Missing(c)
      nth(i) == CHOOSE m \in miss : Cardinality({n \in miss : n < m}) = i - 1
  IN  [i \in DOMAIN slots[c] |->
        IF slots[c][i] # Nothing \/ i > Cardinality(miss) THEN slots[c][i]
        ELSE Row(ids[c][nth(i)])]

\* The cached slots, completed by id from the rows of the missing ids.
Merge(c) == [i \in DOMAIN slots[c] |->
              IF slots[c][i] # Nothing THEN slots[c][i] ELSE Row(ids[c][i])]

\* Mutant: every id of the batch is written back.
BugWriteAll(c) == {ids[c][i] : i \in DOMAIN ids[c]} \intersect Known

\* The entries to write back: the missing ids that have a row.
Entries(c) == {ids[c][i] : i \in Missing(c)} \intersect Known

Fetch(c, write) ==
  /\ slots' = [slots EXCEPT ![c] = Merge(c)]
  /\ asked' = asked + Cardinality(Missing(c))
  /\ fill' = [fill EXCEPT ![c] = Entries(c)]
  /\ IF fill'[c] = {} THEN Answer(c, [kind |-> "read"])
                      ELSE Goto(c, write) /\ UNCHANGED reply
  /\ UNCHANGED <<cache, lasts, ids, calls, hits, misses, looked, creators, steady>>

Find(c) == pc[c] = "find" /\ Fetch(c, "set")
FindMany(c) == pc[c] = "findMany" /\ Fetch(c, "mset")

\* Mutant: every entry is written with the first row.
BugFirstRow(c) ==
  /\ Replace(fill[c], LAMBDA p : Row(ids[c][1]))
  /\ lasts' = IF pc[c] = "set" THEN lasts \ fill[c] ELSE lasts \union fill[c]
  /\ UNCHANGED creators

\* set carries the default TTL, mset none: it clears the TTL a key had.
WriteBack(c) ==
  /\ Replace(fill[c], Row)
  /\ lasts' = IF pc[c] = "set" THEN lasts \ fill[c] ELSE lasts \union fill[c]
  /\ UNCHANGED creators

Set(c) ==
  /\ pc[c] \in {"set", "mset"}
  /\ WriteBack(c)
  /\ Answer(c, [kind |-> "read"])
  /\ fill' = [fill EXCEPT ![c] = {}]
  /\ UNCHANGED <<ids, slots, calls, metrics>>

-----------------------------------------------------------------------------
(* Seeding *)

\* The origin row only gives defaults for the value; no metric is recorded.
SeedFind(c) ==
  /\ pc[c] = "seedFind"
  /\ Goto(c, "setNx")
  /\ slots' = [slots EXCEPT ![c] = <<[id |-> ids[c][1]]>>]
  /\ UNCHANGED <<cache, lasts, ids, fill, reply, calls, metrics, creators, steady>>

\* Mutant: set instead of setNx.
BugSeedSets(c) == pc[c] = "setNx"

\* setNx writes only when the key is absent.
IsCreated(c) == cache[ids[c][1]] = Nothing

WriteSeed(c) ==
  LET P == IF IsCreated(c) THEN {ids[c][1]} ELSE {}
  IN  /\ cache' = [p \in Product |-> IF p \in P THEN slots[c][1] ELSE cache[p]]
      /\ lasts' = lasts \ P

SetNx(c) ==
  /\ pc[c] = "setNx"
  /\ WriteSeed(c)
  /\ creators' = [creators EXCEPT ![ids[c][1]] = IF IsCreated(c) THEN @ + 1 ELSE @]
  /\ steady' = [steady EXCEPT ![c] = {ids[c][1]}]
  /\ reply' = [reply EXCEPT ![c] =
                 [kind |-> "seed", created |-> IsCreated(c), present |-> FALSE]]
  /\ Goto(c, "exists")
  /\ UNCHANGED <<ids, slots, fill, calls, metrics>>

\* Mutant: exists is asked before setNx.
BugPresence(c) == ~reply[c].created

\* exists: the key is present now, whatever setNx found.
IsPresent(c) == cache[ids[c][1]] # Nothing

Exists(c) ==
  /\ pc[c] = "exists"
  /\ Answer(c, [reply[c] EXCEPT !.present = IsPresent(c)])
  /\ UNCHANGED <<cache, lasts, ids, slots, fill, calls, metrics, creators, steady>>

\* A cache command rejects: the request fails, the write may have happened.
Fail(c) ==
  /\ pc[c] \in Commands
  /\ Answer(c, [kind |-> "failed"])
  /\ \/ pc[c] \in {"set", "mset"} /\ WriteBack(c)
     \/ pc[c] = "setNx" /\ WriteSeed(c) /\ UNCHANGED <<creators, steady>>
     \/ UNCHANGED <<cache, lasts, creators, steady>>
  /\ ids' = [ids EXCEPT ![c] = <<>>]
  /\ slots' = [slots EXCEPT ![c] = <<>>]
  /\ fill' = [fill EXCEPT ![c] = {}]
  /\ UNCHANGED <<calls, metrics>>

-----------------------------------------------------------------------------
(* TTL operations and other clients of the same keys *)

SetTtl(p) ==
  /\ cache[p] # Nothing
  /\ lasts' = lasts \ {p}
  /\ UNCHANGED <<cache, handler, metrics, creators, steady>>

PersistKey(p) ==
  /\ cache[p] # Nothing
  /\ lasts' = lasts \union {p}
  /\ UNCHANGED <<cache, handler, metrics, creators, steady>>

Vanish(P) ==
  /\ Replace(P, LAMBDA p : Nothing)
  /\ lasts' = lasts \ P
  /\ creators' = [p \in Product |-> IF p \in P THEN 0 ELSE creators[p]]
  /\ UNCHANGED <<handler, metrics>>

Lapse(p) == cache[p] # Nothing /\ p \notin lasts /\ Vanish({p})
DeleteKey(p) == cache[p] # Nothing /\ Vanish({p})
FlushNamespace == Vanish(Product)

\* AdminService.seed: SET without TTL, over whatever is there.
BulkSeed(P) ==
  /\ Replace(P, LAMBDA p : [id |-> p])
  /\ lasts' = lasts \union P
  /\ UNCHANGED <<handler, metrics, creators>>

-----------------------------------------------------------------------------
Handle(c) ==
  \/ Get(c) \/ Find(c) \/ Mget(c) \/ FindMany(c) \/ Set(c)
  \/ SeedFind(c) \/ SetNx(c) \/ Exists(c) \/ Fail(c)

Next ==
  \/ \E c \in Caller : GetProduct(c) \/ GetProducts(c) \/ SeedProduct(c) \/ Handle(c)
  \/ \E p \in Product : SetTtl(p) \/ PersistKey(p) \/ Lapse(p) \/ DeleteKey(p)
  \/ FlushNamespace
  \/ \E P \in SUBSET Product : BulkSeed(P)

Spec == Init /\ [][Next]_vars

-----------------------------------------------------------------------------
(* Properties *)

\* getProducts: the answer is aligned with the ids; a known product is never
\* null, and a null slot was absent from both the cache and the origin.
BatchAligned ==
  \A c \in Caller : reply[c].kind = "read" =>
    /\ Len(slots[c]) = Len(ids[c])
    /\ \A i \in DOMAIN ids[c] :
         /\ slots[c][i] # Nothing => slots[c][i].id = ids[c][i]
         /\ slots[c][i] = Nothing => ids[c][i] \notin Known

\* seedProduct: of any number of overlapping seeds at most one is told it
\* created the key, until the key vanishes.
OneCreator == \A p \in Product : creators[p] <= 1

\* seedProduct: a seed that answers the key is absent, whether or not it
\* created it, does so only because the key vanished after its setNx.
SeedNeverMisleads ==
  \A c \in Caller :
    pc[c] = "idle" /\ reply[c].kind = "seed" /\ ~reply[c].present =>
      ids[c][1] \notin steady[c]

\* The ids that reads under way have missed and not yet asked of the origin.
Owed == UNION {{c} \X Missing(c) : c \in {d \in Caller : pc[d] \in {"find", "findMany"}}}

\* MetricsService: one event per id looked up, and every miss is a row asked of
\* the origin, by a finished read or by one still under way.
MissesPayOrigin ==
  /\ hits + misses = looked
  /\ misses = asked + Cardinality(Owed)

\* A read overwrites no entry it could have seen: a seed or a persist that was
\* acknowledged before the read began can only be undone by an earlier read.
ReadsSpareWhatTheySaw ==
  \A c \in Caller : pc[c] \in {"set", "mset"} => fill[c] \intersect steady[c] = {}
=============================================================================
