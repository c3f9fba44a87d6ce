------------------------------- MODULE Keyspace -------------------------------
(***************************************************************************)
(* The API's requests that range over many keys, on one Redis keyspace:     *)
(* AdminService's listing, inspection, sample and flush, TenantsService's   *)
(* clear, read and isolation proof.  Every Redis command is a step, so the  *)
(* commands of all clients interleave between any two of a request.         *)
(***************************************************************************)
EXTENDS Naturals, FiniteSets

CONSTANTS
  Caller,   \* concurrent HTTP requests
  Key,      \* keys of the namespace
  Tenant,
  Shared,   \* the owner of keys that belong to no tenant
  Owner,    \* the owner of each key: a segment of its name
  StringKey, \* keys that hold strings; the others hold hashes or sets
  Demo,     \* other-app:demo, the key outside the namespace
  Limit,    \* a listing's page size
  Cap       \* KEYSPACE_SAMPLE_CAP

ASSUME KeyspaceAssumption ==
  /\ Demo \notin Key /\ Shared \notin Tenant
  /\ Owner \in [Key -> Tenant \union {Shared}] /\ StringKey \subseteq Key
  /\ IsFiniteSet(Key)
  /\ Limit \in Nat \ {0} /\ Cap \in Nat \ {0}

VARIABLES
  db,      \* is a key absent, does it expire, or is it there for ever?
  op,      \* what each caller asked for last
  pc,      \* the next command of its handler
  scope,   \* the keys its pattern matches
  seen,    \* those its SCAN has returned so far
  todo,    \* those of the last batch it still has to work on
  ended,   \* has the cursor come back to 0?
  answer,  \* its answer, as far as it is built
  stood    \* history: the keys present ever since the request began

request == <<op, pc, scope, seen, todo, ended, answer>>
vars == <<db, request, stood>>

-----------------------------------------------------------------------------
AllKeys == Key \union {Demo}
Life == {"absent", "ttl", "forever"}
Lists == {"list", "browse", "keys"}
Ops == Lists \union {"clear", "flush", "prove", "sample", "inspect", "read"}

Commands == {"idle", "scan", "keys", "delMany", "exists", "seed", "unlink", "verify",
             "probe", "type", "value", "raw", "ttl", "get", "set"}

Page == [keys : SUBSET Key, size : 0..Limit, more : BOOLEAN]
Sample == [ttl : Nat, forever : Nat, failed : Nat, sampled : Nat, cut : BOOLEAN]
Verdict == [yes : BOOLEAN]
Inspection == [found : BOOLEAN, value : BOOLEAN, raw : BOOLEAN, ttl : Life]

EmptyPage == [keys |-> {}, size |-> 0, more |-> FALSE]
EmptySample == [ttl |-> 0, forever |-> 0, failed |-> 0, sampled |-> 0, cut |-> FALSE]
No == [yes |-> FALSE]
NotFound == [found |-> FALSE, value |-> FALSE, raw |-> FALSE, ttl |-> "absent"]

\* The shape of an answer follows from the request.
AnswerOf(o) == IF o \in Lists THEN Page
               ELSE IF o = "sample" THEN Sample
               ELSE IF o = "inspect" THEN Inspection
               ELSE Verdict

TypeOK ==
  /\ db \in [AllKeys -> Life]
  /\ op \in [Caller -> Ops \union {"none"}]
  /\ pc \in [Caller -> Commands]
  /\ scope \in [Caller -> SUBSET Key] /\ seen \in [Caller -> SUBSET Key]
  /\ todo \in [Caller -> SUBSET Key] /\ ended \in [Caller -> BOOLEAN]
  /\ answer \in [Caller -> Page \union Sample \union Inspection \union Verdict]
  /\ \A c \in Caller : answer[c] \in AnswerOf(op[c])
  /\ stood \in [Caller -> SUBSET AllKeys]

Init ==
  /\ db = [k \in AllKeys |-> "absent"]
  /\ op = [c \in Caller |-> "none"] /\ pc = [c \in Caller |-> "idle"]
  /\ scope = [c \in Caller |-> {}] /\ seen = [c \in Caller |-> {}]
  /\ todo = [c \in Caller |-> {}] /\ ended = [c \in Caller |-> FALSE]
  /\ answer = [c \in Caller |-> No]
  /\ stood = [c \in Caller |-> {}]

Present(d) == {k \in AllKeys : d[k] # "absent"}
Owned(t) == {k \in Key : Owner[k] = t}

Goto(c, command) == pc' = [pc EXCEPT ![c] = command]
Note(c, a) == answer' = [answer EXCEPT ![c] = a]

\* The keys in K become `life'; a key that vanishes no longer stands for anyone.
Store(K, life) ==
  /\ db' = [k \in AllKeys |-> IF k \in K THEN life ELSE db[k]]
  /\ stood' = [c \in Caller |-> IF pc[c] = "idle" \/ life # "absent" THEN stood[c]
                                ELSE stood[c] \ K]

-----------------------------------------------------------------------------
(* Requests *)

Begin(c, o, command, keys, empty) ==
  /\ pc[c] = "idle"
  /\ op' = [op EXCEPT ![c] = o]
  /\ Goto(c, command)
  /\ scope' = [scope EXCEPT ![c] = keys]
  /\ seen' = [seen EXCEPT ![c] = {}] /\ todo' = [todo EXCEPT ![c] = {}]
  /\ ended' = [ended EXCEPT ![c] = FALSE]
  /\ Note(c, empty)
  /\ stood' = [stood EXCEPT ![c] = Present(db)]
  /\ UNCHANGED db

\* A listing with a prefix goes through the facade, one without through the raw client.
ListKeys(c) ==
  \/ \E t \in Tenant \union {Shared} :
       Begin(c, "list", "scan", Owned(t), EmptyPage) \/ Begin(c, "keys", "keys", Owned(t), EmptyPage)
  \/ Begin(c, "browse", "scan", Key, EmptyPage) \/ Begin(c, "keys", "keys", Key, EmptyPage)

\* Mutant: a glob without the separator, which matches every tenant.
BugOpenGlob(c) == Begin(c, "clear", "scan", Key, No)

\* tenant:{id}:* matches the keys of that tenant only.
ClearTenant(c) == \E t \in Tenant : Begin(c, "clear", "scan", Owned(t), No)

FlushNamespace(c) == Begin(c, "flush", "scan", Key, No)
ProveIsolation(c) == Begin(c, "prove", "exists", Key, No)
GetKeyspaceBreakdown(c) == Begin(c, "sample", "scan", Key, EmptySample)

\* keyParamSchema: a key route names a key of the namespace, or is refused.
Addressable == AllKeys \ {Demo}

InspectKey(c) == \E k \in Addressable : Begin(c, "inspect", "type", {k}, NotFound)
GetProduct(c) == \E t \in Tenant : \E k \in Owned(t) : Begin(c, "read", "get", {k}, No)

-----------------------------------------------------------------------------
(* SCAN *)

\* A call returns some keys that are there and match; a key may come twice.  The
\* cursor is 0 again only when every key that stood all the time has come.
Returned(c, batch, last) ==
  /\ batch \subseteq scope[c] \intersect Present(db)
  /\ last => stood[c] \intersect scope[c] \subseteq seen[c] \union batch
  /\ seen' = [seen EXCEPT ![c] = @ \union batch]
  /\ ended' = [ended EXCEPT ![c] = last]

\* Mutant: a page is not cut to its size.
BugWholeBatch(batch, room, kept) == kept = batch

\* As many keys of the batch as there is room for.
Fit(batch, room, kept) ==
  /\ kept \subseteq batch
  /\ Cardinality(kept) = IF Cardinality(batch) < room THEN Cardinality(batch) ELSE room

\* Mutant: the page is cut, but completion is read off the cursor alone.
BugCursorOnly(c, total, last) == op[c] # "list" /\ ~last

\* Is there, or may there be, more than this page?  With a prefix the page size
\* decides, without one the cursor and what the slice dropped.
HasMore(c, total, last) ==
  IF op[c] = "list" THEN total >= Limit ELSE ~last \/ total > Limit

ScanPage(c) ==
  /\ pc[c] = "scan" /\ op[c] \in {"list", "browse"}
  /\ \E batch, kept \in SUBSET scope[c], last \in BOOLEAN :
       LET total == answer[c].size + Cardinality(batch)
           done  == last \/ total >= Limit
       IN  /\ Returned(c, batch, last)
           /\ Fit(batch, Limit - answer[c].size, kept)
           /\ Note(c, [keys |-> answer[c].keys \union kept,
                       size |-> answer[c].size + Cardinality(kept),
                       more |-> done /\ HasMore(c, total, last)])
           /\ Goto(c, IF done THEN "idle" ELSE "scan")
  /\ UNCHANGED <<db, op, scope, todo, stood>>

\* KEYS is one command; the answer is not paged.
ListByKeys(c) ==
  /\ pc[c] = "keys"
  /\ Note(c, [keys |-> scope[c] \intersect Present(db), size |-> 0, more |-> FALSE])
  /\ Goto(c, "idle")
  /\ UNCHANGED <<db, op, scope, seen, todo, ended, stood>>

\* A tenant's keys are all collected, then deleted by one command.
ScanTenant(c) ==
  /\ pc[c] = "scan" /\ op[c] = "clear"
  /\ \E batch \in SUBSET scope[c], last \in BOOLEAN :
       /\ Returned(c, batch, last)
       /\ Goto(c, IF ~last THEN "scan" ELSE IF seen'[c] # {} THEN "delMany" ELSE "idle")
  /\ UNCHANGED <<db, op, scope, todo, answer, stood>>

\* Mutant: only the last batch is deleted.
BugLastBatch(c) == {}

\* The ids to delete: every key scanned.
Ids(c) == seen[c]

DelMany(c) ==
  /\ pc[c] = "delMany"
  /\ Store(Ids(c), "absent")
  /\ Goto(c, "idle")
  /\ UNCHANGED <<op, scope, seen, todo, ended, answer>>

\* Where a flush leads: the proof goes on to look for the foreign key.
Flushed(c) == IF op[c] = "prove" THEN "verify" ELSE "idle"

\* A namespace flush of the library: SCAN and UNLINK, batch by batch.
ScanFlush(c) ==
  /\ pc[c] = "scan" /\ op[c] \in {"flush", "prove"}
  /\ \E batch \in SUBSET scope[c], last \in BOOLEAN :
       /\ Returned(c, batch, last)
       /\ todo' = [todo EXCEPT ![c] = batch]
       /\ Goto(c, IF batch # {} THEN "unlink" ELSE IF last THEN Flushed(c) ELSE "scan")
  /\ UNCHANGED <<db, op, scope, answer, stood>>

Unlink(c) ==
  /\ pc[c] = "unlink"
  /\ Store(todo[c], "absent")
  /\ todo' = [todo EXCEPT ![c] = {}]
  /\ Goto(c, IF ended[c] THEN Flushed(c) ELSE "scan")
  /\ UNCHANGED <<op, scope, seen, ended, answer>>

-----------------------------------------------------------------------------
(* The isolation proof *)

\* Mutant: the foreign key is never seeded.
BugNoSeed == "scan"

\* What exists() leads to.
AfterExists == IF db[Demo] = "absent" THEN "seed" ELSE "scan"

ExistsForeign(c) ==
  /\ pc[c] = "exists"
  /\ Goto(c, AfterExists)
  /\ UNCHANGED <<db, op, scope, seen, todo, ended, answer, stood>>

SeedForeign(c) ==
  /\ pc[c] = "seed"
  /\ Store({Demo}, "forever")
  /\ Goto(c, "scan")
  /\ UNCHANGED <<op, scope, seen, todo, ended, answer>>

VerifyForeign(c) ==
  /\ pc[c] = "verify"
  /\ Note(c, [yes |-> db[Demo] # "absent"])
  /\ Goto(c, "idle")
  /\ UNCHANGED <<db, op, scope, seen, todo, ended, stood>>

-----------------------------------------------------------------------------
(* The keyspace sample *)

\* Each batch is cut to the room left below the cap, then probed.
ScanSample(c) ==
  /\ pc[c] = "scan" /\ op[c] = "sample"
  /\ \E batch, kept \in SUBSET scope[c], last \in BOOLEAN :
       /\ Returned(c, batch, last)
       /\ Fit(batch, Cap - answer[c].sampled, kept)
       /\ todo' = [todo EXCEPT ![c] = kept]
       /\ Note(c, [answer[c] EXCEPT !.sampled = @ + Cardinality(kept), !.cut = @ \/ kept # batch])
       /\ Goto(c, IF kept # {} THEN "probe" ELSE IF last THEN "idle" ELSE "scan")
  /\ UNCHANGED <<db, op, scope, stood>>

\* Mutant: a lapsed key keeps its place.
BugGhost(a, life) ==
  IF life = "absent" THEN a
  ELSE IF life = "ttl" THEN [a EXCEPT !.ttl = @ + 1] ELSE [a EXCEPT !.forever = @ + 1]

\* A key that has lapsed since the SCAN gives its place back.
Counted(a, life) ==
  IF life = "absent" THEN [a EXCEPT !.sampled = @ - 1]
  ELSE IF life = "ttl" THEN [a EXCEPT !.ttl = @ + 1] ELSE [a EXCEPT !.forever = @ + 1]

\* TYPE and TTL of one key of the pipeline; either may have failed.
Probe(c) ==
  /\ pc[c] = "probe"
  /\ \E k \in todo[c] :
       /\ todo' = [todo EXCEPT ![c] = @ \ {k}]
       /\ Note(c, Counted(answer[c], db[k])) \/ Note(c, [answer[c] EXCEPT !.failed = @ + 1])
  /\ Goto(c, IF todo'[c] # {} THEN "probe"
             ELSE IF ended[c] \/ answer'[c].sampled >= Cap THEN "idle" ELSE "scan")
  /\ UNCHANGED <<db, op, scope, seen, ended, stood>>

-----------------------------------------------------------------------------
(* Inspection, and the tenant's read-through *)

TheKey(c) == CHOOSE k \in scope[c] : TRUE
IsThere(c) == db[TheKey(c)] # "absent"

\* TYPE none is a 404; otherwise the read of that type through the facade, the raw GET
\* of a string, and TTL follow.
Type(c) ==
  /\ pc[c] = "type"
  /\ Note(c, [found |-> IsThere(c), value |-> FALSE, raw |-> FALSE, ttl |-> "absent"])
  /\ Goto(c, IF IsThere(c) THEN "value" ELSE "idle")
  /\ UNCHANGED <<db, op, scope, seen, todo, ended, stood>>

Value(c) ==
  /\ pc[c] = "value"
  /\ Note(c, [answer[c] EXCEPT !.value = IsThere(c)])
  /\ Goto(c, "raw")
  /\ UNCHANGED <<db, op, scope, seen, todo, ended, stood>>

\* Mutant: the full key is namespaced again.
BugRawNamespaced(c) ==
  /\ pc[c] = "raw"
  /\ Note(c, [answer[c] EXCEPT !.raw = FALSE])
  /\ Goto(c, "ttl")
  /\ UNCHANGED <<db, op, scope, seen, todo, ended, stood>>

\* A hash or set has no raw string, and is not asked for one: GET would reject all four.
Raw(c) ==
  /\ pc[c] = "raw"
  /\ Note(c, [answer[c] EXCEPT !.raw = IsThere(c) /\ TheKey(c) \in StringKey])
  /\ Goto(c, "ttl")
  /\ UNCHANGED <<db, op, scope, seen, todo, ended, stood>>

Ttl(c) ==
  /\ pc[c] = "ttl"
  /\ Note(c, [answer[c] EXCEPT !.ttl = db[TheKey(c)]])
  /\ Goto(c, "idle")
  /\ UNCHANGED <<db, op, scope, seen, todo, ended, stood>>

\* The answer is whether it came from the cache.
Get(c) ==
  /\ pc[c] = "get"
  /\ Note(c, [yes |-> IsThere(c)])
  /\ Goto(c, IF IsThere(c) THEN "idle" ELSE "set")
  /\ UNCHANGED <<db, op, scope, seen, todo, ended, stood>>

Set(c) ==
  /\ pc[c] = "set"
  /\ Store(scope[c], "ttl")
  /\ Goto(c, "idle")
  /\ UNCHANGED <<op, scope, seen, todo, ended, answer>>

\* A command rejects, its effect there or not; a flush may be refused outright.
Fail(c) ==
  /\ pc[c] # "idle"
  /\ \/ pc[c] = "delMany" /\ Store(Ids(c), "absent")
     \/ pc[c] = "unlink" /\ Store(todo[c], "absent")
     \/ pc[c] = "seed" /\ Store({Demo}, "forever")
     \/ pc[c] = "set" /\ Store(scope[c], "ttl")
     \/ UNCHANGED <<db, stood>>
  /\ op' = [op EXCEPT ![c] = "none"]
  /\ Goto(c, "idle")
  /\ Note(c, No)
  /\ UNCHANGED <<scope, seen, todo, ended>>

-----------------------------------------------------------------------------
(* Single commands of other requests *)

\* A write with or without a TTL: catalog, collections, bulk seed, playground.
Write(k, life) == Store({k}, life) /\ UNCHANGED request
SeedForeignNamespace == Store({Demo}, "forever") /\ UNCHANGED request
PersistKey(k) == db[k] = "ttl" /\ Store({k}, "forever") /\ UNCHANGED request
ExpireKey(k) == db[k] # "absent" /\ Store({k}, "ttl") /\ UNCHANGED request
DeleteKey(k) == db[k] # "absent" /\ Store({k}, "absent") /\ UNCHANGED request
Lapse(k) == db[k] = "ttl" /\ Store({k}, "absent") /\ UNCHANGED request

Handle(c) ==
  \/ ScanPage(c) \/ ListByKeys(c) \/ ScanTenant(c) \/ DelMany(c)
  \/ ScanFlush(c) \/ Unlink(c) \/ ExistsForeign(c) \/ SeedForeign(c) \/ VerifyForeign(c)
  \/ ScanSample(c) \/ Probe(c) \/ Type(c) \/ Value(c) \/ Raw(c) \/ Ttl(c)
  \/ Get(c) \/ Set(c) \/ Fail(c)

Next ==
  \/ \E c \in Caller :
       \/ ListKeys(c) \/ ClearTenant(c) \/ FlushNamespace(c) \/ ProveIsolation(c)
       \/ GetKeyspaceBreakdown(c) \/ InspectKey(c) \/ GetProduct(c)
       \/ Handle(c)
  \/ \E k \in Addressable : PersistKey(k) \/ ExpireKey(k) \/ DeleteKey(k)
  \/ \E k \in Key : Lapse(k)
  \/ \E k \in Key, life \in {"ttl", "forever"} : Write(k, life)
  \/ SeedForeignNamespace

Spec == Init /\ [][Next]_vars

-----------------------------------------------------------------------------
(* Properties *)

Answered(c) == pc[c] = "idle" /\ op[c] # "none"

\* listKeys: a listing without a cursor has every matching key that was there
\* all the time, whoever else wrote meanwhile; one with a cursor fills its page.
ListingComplete ==
  \A c \in Caller : Answered(c) /\ op[c] \in Lists =>
    /\ answer[c].keys \subseteq scope[c]
    /\ ~answer[c].more => stood[c] \intersect scope[c] \subseteq answer[c].keys
    /\ answer[c].more => answer[c].size = Limit

\* clearTenant, flushNamespace and proveIsolation: what is left of their keys
\* was written, or written again, after the request began.
SweepLeavesOnlyNewer ==
  \A c \in Caller : Answered(c) /\ op[c] \in {"clear", "flush", "prove"} =>
    stood[c] \intersect scope[c] = {}

\* clearTenant deletes keys of one tenant only, and no request at all removes
\* the key of the other application.
SparesOthers ==
  [][/\ \A c \in Caller : pc[c] = "delMany" /\ pc'[c] # "delMany" =>
          \E t \in Tenant : \A k \in Key \ Owned(t) : db'[k] = db[k]
     /\ db[Demo] # "absent" => db'[Demo] # "absent"]_vars

\* proveIsolation: the proof comes out, whatever runs between its four steps.
ProofHolds == \A c \in Caller : Answered(c) /\ op[c] = "prove" => answer[c].yes

\* The requests that remove keys: the older keys of their own scope go, and the proof
\* of isolation finds the key of the other application untouched by that.
SweepsComeOut == SweepLeavesOnlyNewer /\ ProofHolds

\* getKeyspaceBreakdown: within the cap every sampled key is counted once, is
\* still to be probed, or failed; a sample that reached the end of the scan
\* without being cut misses no key that was there all the time.
SampleCounts ==
  \A c \in Caller : op[c] = "sample" =>
    LET a == answer[c]
    IN  /\ a.ttl + a.forever + a.failed + Cardinality(todo[c]) = a.sampled
        /\ a.sampled <= Cap
        /\ Answered(c) /\ ended[c] /\ ~a.cut =>
             Cardinality(stood[c] \intersect Key) <= a.ttl + a.forever + a.failed

\* inspectKey: a key that was there all the time is found, and none of the four
\* reads calls it missing; its raw string is there if it holds one.
InspectWhole ==
  \A c \in Caller : Answered(c) /\ op[c] = "inspect" /\ scope[c] \subseteq stood[c] =>
    LET a == answer[c]
    IN  /\ a.found /\ a.value /\ a.ttl # "absent"
        /\ a.raw <=> TheKey(c) \in StringKey
=============================================================================
