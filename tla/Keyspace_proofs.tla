---------------------------- MODULE Keyspace_proofs ----------------------------
(***************************************************************************)
(* Theorems about what the Key Explorer and the Overview rest on: Keyspace,   *)
(* for any number of overlapping requests, keys, tenants, any page size and  *)
(* any cap; ExplorerFilters, for any stored keys; MetricSeries and            *)
(* OpsSampler, for any ranges, pollers, clocks and counts; and the            *)
(* specification of MCExplorer, that is made of the four.                     *)
(***************************************************************************)
EXTENDS MCExplorer, DataLemmas, SequenceTheorems

-----------------------------------------------------------------------------
(* What a request knows at each of its commands *)

\* The commands of each kind of request.
Takes(o, p) ==
  \/ o \in {"list", "browse"} /\ p = "scan"
  \/ o = "keys" /\ p = "keys"
  \/ o = "clear" /\ p \in {"scan", "delMany"}
  \/ o = "flush" /\ p \in {"scan", "unlink"}
  \/ o = "prove" /\ p \in {"exists", "seed", "scan", "unlink", "verify"}
  \/ o = "sample" /\ p \in {"scan", "probe"}
  \/ o = "inspect" /\ p \in {"type", "value", "raw", "ttl"}
  \/ o = "read" /\ p \in {"get", "set"}

OnPath(c) == pc[c] = "idle" \/ Takes(op[c], pc[c])

\* What stood all the time is there, until the request is answered.
Standing(c) == pc[c] # "idle" => stood[c] \subseteq Present(db)

\* A SCAN that has ended returned all of it.
Covered(c) ==
  /\ seen[c] \subseteq scope[c] /\ todo[c] \subseteq scope[c]
  /\ ended[c] => stood[c] \intersect scope[c] \subseteq seen[c]

\* A page under way holds all that was scanned, and has room.
Paging(c) ==
  op[c] \in Lists =>
    /\ answer[c].keys \subseteq scope[c]
    /\ pc[c] = "scan" => answer[c].keys = seen[c] /\ answer[c].size < Limit
    /\ pc[c] = "idle" =>
         /\ ~answer[c].more => stood[c] \intersect scope[c] \subseteq answer[c].keys
         /\ answer[c].more => answer[c].size = Limit

\* A sweep has removed what it scanned and is not about to remove.
Sweeping(c) ==
  /\ op[c] = "clear" =>
       /\ \E t \in Tenant : scope[c] = Owned(t)
       /\ pc[c] = "delMany" => ended[c]
       /\ pc[c] = "idle" => stood[c] \intersect scope[c] = {}
  /\ op[c] \in {"flush", "prove"} =>
       /\ pc[c] # "idle" => stood[c] \intersect seen[c] \subseteq todo[c]
       /\ pc[c] # "unlink" => todo[c] = {}
       /\ pc[c] = "verify" => ended[c]
       /\ pc[c] = "idle" => stood[c] \intersect scope[c] = {}

\* From the flush on, the foreign key of a proof is there.
Proving(c) ==
  op[c] = "prove" =>
    /\ pc[c] \in {"scan", "unlink", "verify"} => db[Demo] # "absent"
    /\ pc[c] = "idle" => answer[c].yes

\* A sample counts what it keeps, and keeps what it scanned unless it cut a batch.
Sampling(c) ==
  op[c] = "sample" =>
    LET a == answer[c]
    IN  /\ a.ttl + a.forever + a.failed + Cardinality(todo[c]) = a.sampled
        /\ a.sampled <= Cap
        /\ scope[c] = Key
        /\ pc[c] # "probe" => todo[c] = {}
        /\ ~a.cut => Cardinality((stood[c] \intersect seen[c]) \ todo[c])
                       <= a.ttl + a.forever + a.failed

\* No read of an inspection has missed a key that stood all the time.
Inspecting(c) ==
  op[c] = "inspect" =>
    /\ \E k \in Key : scope[c] = {k}
    /\ scope[c] \subseteq stood[c] =>
         LET a == answer[c]
         IN  /\ pc[c] # "type" => a.found
             /\ pc[c] \in {"raw", "ttl", "idle"} => a.value
             /\ pc[c] \in {"ttl", "idle"} => (a.raw <=> scope[c] \subseteq StringKey)
             /\ pc[c] = "idle" => a.ttl # "absent"

Local(c) ==
  /\ OnPath(c) /\ Standing(c) /\ Covered(c) /\ Paging(c)
  /\ Sweeping(c) /\ Proving(c) /\ Sampling(c) /\ Inspecting(c)

IInv == TypeOK /\ \A c \in Caller : Local(c)

-----------------------------------------------------------------------------
(* Steps that only change the keys *)

\* The request of c stays as it is.
Rests(c) ==
  /\ op'[c] = op[c] /\ pc'[c] = pc[c] /\ scope'[c] = scope[c] /\ seen'[c] = seen[c]
  /\ todo'[c] = todo[c] /\ ended'[c] = ended[c] /\ answer'[c] = answer[c]

\* What stood all the time for c can only shrink, to what is there still.
Shrinks(c) ==
  /\ stood'[c] \subseteq stood[c]
  /\ pc[c] # "idle" => stood'[c] \subseteq Present(db')

\* The other application's key stays.
Spared == db[Demo] # "absent" => db'[Demo] # "absent"

LEMMA KeysOf ==
  /\ \A t \in Tenant \union {Shared} : Owned(t) \subseteq Key
  /\ Demo \notin Key /\ Demo \in AllKeys /\ Key \subseteq AllKeys
  /\ \A d : Present(d) \subseteq AllKeys
BY KeyspaceAssumption DEF Owned, AllKeys, Present

LEMMA SubsetOfKeys ==
  ASSUME NEW S, S \subseteq Key
  PROVE  IsFiniteSet(S) /\ Cardinality(S) \in Nat
BY KeyspaceAssumption, FS_Subset, FS_CardinalityType

LEMMA SmallerSet ==
  ASSUME NEW S, NEW T, T \subseteq Key, S \subseteq T
  PROVE  /\ Cardinality(S) <= Cardinality(T)
         /\ Cardinality(S) = Cardinality(T) => S = T
BY SubsetOfKeys, FS_Subset

\* A command that writes.
LEMMA StoreShrinks ==
  ASSUME TypeOK, NEW K, NEW life \in Life, Store(K, life),
         life = "absent" => Demo \notin K,
         \A c \in Caller : Standing(c)
  PROVE  /\ db' \in [AllKeys -> Life] /\ stood' \in [Caller -> SUBSET AllKeys]
         /\ \A c \in Caller : Shrinks(c)
         /\ Spared
<1> USE DEF TypeOK, Store
<1>1. db' \in [AllKeys -> Life]
  OBVIOUS
<1>2. stood' \in [Caller -> SUBSET AllKeys]
  OBVIOUS
<1>3. ASSUME NEW c \in Caller PROVE Shrinks(c)
  <2>1. stood'[c] \subseteq stood[c]
    OBVIOUS
  <2>2. ASSUME pc[c] # "idle" PROVE stood'[c] \subseteq Present(db')
    BY <2>2 DEF Standing, Present, Life
  <2> QED BY <2>1, <2>2 DEF Shrinks
<1>4. Spared
  BY KeysOf DEF Spared
<1> QED BY <1>1, <1>2, <1>3, <1>4

\* A command that only reads.
LEMMA ReadShrinks ==
  ASSUME TypeOK, UNCHANGED <<db, stood>>, \A c \in Caller : Standing(c)
  PROVE  /\ db' \in [AllKeys -> Life] /\ stood' \in [Caller -> SUBSET AllKeys]
         /\ \A c \in Caller : Shrinks(c)
         /\ Spared
BY DEF TypeOK, Standing, Shrinks, Spared

\* A step of somebody else keeps what c knows: all of it says that some set
\* contains what stood all the time, or that the foreign key is there.
LEMMA BystanderKeeps ==
  ASSUME TypeOK, NEW c \in Caller, Local(c), Rests(c), Shrinks(c), Spared
  PROVE  Local(c)'
<1> USE DEF Local, Rests
<1>1. OnPath(c)' /\ Standing(c)' /\ Covered(c)'
  BY DEF OnPath, Standing, Covered, Shrinks
<1>2. Paging(c)'
  BY DEF Paging, Shrinks
<1>3. Sweeping(c)'
  BY DEF Sweeping, Shrinks
<1>4. Proving(c)'
  BY DEF Proving, Spared
<1>5. Inspecting(c)'
  BY DEF Inspecting, Shrinks
<1>6. ASSUME op[c] = "sample" PROVE Sampling(c)'
  <2> DEFINE Done == (stood[c] \intersect seen[c]) \ todo[c]
             Left == (stood'[c] \intersect seen[c]) \ todo[c]
  <2>1. Left \subseteq Done /\ Done \subseteq Key
    BY DEF Shrinks, TypeOK
  <2>2. Cardinality(Left) <= Cardinality(Done)
    BY <2>1, SmallerSet
  <2>3. Cardinality(Left) \in Nat /\ Cardinality(Done) \in Nat
    BY <2>1, SubsetOfKeys
  <2>4. answer[c] \in Sample
    BY <1>6 DEF TypeOK, AnswerOf, Lists
  <2>5. ~answer[c].cut => Cardinality(Left) <= answer[c].ttl + answer[c].forever + answer[c].failed
    <3>1. ~answer[c].cut => Cardinality(Done) <= answer[c].ttl + answer[c].forever + answer[c].failed
      BY <1>6 DEF Sampling
    <3> HIDE DEF Done, Left
    <3> QED BY <3>1, <2>2, <2>3, <2>4 DEF Sample
  <2> QED BY <2>5, <1>6 DEF Sampling
<1>7. op[c] # "sample" => Sampling(c)'
  BY DEF Sampling
<1> QED BY <1>1, <1>2, <1>3, <1>4, <1>5, <1>6, <1>7

-----------------------------------------------------------------------------
(* Requests *)

\* A step of c: it keeps the types and what c knows, and is a bystander's to the others.
Keeps(c) ==
  /\ TypeOK' /\ Local(c)' /\ Spared
  /\ \A d \in Caller \ {c} : Rests(d) /\ Shrinks(d)

LEMMA EmptyAnswers ==
  /\ EmptyPage \in Page /\ EmptySample \in Sample /\ NotFound \in Inspection /\ No \in Verdict
  /\ \A o \in Lists : EmptyPage \in AnswerOf(o)
  /\ EmptySample \in AnswerOf("sample") /\ NotFound \in AnswerOf("inspect")
  /\ \A o \in {"none", "clear", "flush", "prove", "read"} : No \in AnswerOf(o)
<1>1. 0 \in 0..Limit /\ {} \in SUBSET Key
  BY KeyspaceAssumption
<1>2. FALSE \in BOOLEAN
  BY Zenon
<1>3. EmptyPage \in Page
  BY <1>1, <1>2 DEF EmptyPage, Page
<1>4. EmptySample \in Sample
  BY <1>2 DEF EmptySample, Sample
<1>5. NotFound \in Inspection
  BY <1>2 DEF NotFound, Inspection, Life
<1>6. No \in Verdict
  BY <1>2 DEF No, Verdict
<1> QED BY <1>3, <1>4, <1>5, <1>6 DEF AnswerOf, Lists

LEMMA BeginKeeps ==
  ASSUME IInv, NEW c \in Caller, NEW o \in Ops, NEW command, Takes(o, command),
         NEW keys \in SUBSET Key, NEW empty, empty \in AnswerOf(o),
         Begin(c, o, command, keys, empty),
         o \in Lists => empty = EmptyPage,
         o = "clear" => command = "scan" /\ \E t \in Tenant : keys = Owned(t),
         o = "prove" => command = "exists",
         o = "sample" => command = "scan" /\ empty = EmptySample /\ keys = Key,
         o = "inspect" => command = "type" /\ \E k \in Key : keys = {k}
  PROVE  Keeps(c)
<1> USE DEF IInv, TypeOK, Begin, Goto, Note
<1>1. command \in Commands /\ command # "idle"
      /\ (o = "flush" => command \in {"scan", "unlink"})
      /\ (o = "prove" => command \notin {"scan", "unlink", "verify"})
  BY DEF Takes, Commands, Ops, Lists
<1>2. empty \in Page \union Sample \union Inspection \union Verdict
  BY DEF AnswerOf
<1>3. Present(db) \subseteq AllKeys
  BY KeysOf
<1>4. /\ op'[c] = o /\ pc'[c] = command /\ scope'[c] = keys /\ seen'[c] = {} /\ todo'[c] = {}
      /\ ~ended'[c] /\ answer'[c] = empty /\ stood'[c] = Present(db) /\ UNCHANGED db
  BY Zenon
<1>5. \A d \in Caller \ {c} : Rests(d) /\ stood'[d] = stood[d]
  BY DEF Rests
<1>6. /\ op' \in [Caller -> Ops \union {"none"}] /\ scope' \in [Caller -> SUBSET Key]
      /\ seen' \in [Caller -> SUBSET Key] /\ todo' \in [Caller -> SUBSET Key]
      /\ stood' \in [Caller -> SUBSET AllKeys] /\ db' \in [AllKeys -> Life]
  BY <1>3
<1>7. pc' \in [Caller -> Commands]
  BY <1>1
<1>8. ended' \in [Caller -> BOOLEAN]
  <2>1. FALSE \in BOOLEAN
    BY Zenon
  <2> QED BY <2>1
<1>9. answer' \in [Caller -> Page \union Sample \union Inspection \union Verdict]
  BY <1>2
<1>10. \A d \in Caller : answer'[d] \in AnswerOf(op'[d])
  BY <1>4, <1>5 DEF Rests
<1>11. TypeOK'
  BY <1>6, <1>7, <1>8, <1>9, <1>10
<1>12. \A d \in Caller \ {c} : Shrinks(d)
  BY <1>5 DEF Shrinks, Local, Standing
<1>13. Spared
  BY DEF Spared
<1>14. OnPath(c)' /\ Standing(c)' /\ Covered(c)'
  BY <1>4 DEF OnPath, Standing, Covered
<1>15. Paging(c)'
  BY <1>4, <1>1, KeyspaceAssumption DEF Paging, EmptyPage
<1>16. Sweeping(c)' /\ Proving(c)' /\ Inspecting(c)'
  BY <1>4, <1>1 DEF Sweeping, Proving, Inspecting
<1>17. Sampling(c)'
  BY <1>4, <1>1, FS_EmptySet, KeyspaceAssumption DEF Sampling, EmptySample
<1> QED BY <1>5, <1>11, <1>12, <1>13, <1>14, <1>15, <1>16, <1>17 DEF Keeps, Local

\* The seven kinds of request.
LEMMA RequestKeeps ==
  ASSUME IInv, NEW c \in Caller,
         \/ ListKeys(c) \/ ClearTenant(c) \/ FlushNamespace(c) \/ ProveIsolation(c)
         \/ GetKeyspaceBreakdown(c) \/ InspectKey(c) \/ GetProduct(c)
  PROVE  Keeps(c)
<1> USE EmptyAnswers, KeysOf, BeginKeeps
<1>1. /\ Key \in SUBSET Key
      /\ \A t \in Tenant \union {Shared} : Owned(t) \in SUBSET Key
      /\ \A k \in Key : {k} \in SUBSET Key
  OBVIOUS
<1>2. /\ "list" \in Ops /\ "browse" \in Ops /\ "keys" \in Ops /\ "clear" \in Ops /\ "flush" \in Ops
      /\ "prove" \in Ops /\ "sample" \in Ops /\ "inspect" \in Ops /\ "read" \in Ops
      /\ {"list", "browse", "keys"} = Lists
      /\ {"clear", "flush", "prove", "sample", "inspect", "read"} \intersect Lists = {}
  BY DEF Ops, Lists
<1>3. /\ Takes("list", "scan") /\ Takes("browse", "scan") /\ Takes("keys", "keys")
      /\ Takes("clear", "scan") /\ Takes("flush", "scan") /\ Takes("prove", "exists")
      /\ Takes("sample", "scan") /\ Takes("inspect", "type") /\ Takes("read", "get")
  BY DEF Takes
<1>4. CASE ListKeys(c)
  <2>1. ASSUME NEW t \in Tenant \union {Shared}, Begin(c, "list", "scan", Owned(t), EmptyPage)
        PROVE  Keeps(c)
    BY <2>1, <1>1, <1>2, <1>3
  <2>2. ASSUME NEW t \in Tenant \union {Shared}, Begin(c, "keys", "keys", Owned(t), EmptyPage)
        PROVE  Keeps(c)
    BY <2>2, <1>1, <1>2, <1>3
  <2>3. CASE Begin(c, "browse", "scan", Key, EmptyPage)
    BY <2>3, <1>1, <1>2, <1>3
  <2>4. CASE Begin(c, "keys", "keys", Key, EmptyPage)
    BY <2>4, <1>1, <1>2, <1>3
  <2> QED BY <2>1, <2>2, <2>3, <2>4, <1>4 DEF ListKeys
<1>5. CASE ClearTenant(c)
  <2>1. PICK t \in Tenant : Begin(c, "clear", "scan", Owned(t), No)
    BY <1>5 DEF ClearTenant
  <2> QED BY <2>1, <1>1, <1>2, <1>3
<1>6. CASE FlushNamespace(c)
  BY <1>6, <1>1, <1>2, <1>3 DEF FlushNamespace
<1>7. CASE ProveIsolation(c)
  BY <1>7, <1>1, <1>2, <1>3 DEF ProveIsolation
<1>8. CASE GetKeyspaceBreakdown(c)
  BY <1>8, <1>1, <1>2, <1>3 DEF GetKeyspaceBreakdown
<1>9. CASE InspectKey(c)
  <2>1. PICK k \in Key : Begin(c, "inspect", "type", {k}, NotFound)
    BY <1>9 DEF InspectKey, Addressable, AllKeys
  <2> QED BY <2>1, <1>1, <1>2, <1>3
<1>10. CASE GetProduct(c)
  <2>1. PICK k \in Key : Begin(c, "read", "get", {k}, No)
    BY <1>10 DEF GetProduct
  <2> QED BY <2>1, <1>1, <1>2, <1>3
<1> QED BY <1>4, <1>5, <1>6, <1>7, <1>8, <1>9, <1>10

-----------------------------------------------------------------------------
(* SCAN *)

LEMMA AnswerTypes ==
  ASSUME TypeOK, NEW c \in Caller
  PROVE  /\ op[c] \in Lists => answer[c] \in Page
         /\ op[c] = "sample" => answer[c] \in Sample
         /\ op[c] = "inspect" => answer[c] \in Inspection
         /\ op[c] \notin Lists \union {"sample", "inspect"} => answer[c] \in Verdict
BY DEF TypeOK, AnswerOf, Lists

\* What a call leaves in `seen' and `ended'.
LEMMA ScanReturns ==
  ASSUME IInv, NEW c \in Caller, NEW batch \in SUBSET scope[c], NEW last \in BOOLEAN,
         Returned(c, batch, last), UNCHANGED <<scope, stood>>
  PROVE  /\ batch \subseteq Key /\ batch \subseteq Present(db)
         /\ seen' \in [Caller -> SUBSET Key] /\ ended' \in [Caller -> BOOLEAN]
         /\ seen'[c] = seen[c] \union batch /\ ended'[c] = last
         /\ \A d \in Caller \ {c} : seen'[d] = seen[d] /\ ended'[d] = ended[d]
         /\ seen'[c] \subseteq scope'[c]
         /\ ended'[c] => stood'[c] \intersect scope'[c] \subseteq seen'[c]
<1> USE DEF IInv, TypeOK, Returned
<1>1. batch \subseteq Key /\ batch \subseteq Present(db)
  OBVIOUS
<1>2. seen' \in [Caller -> SUBSET Key] /\ seen'[c] = seen[c] \union batch
      /\ \A d \in Caller \ {c} : seen'[d] = seen[d]
  BY <1>1
<1>3. ended' \in [Caller -> BOOLEAN] /\ ended'[c] = last
      /\ \A d \in Caller \ {c} : ended'[d] = ended[d]
  BY Zenon
<1> QED BY <1>1, <1>2, <1>3 DEF Local, Covered

\* What fits a page: all of a batch that is no larger than the room.
LEMMA FitKeeps ==
  ASSUME NEW batch, batch \subseteq Key, NEW room \in Nat, NEW kept, Fit(batch, room, kept)
  PROVE  /\ kept \subseteq batch /\ Cardinality(kept) \in Nat /\ Cardinality(batch) \in Nat
         /\ Cardinality(kept) <= room
         /\ Cardinality(batch) <= room => kept = batch
         /\ Cardinality(batch) >= room => Cardinality(kept) = room
<1>1. kept \subseteq batch
  BY DEF Fit
<1>2. Cardinality(kept) \in Nat /\ Cardinality(batch) \in Nat
  BY <1>1, SubsetOfKeys
<1>3. Cardinality(kept) = Cardinality(batch) => kept = batch
  BY <1>1, SmallerSet
<1> QED BY <1>1, <1>2, <1>3 DEF Fit

LEMMA ScanPageKeeps ==
  ASSUME IInv, NEW c \in Caller, ScanPage(c)
  PROVE  Keeps(c)
<1> PICK batch \in SUBSET scope[c], kept \in SUBSET scope[c], last \in BOOLEAN :
      LET total == answer[c].size + Cardinality(batch)
          done  == last \/ total >= Limit
      IN  /\ Returned(c, batch, last)
          /\ Fit(batch, Limit - answer[c].size, kept)
          /\ Note(c, [keys |-> answer[c].keys \union kept,
                      size |-> answer[c].size + Cardinality(kept),
                      more |-> done /\ HasMore(c, total, last)])
          /\ Goto(c, IF done THEN "idle" ELSE "scan")
  BY Zenon DEF ScanPage
<1> DEFINE a == answer[c]
           total == a.size + Cardinality(batch)
           done == last \/ total >= Limit
           more == done /\ HasMore(c, total, last)
           page == [keys |-> a.keys \union kept, size |-> a.size + Cardinality(kept),
                    more |-> more]
<1>0. /\ pc[c] = "scan" /\ op[c] \in {"list", "browse"}
      /\ UNCHANGED <<db, op, scope, todo, stood>>
  BY DEF ScanPage
<1>1. a \in Page /\ a.keys \subseteq scope[c] /\ a.keys = seen[c] /\ a.size < Limit
      /\ a.size \in Nat /\ Limit \in Nat
  BY <1>0, AnswerTypes, KeyspaceAssumption DEF IInv, Local, Paging, Lists, Page
<1>2. /\ batch \subseteq Key
      /\ seen' \in [Caller -> SUBSET Key] /\ ended' \in [Caller -> BOOLEAN]
      /\ seen'[c] = seen[c] \union batch /\ ended'[c] = last
      /\ \A d \in Caller \ {c} : seen'[d] = seen[d] /\ ended'[d] = ended[d]
      /\ seen'[c] \subseteq scope'[c]
      /\ ended'[c] => stood'[c] \intersect scope'[c] \subseteq seen'[c]
  BY <1>0, ScanReturns
<1>3. /\ kept \subseteq batch /\ Cardinality(kept) \in Nat /\ Cardinality(batch) \in Nat
      /\ Cardinality(kept) <= Limit - a.size
      /\ Cardinality(batch) <= Limit - a.size => kept = batch
      /\ Cardinality(batch) >= Limit - a.size => Cardinality(kept) = Limit - a.size
  <2>1. Limit - a.size \in Nat
    BY <1>1
  <2> HIDE DEF a
  <2> QED BY <2>1, <1>2, FitKeeps DEF a
<1>4. more \in BOOLEAN
  BY Zenon
<1>5. scope[c] \subseteq Key
  BY DEF IInv, TypeOK
<1>6. page \in Page
  <2>1. a.keys \union kept \in SUBSET Key
    BY <1>1, <1>3, <1>5
  <2>2. a.size + Cardinality(kept) \in 0..Limit
    BY <1>1, <1>3
  <2> HIDE DEF more, a
  <2> QED BY <2>1, <2>2, <1>4 DEF Page
<1>7. /\ pc' = [pc EXCEPT ![c] = IF done THEN "idle" ELSE "scan"]
      /\ answer' = [answer EXCEPT ![c] = page]
  BY DEF Goto, Note
<1>8. /\ pc' \in [Caller -> Commands] /\ pc'[c] = IF done THEN "idle" ELSE "scan"
      /\ \A d \in Caller \ {c} : pc'[d] = pc[d]
  BY <1>7 DEF IInv, TypeOK, Commands
<1>9. /\ answer' \in [Caller -> Page \union Sample \union Inspection \union Verdict]
      /\ answer'[c] = page /\ \A d \in Caller \ {c} : answer'[d] = answer[d]
  <2> HIDE DEF page
  <2> QED BY <1>6, <1>7 DEF IInv, TypeOK
<1>10. \A d \in Caller : answer'[d] \in AnswerOf(op'[d])
  <2> HIDE DEF page
  <2>1. answer'[c] \in AnswerOf(op'[c])
    BY <1>0, <1>6, <1>9 DEF AnswerOf, Lists
  <2> QED BY <2>1, <1>0, <1>9 DEF IInv, TypeOK
<1>11. TypeOK'
  <2> HIDE DEF page
  <2> QED BY <1>0, <1>2, <1>8, <1>9, <1>10 DEF IInv, TypeOK
<1>12. Spared /\ \A d \in Caller : Shrinks(d)
  BY <1>0, ReadShrinks DEF IInv, Local
<1>13. \A d \in Caller \ {c} : Rests(d)
  BY <1>0, <1>2, <1>8, <1>9 DEF Rests
<1>14. OnPath(c)' /\ Standing(c)' /\ Covered(c)'
  BY <1>0, <1>2, <1>8 DEF IInv, Local, OnPath, Takes, Standing, Covered
<1>15. Paging(c)'
  <2>1. answer'[c].keys = a.keys \union kept /\ answer'[c].size = a.size + Cardinality(kept)
        /\ answer'[c].more = more
    BY <1>9
  <2>2. ~more /\ done => last /\ kept = batch
    BY <1>0, <1>1, <1>3 DEF HasMore
  <2>3. more => a.size + Cardinality(kept) = Limit
    BY <1>0, <1>1, <1>3 DEF HasMore
  <2>4. ~done => kept = batch /\ a.size + Cardinality(kept) < Limit
    BY <1>1, <1>3
  <2>5. answer'[c].keys \subseteq scope'[c]
    BY <1>0, <1>1, <2>1
  <2>6. pc'[c] = "scan" => answer'[c].keys = seen'[c] /\ answer'[c].size < Limit
    BY <1>1, <1>2, <1>8, <2>1, <2>4
  <2>7. pc'[c] = "idle" /\ ~answer'[c].more
          => stood'[c] \intersect scope'[c] \subseteq answer'[c].keys
    BY <1>1, <1>2, <1>8, <2>1, <2>2
  <2>8. pc'[c] = "idle" /\ answer'[c].more => answer'[c].size = Limit
    BY <2>1, <2>3
  <2> QED BY <2>5, <2>6, <2>7, <2>8 DEF Paging
<1>16. Sweeping(c)' /\ Proving(c)' /\ Sampling(c)' /\ Inspecting(c)'
  BY <1>0 DEF Sweeping, Proving, Sampling, Inspecting
<1> QED BY <1>11, <1>12, <1>13, <1>14, <1>15, <1>16 DEF Keeps, Local

\* A command that only moves c's program counter on, or its answer as well: what
\* is left to show is what c knows then.
LEMMA MoveKeeps ==
  ASSUME IInv, NEW c \in Caller, NEW command \in Commands, Goto(c, command),
         UNCHANGED <<op, scope>>,
         seen' \in [Caller -> SUBSET Key], todo' \in [Caller -> SUBSET Key],
         ended' \in [Caller -> BOOLEAN],
         \A d \in Caller \ {c} : seen'[d] = seen[d] /\ todo'[d] = todo[d] /\ ended'[d] = ended[d],
         NEW a, a \in AnswerOf(op[c]), Note(c, a) \/ (a = answer[c] /\ UNCHANGED answer),
         db' \in [AllKeys -> Life], stood' \in [Caller -> SUBSET AllKeys],
         \A d \in Caller : Shrinks(d), Spared
  PROVE  /\ TypeOK' /\ pc'[c] = command /\ answer'[c] = a
         /\ Local(c)' => Keeps(c)
<1> USE DEF IInv, TypeOK
<1>1. pc' \in [Caller -> Commands] /\ pc'[c] = command /\ \A d \in Caller \ {c} : pc'[d] = pc[d]
  BY DEF Goto
<1>2. a \in Page \union Sample \union Inspection \union Verdict
  BY DEF AnswerOf
<1>3. /\ answer' \in [Caller -> Page \union Sample \union Inspection \union Verdict]
      /\ answer'[c] = a /\ \A d \in Caller \ {c} : answer'[d] = answer[d]
  BY <1>2 DEF Note
<1>4. \A d \in Caller : answer'[d] \in AnswerOf(op'[d])
  BY <1>3
<1>5. TypeOK'
  BY <1>1, <1>3, <1>4
<1>6. \A d \in Caller \ {c} : Rests(d)
  BY <1>1, <1>3 DEF Rests
<1> QED BY <1>1, <1>3, <1>5, <1>6 DEF Keeps

LEMMA ListByKeysKeeps ==
  ASSUME IInv, NEW c \in Caller, ListByKeys(c)
  PROVE  Keeps(c)
<1> DEFINE page == [keys |-> scope[c] \intersect Present(db), size |-> 0, more |-> FALSE]
<1>1. /\ pc[c] = "keys" /\ Note(c, page) /\ Goto(c, "idle")
      /\ UNCHANGED <<db, op, scope, seen, todo, ended, stood>>
  BY DEF ListByKeys
<1>2. op[c] = "keys" /\ Standing(c)
  BY <1>1 DEF IInv, Local, OnPath, Takes
<1>4. page \in AnswerOf(op[c])
  <2>1. FALSE \in BOOLEAN /\ 0 \in 0..Limit /\ scope[c] \intersect Present(db) \in SUBSET Key
    BY KeyspaceAssumption DEF IInv, TypeOK
  <2>2. page \in Page
    BY <2>1 DEF Page
  <2> QED BY <2>2, <1>2 DEF AnswerOf, Lists
<1>5. "idle" \in Commands
  BY DEF Commands
<1>6. TypeOK' /\ pc'[c] = "idle" /\ answer'[c] = page /\ (Local(c)' => Keeps(c))
  <2> HIDE DEF page
  <2> QED BY <1>1, <1>4, <1>5, MoveKeeps, ReadShrinks DEF IInv, TypeOK, Local
<1>7. Paging(c)'
  BY <1>1, <1>2, <1>6 DEF Paging, Standing
<1>8. OnPath(c)' /\ Standing(c)' /\ Covered(c)'
  BY <1>1, <1>6 DEF OnPath, Standing, Covered, IInv, Local
<1>9. Sweeping(c)' /\ Proving(c)' /\ Sampling(c)' /\ Inspecting(c)'
  BY <1>1, <1>2 DEF Sweeping, Proving, Sampling, Inspecting
<1> QED BY <1>6, <1>7, <1>8, <1>9 DEF Local

-----------------------------------------------------------------------------
(* Sweeps *)

LEMMA ScanTenantKeeps ==
  ASSUME IInv, NEW c \in Caller, ScanTenant(c)
  PROVE  Keeps(c)
<1> PICK batch \in SUBSET scope[c], last \in BOOLEAN :
      /\ Returned(c, batch, last)
      /\ Goto(c, IF ~last THEN "scan" ELSE IF seen'[c] # {} THEN "delMany" ELSE "idle")
  BY DEF ScanTenant
<1> DEFINE next == IF ~last THEN "scan" ELSE IF seen'[c] # {} THEN "delMany" ELSE "idle"
<1>1. /\ pc[c] = "scan" /\ op[c] = "clear"
      /\ UNCHANGED <<db, op, scope, todo, answer, stood>>
  BY DEF ScanTenant
<1>2. /\ seen' \in [Caller -> SUBSET Key] /\ ended' \in [Caller -> BOOLEAN]
      /\ seen'[c] = seen[c] \union batch /\ ended'[c] = last
      /\ \A d \in Caller \ {c} : seen'[d] = seen[d] /\ ended'[d] = ended[d]
      /\ seen'[c] \subseteq scope'[c]
      /\ ended'[c] => stood'[c] \intersect scope'[c] \subseteq seen'[c]
  BY <1>1, ScanReturns
<1>3. next \in Commands
  BY DEF Commands
<1>4. TypeOK' /\ pc'[c] = next /\ answer'[c] = answer[c] /\ (Local(c)' => Keeps(c))
  <2> HIDE DEF next
  <2>1. Goto(c, next)
    BY DEF next
  <2> QED BY <2>1, <1>1, <1>2, <1>3, MoveKeeps, ReadShrinks DEF IInv, TypeOK, Local
<1>5. OnPath(c)' /\ Standing(c)' /\ Covered(c)'
  BY <1>1, <1>2, <1>4 DEF OnPath, Takes, Standing, Covered, IInv, Local
<1>6. Sweeping(c)'
  BY <1>1, <1>2, <1>4 DEF Sweeping, IInv, Local
<1>7. Paging(c)' /\ Proving(c)' /\ Sampling(c)' /\ Inspecting(c)'
  BY <1>1 DEF Paging, Lists, Proving, Sampling, Inspecting
<1> QED BY <1>4, <1>5, <1>6, <1>7 DEF Local

LEMMA DelManyKeeps ==
  ASSUME IInv, NEW c \in Caller, DelMany(c)
  PROVE  Keeps(c)
<1>1. /\ pc[c] = "delMany" /\ Store(seen[c], "absent") /\ Goto(c, "idle")
      /\ UNCHANGED <<op, scope, seen, todo, ended, answer>>
  BY DEF DelMany, Ids
<1>2. op[c] = "clear" /\ ended[c] /\ Covered(c) /\ Sweeping(c)
  BY <1>1 DEF IInv, Local, OnPath, Takes, Sweeping
<1>3. "absent" \in Life /\ Demo \notin seen[c]
  BY KeysOf DEF Life, IInv, TypeOK
<1>4. /\ db' \in [AllKeys -> Life] /\ stood' \in [Caller -> SUBSET AllKeys]
      /\ (\A d \in Caller : Shrinks(d)) /\ Spared
  BY <1>1, <1>3, StoreShrinks DEF IInv, Local
<1>5. "idle" \in Commands
  BY DEF Commands
<1>6. TypeOK' /\ pc'[c] = "idle" /\ answer'[c] = answer[c] /\ (Local(c)' => Keeps(c))
  BY <1>1, <1>4, <1>5, MoveKeeps DEF IInv, TypeOK
<1>7. stood'[c] = stood[c] \ seen[c]
  BY <1>1 DEF Store
<1>8. OnPath(c)' /\ Standing(c)' /\ Covered(c)'
  BY <1>1, <1>2, <1>6, <1>7 DEF OnPath, Standing, Covered
<1>9. Sweeping(c)'
  BY <1>1, <1>2, <1>6, <1>7 DEF Sweeping, Covered
<1>10. Paging(c)' /\ Proving(c)' /\ Sampling(c)' /\ Inspecting(c)'
  BY <1>1, <1>2 DEF Paging, Lists, Proving, Sampling, Inspecting
<1> QED BY <1>6, <1>8, <1>9, <1>10 DEF Local

LEMMA ScanFlushKeeps ==
  ASSUME IInv, NEW c \in Caller, ScanFlush(c)
  PROVE  Keeps(c)
<1> PICK batch \in SUBSET scope[c], last \in BOOLEAN :
      /\ Returned(c, batch, last)
      /\ todo' = [todo EXCEPT ![c] = batch]
      /\ Goto(c, IF batch # {} THEN "unlink" ELSE IF last THEN Flushed(c) ELSE "scan")
  BY DEF ScanFlush
<1> DEFINE next == IF batch # {} THEN "unlink" ELSE IF last THEN Flushed(c) ELSE "scan"
<1>1. /\ pc[c] = "scan" /\ op[c] \in {"flush", "prove"}
      /\ UNCHANGED <<db, op, scope, answer, stood>>
  BY DEF ScanFlush
<1>2. /\ batch \subseteq Key
      /\ seen' \in [Caller -> SUBSET Key] /\ ended' \in [Caller -> BOOLEAN]
      /\ seen'[c] = seen[c] \union batch /\ ended'[c] = last
      /\ \A d \in Caller \ {c} : seen'[d] = seen[d] /\ ended'[d] = ended[d]
      /\ seen'[c] \subseteq scope'[c]
      /\ ended'[c] => stood'[c] \intersect scope'[c] \subseteq seen'[c]
  BY <1>1, ScanReturns
<1>3. /\ todo' \in [Caller -> SUBSET Key] /\ todo'[c] = batch
      /\ \A d \in Caller \ {c} : todo'[d] = todo[d]
  BY <1>2 DEF IInv, TypeOK
<1>4. next \in Commands
  BY DEF Commands, Flushed
<1>5. TypeOK' /\ pc'[c] = next /\ answer'[c] = answer[c] /\ (Local(c)' => Keeps(c))
  <2> HIDE DEF next
  <2>1. Goto(c, next)
    BY DEF next
  <2> QED BY <2>1, <1>1, <1>2, <1>3, <1>4, MoveKeeps, ReadShrinks DEF IInv, TypeOK, Local
<1>6. OnPath(c)' /\ Standing(c)' /\ Covered(c)'
  BY <1>1, <1>2, <1>3, <1>5 DEF OnPath, Takes, Flushed, Standing, Covered, IInv, Local
<1>7. Sweeping(c)'
  BY <1>1, <1>2, <1>3, <1>5 DEF Sweeping, Flushed, IInv, Local
<1>8. Proving(c)'
  BY <1>1, <1>5 DEF Proving, Flushed, IInv, Local
<1>9. Paging(c)' /\ Sampling(c)' /\ Inspecting(c)'
  BY <1>1 DEF Paging, Lists, Sampling, Inspecting
<1> QED BY <1>5, <1>6, <1>7, <1>8, <1>9 DEF Local

LEMMA UnlinkKeeps ==
  ASSUME IInv, NEW c \in Caller, Unlink(c)
  PROVE  Keeps(c)
<1> DEFINE next == IF ended[c] THEN Flushed(c) ELSE "scan"
<1>1. /\ pc[c] = "unlink" /\ Store(todo[c], "absent") /\ Goto(c, next)
      /\ todo' = [todo EXCEPT ![c] = {}]
      /\ UNCHANGED <<op, scope, seen, ended, answer>>
  BY DEF Unlink
<1>2. op[c] \in {"flush", "prove"} /\ Covered(c) /\ Sweeping(c) /\ Proving(c)
  BY <1>1 DEF IInv, Local, OnPath, Takes
<1>3. "absent" \in Life /\ Demo \notin todo[c]
  BY KeysOf DEF Life, IInv, TypeOK
<1>4. /\ db' \in [AllKeys -> Life] /\ stood' \in [Caller -> SUBSET AllKeys]
      /\ (\A d \in Caller : Shrinks(d)) /\ Spared
  BY <1>1, <1>3, StoreShrinks DEF IInv, Local
<1>5. /\ todo' \in [Caller -> SUBSET Key] /\ todo'[c] = {}
      /\ \A d \in Caller \ {c} : todo'[d] = todo[d]
  BY <1>1 DEF IInv, TypeOK
<1>6. next \in Commands
  BY DEF Commands, Flushed
<1>7. TypeOK' /\ pc'[c] = next /\ answer'[c] = answer[c] /\ (Local(c)' => Keeps(c))
  <2> HIDE DEF next
  <2> QED BY <1>1, <1>4, <1>5, <1>6, MoveKeeps DEF IInv, TypeOK
<1>8. stood'[c] = stood[c] \ todo[c]
  BY <1>1 DEF Store
<1>9. OnPath(c)' /\ Standing(c)' /\ Covered(c)'
  BY <1>1, <1>2, <1>4, <1>5, <1>7, <1>8 DEF OnPath, Takes, Flushed, Standing, Covered, Shrinks
<1>10. Sweeping(c)'
  BY <1>1, <1>2, <1>5, <1>7, <1>8 DEF Sweeping, Covered, Flushed
<1>11. Proving(c)'
  BY <1>1, <1>2, <1>4, <1>7 DEF Proving, Flushed, Spared
<1>12. Paging(c)' /\ Sampling(c)' /\ Inspecting(c)'
  BY <1>1, <1>2 DEF Paging, Lists, Sampling, Inspecting
<1> QED BY <1>7, <1>9, <1>10, <1>11, <1>12 DEF Local

-----------------------------------------------------------------------------
(* The isolation proof *)

LEMMA ExistsForeignKeeps ==
  ASSUME IInv, NEW c \in Caller, ExistsForeign(c)
  PROVE  Keeps(c)
<1>1. /\ pc[c] = "exists" /\ Goto(c, AfterExists)
      /\ UNCHANGED <<db, op, scope, seen, todo, ended, answer, stood>>
  BY DEF ExistsForeign
<1>2. op[c] = "prove" /\ Covered(c) /\ Sweeping(c) /\ Standing(c)
  BY <1>1 DEF IInv, Local, OnPath, Takes
<1>3. AfterExists \in Commands
  BY DEF Commands, AfterExists
<1>4. TypeOK' /\ pc'[c] = AfterExists /\ answer'[c] = answer[c] /\ (Local(c)' => Keeps(c))
  BY <1>1, <1>3, MoveKeeps, ReadShrinks DEF IInv, TypeOK, Local
<1>5. OnPath(c)' /\ Standing(c)' /\ Covered(c)'
  BY <1>1, <1>2, <1>4 DEF OnPath, Takes, AfterExists, Standing, Covered
<1>6. Sweeping(c)' /\ Proving(c)'
  BY <1>1, <1>2, <1>4 DEF Sweeping, Proving, AfterExists
<1>7. Paging(c)' /\ Sampling(c)' /\ Inspecting(c)'
  BY <1>1, <1>2 DEF Paging, Lists, Sampling, Inspecting
<1> QED BY <1>4, <1>5, <1>6, <1>7 DEF Local

LEMMA SeedForeignKeeps ==
  ASSUME IInv, NEW c \in Caller, SeedForeign(c)
  PROVE  Keeps(c)
<1>1. /\ pc[c] = "seed" /\ Store({Demo}, "forever") /\ Goto(c, "scan")
      /\ UNCHANGED <<op, scope, seen, todo, ended, answer>>
  BY DEF SeedForeign
<1>2. op[c] = "prove" /\ Covered(c) /\ Sweeping(c) /\ Standing(c)
  BY <1>1 DEF IInv, Local, OnPath, Takes
<1>3. "forever" \in Life /\ "forever" # "absent" /\ "scan" \in Commands
  BY DEF Life, Commands
<1>4. /\ db' \in [AllKeys -> Life] /\ stood' \in [Caller -> SUBSET AllKeys]
      /\ (\A d \in Caller : Shrinks(d)) /\ Spared
  BY <1>1, <1>3, StoreShrinks DEF IInv, Local
<1>5. TypeOK' /\ pc'[c] = "scan" /\ answer'[c] = answer[c] /\ (Local(c)' => Keeps(c))
  BY <1>1, <1>3, <1>4, MoveKeeps DEF IInv, TypeOK
<1>6. OnPath(c)' /\ Standing(c)' /\ Covered(c)'
  BY <1>1, <1>2, <1>4, <1>5 DEF OnPath, Takes, Standing, Covered, Shrinks
<1>7. Sweeping(c)'
  BY <1>1, <1>2, <1>4, <1>5 DEF Sweeping, Shrinks
<1>8. Proving(c)'
  BY <1>1, <1>3, <1>5, KeysOf DEF Proving, Store
<1>9. Paging(c)' /\ Sampling(c)' /\ Inspecting(c)'
  BY <1>1, <1>2 DEF Paging, Lists, Sampling, Inspecting
<1> QED BY <1>5, <1>6, <1>7, <1>8, <1>9 DEF Local

LEMMA VerifyForeignKeeps ==
  ASSUME IInv, NEW c \in Caller, VerifyForeign(c)
  PROVE  Keeps(c)
<1> DEFINE there == db[Demo] # "absent"
           a == [yes |-> there]
<1>1. /\ pc[c] = "verify" /\ Note(c, a) /\ Goto(c, "idle")
      /\ UNCHANGED <<db, op, scope, seen, todo, ended, stood>>
  BY DEF VerifyForeign
<1>2. op[c] = "prove" /\ Covered(c) /\ Sweeping(c) /\ Proving(c)
  BY <1>1 DEF IInv, Local, OnPath, Takes
<1>3. there \in BOOLEAN
  BY Zenon
<1>4. a \in AnswerOf(op[c]) /\ a.yes = there
  <2> HIDE DEF there
  <2> QED BY <1>2, <1>3 DEF AnswerOf, Lists, Verdict
<1>5. "idle" \in Commands
  BY DEF Commands
<1>6. TypeOK' /\ pc'[c] = "idle" /\ answer'[c] = a /\ (Local(c)' => Keeps(c))
  <2> HIDE DEF a
  <2> QED BY <1>1, <1>4, <1>5, MoveKeeps, ReadShrinks DEF IInv, TypeOK, Local
<1>7. OnPath(c)' /\ Standing(c)' /\ Covered(c)'
  BY <1>1, <1>2, <1>6 DEF OnPath, Standing, Covered
<1>8. Sweeping(c)'
  BY <1>1, <1>2, <1>6 DEF Sweeping, Covered
<1>9. Proving(c)'
  <2>1. there
    BY <1>1, <1>2 DEF Proving
  <2> HIDE DEF a, there
  <2> QED BY <1>4, <1>6, <2>1 DEF Proving
<1>10. Paging(c)' /\ Sampling(c)' /\ Inspecting(c)'
  BY <1>1, <1>2 DEF Paging, Lists, Sampling, Inspecting
<1> QED BY <1>6, <1>7, <1>8, <1>9, <1>10 DEF Local

-----------------------------------------------------------------------------
(* Inspection, and the tenant's read-through *)

\* Each read of an inspection: what it adds to the answer.
LEMMA InspectionStep ==
  ASSUME IInv, NEW c \in Caller, op[c] = "inspect", pc[c] # "idle",
         NEW command \in Commands, command = "idle" \/ Takes("inspect", command),
         NEW a \in Inspection, Note(c, a), Goto(c, command),
         UNCHANGED <<db, op, scope, seen, todo, ended, stood>>,
         scope[c] \subseteq stood[c] =>
           /\ command # "type" => a.found
           /\ command \in {"raw", "ttl", "idle"} => a.value
           /\ command \in {"ttl", "idle"} => (a.raw <=> scope[c] \subseteq StringKey)
           /\ command = "idle" => a.ttl # "absent"
  PROVE  Keeps(c)
<1>1. a \in AnswerOf(op[c])
  BY DEF AnswerOf, Lists
<1>2. TypeOK' /\ pc'[c] = command /\ answer'[c] = a /\ (Local(c)' => Keeps(c))
  BY <1>1, MoveKeeps, ReadShrinks DEF IInv, TypeOK, Local
<1>3. OnPath(c)' /\ Standing(c)' /\ Covered(c)'
  BY <1>2 DEF OnPath, Standing, Covered, IInv, Local
<1>4. Inspecting(c)'
  BY <1>2 DEF Inspecting, IInv, Local
<1>5. Paging(c)' /\ Sweeping(c)' /\ Proving(c)' /\ Sampling(c)'
  BY DEF Paging, Lists, Sweeping, Proving, Sampling
<1> QED BY <1>2, <1>3, <1>4, <1>5 DEF Local

\* The key of an inspection holds a string.
LEMMA StringIsHeld ==
  ASSUME NEW c, NEW k, scope[c] = {k}
  PROVE  scope[c] \subseteq StringKey <=> TheKey(c) \in StringKey
<1>1. TheKey(c) = k
  BY DEF TheKey
<1> QED BY <1>1

\* A key that stood all the time is there now.
LEMMA StandingIsThere ==
  ASSUME IInv, NEW c \in Caller, op[c] = "inspect", pc[c] # "idle"
  PROVE  /\ scope[c] \subseteq stood[c] => IsThere(c)
         /\ IsThere(c) \in BOOLEAN /\ db[TheKey(c)] \in Life
<1>1. PICK k \in Key : scope[c] = {k}
  BY DEF IInv, Local, Inspecting
<1>2. TheKey(c) = k
  BY <1>1 DEF TheKey
<1>3. stood[c] \subseteq Present(db)
  BY DEF IInv, Local, Standing
<1>4. scope[c] \subseteq stood[c] => IsThere(c)
  BY <1>1, <1>2, <1>3 DEF IsThere, Present
<1>5. IsThere(c) \in BOOLEAN
  BY Zenon DEF IsThere
<1>6. db[TheKey(c)] \in Life
  BY <1>2, KeysOf DEF IInv, TypeOK
<1> QED BY <1>4, <1>5, <1>6

LEMMA InspectKeeps ==
  ASSUME IInv, NEW c \in Caller, Type(c) \/ Value(c) \/ Raw(c) \/ Ttl(c)
  PROVE  Keeps(c)
<1> DEFINE there == IsThere(c)
<1>1. pc[c] \in {"type", "value", "raw", "ttl"}
  BY DEF Type, Value, Raw, Ttl
<1>2. op[c] = "inspect" /\ pc[c] # "idle"
  BY <1>1 DEF IInv, Local, OnPath, Takes
<1>3. /\ scope[c] \subseteq stood[c] => there
      /\ there \in BOOLEAN /\ db[TheKey(c)] \in Life
  BY <1>2, StandingIsThere
<1>4. answer[c] \in Inspection
  BY <1>2, AnswerTypes DEF IInv
<1>5. Inspecting(c)
  BY DEF IInv, Local
<1>6. /\ {"idle", "value", "raw", "ttl"} \subseteq Commands
      /\ Takes("inspect", "value") /\ Takes("inspect", "raw") /\ Takes("inspect", "ttl")
  BY DEF Commands, Takes
<1>7. CASE Type(c)
  <2> DEFINE a == [found |-> there, value |-> FALSE, raw |-> FALSE, ttl |-> "absent"]
             next == IF there THEN "value" ELSE "idle"
  <2>1. Note(c, a) /\ Goto(c, next) /\ UNCHANGED <<db, op, scope, seen, todo, ended, stood>>
    BY <1>7 DEF Type
  <2>2. FALSE \in BOOLEAN
    BY Zenon
  <2> HIDE DEF there
  <2>3. a \in Inspection /\ a.found = there
    BY <1>3, <2>2 DEF Inspection, Life
  <2>4. next \in Commands /\ (next = "idle" \/ Takes("inspect", next))
        /\ (there => next = "value") /\ next \in {"value", "idle"}
    BY <1>6
  <2> HIDE DEF a, next
  <2> QED BY <2>1, <2>3, <2>4, <1>2, <1>3, InspectionStep
<1>8. CASE Value(c)
  <2> DEFINE a == [answer[c] EXCEPT !.value = there]
  <2>1. Note(c, a) /\ Goto(c, "raw") /\ UNCHANGED <<db, op, scope, seen, todo, ended, stood>>
        /\ pc[c] = "value"
    BY <1>8 DEF Value
  <2> HIDE DEF there
  <2>2. a \in Inspection /\ a.value = there /\ a.found = answer[c].found
    BY <1>3, <1>4 DEF Inspection
  <2> HIDE DEF a
  <2> QED BY <2>1, <2>2, <1>2, <1>3, <1>5, <1>6, InspectionStep DEF Inspecting
<1>9. CASE Raw(c)
  <2> DEFINE read == there /\ TheKey(c) \in StringKey
             a == [answer[c] EXCEPT !.raw = read]
  <2>1. Note(c, a) /\ Goto(c, "ttl") /\ UNCHANGED <<db, op, scope, seen, todo, ended, stood>>
        /\ pc[c] = "raw"
    BY <1>9, Zenon DEF Raw
  <2>2. read \in BOOLEAN
    BY Zenon
  <2>3. scope[c] \subseteq stood[c] => (read <=> scope[c] \subseteq StringKey)
    <3>1. PICK k \in Key : scope[c] = {k}
      BY <1>2, <1>5 DEF Inspecting
    <3>2. scope[c] \subseteq StringKey <=> TheKey(c) \in StringKey
      BY <3>1, StringIsHeld
    <3> HIDE DEF there
    <3> QED BY <3>2, <1>3
  <2> HIDE DEF there, read
  <2>4. a \in Inspection /\ a.raw = read /\ a.found = answer[c].found
        /\ a.value = answer[c].value
    BY <2>2, <1>4 DEF Inspection
  <2> HIDE DEF a
  <2> QED BY <2>1, <2>3, <2>4, <1>2, <1>3, <1>5, <1>6, InspectionStep DEF Inspecting
<1>10. CASE Ttl(c)
  <2> DEFINE life == db[TheKey(c)]
             a == [answer[c] EXCEPT !.ttl = life]
  <2>1. Note(c, a) /\ Goto(c, "idle") /\ UNCHANGED <<db, op, scope, seen, todo, ended, stood>>
        /\ pc[c] = "ttl"
    BY <1>10 DEF Ttl
  <2>2. there => life # "absent"
    BY DEF IsThere
  <2> HIDE DEF there, life
  <2>3. a \in Inspection /\ a.ttl = life /\ a.found = answer[c].found
        /\ a.value = answer[c].value /\ a.raw = answer[c].raw
    BY <1>3, <1>4 DEF Inspection, life
  <2> HIDE DEF a
  <2> QED BY <2>1, <2>2, <2>3, <1>2, <1>3, <1>5, <1>6, InspectionStep DEF Inspecting
<1> QED BY <1>7, <1>8, <1>9, <1>10

LEMMA ReadThroughKeeps ==
  ASSUME IInv, NEW c \in Caller, Get(c) \/ Set(c)
  PROVE  Keeps(c)
<1>1. pc[c] \in {"get", "set"} /\ UNCHANGED <<op, scope, seen, todo, ended>>
  BY DEF Get, Set
<1>2. op[c] = "read" /\ Covered(c)
  BY <1>1 DEF IInv, Local, OnPath, Takes
<1>3. {"idle", "set"} \subseteq Commands /\ Takes("read", "set") /\ "ttl" \in Life
  BY DEF Commands, Takes, Life
<1>4. ASSUME NEW command \in {"idle", "set"}, pc'[c] = command,
             \A d \in Caller : Shrinks(d), pc[c] # "idle"
      PROVE  Local(c)'
  <2>1. OnPath(c)' /\ Standing(c)' /\ Covered(c)'
    BY <1>1, <1>2, <1>3, <1>4 DEF OnPath, Standing, Covered, Shrinks
  <2>2. Paging(c)' /\ Sweeping(c)' /\ Proving(c)' /\ Sampling(c)' /\ Inspecting(c)'
    BY <1>1, <1>2 DEF Paging, Lists, Sweeping, Proving, Sampling, Inspecting
  <2> QED BY <2>1, <2>2 DEF Local
<1>5. CASE Get(c)
  <2> DEFINE there == IsThere(c)
             a == [yes |-> there]
             next == IF there THEN "idle" ELSE "set"
  <2>1. Note(c, a) /\ Goto(c, next) /\ UNCHANGED <<db, stood>>
    BY <1>5 DEF Get
  <2>2. there \in BOOLEAN
    BY Zenon DEF IsThere
  <2> HIDE DEF there
  <2>3. a \in AnswerOf(op[c])
    BY <1>2, <2>2 DEF AnswerOf, Lists, Verdict
  <2>4. next \in {"idle", "set"} /\ next \in Commands
    BY <1>3
  <2> HIDE DEF a, next
  <2>5. \A d \in Caller : Shrinks(d)
    BY <2>1, ReadShrinks DEF IInv, Local
  <2>6. pc'[c] = next /\ (Local(c)' => Keeps(c))
    BY <1>1, <2>1, <2>3, <2>4, MoveKeeps, ReadShrinks DEF IInv, TypeOK, Local
  <2> QED BY <1>1, <1>4, <2>4, <2>5, <2>6
<1>6. CASE Set(c)
  <2>1. Store(scope[c], "ttl") /\ Goto(c, "idle") /\ UNCHANGED answer
    BY <1>6 DEF Set
  <2>2. /\ db' \in [AllKeys -> Life] /\ stood' \in [Caller -> SUBSET AllKeys]
        /\ (\A d \in Caller : Shrinks(d)) /\ Spared
    BY <1>3, <2>1, StoreShrinks DEF IInv, Local
  <2>3. pc'[c] = "idle" /\ (Local(c)' => Keeps(c))
    BY <1>1, <1>3, <2>1, <2>2, MoveKeeps DEF IInv, TypeOK
  <2> QED BY <1>1, <1>4, <2>2, <2>3
<1> QED BY <1>5, <1>6

-----------------------------------------------------------------------------
(* The keyspace sample *)

LEMMA ScanSampleKeeps ==
  ASSUME IInv, NEW c \in Caller, ScanSample(c)
  PROVE  Keeps(c)
<1>0. PICK batch \in SUBSET scope[c], kept \in SUBSET scope[c], last \in BOOLEAN :
      /\ Returned(c, batch, last)
      /\ Fit(batch, Cap - answer[c].sampled, kept)
      /\ todo' = [todo EXCEPT ![c] = kept]
      /\ Note(c, [answer[c] EXCEPT !.sampled = @ + Cardinality(kept), !.cut = @ \/ kept # batch])
      /\ Goto(c, IF kept # {} THEN "probe" ELSE IF last THEN "idle" ELSE "scan")
  BY DEF ScanSample
<1>r. Returned(c, batch, last) /\ Fit(batch, Cap - answer[c].sampled, kept)
  BY <1>0, Zenon
<1> DEFINE a == answer[c]
           n == Cardinality(kept)
           cut == a.cut \/ kept # batch
           next == IF kept # {} THEN "probe" ELSE IF last THEN "idle" ELSE "scan"
           b == [a EXCEPT !.sampled = a.sampled + n, !.cut = cut]
           Before == (stood[c] \intersect seen[c]) \ todo[c]
           After == (stood'[c] \intersect seen'[c]) \ todo'[c]
<1>1. /\ pc[c] = "scan" /\ op[c] = "sample"
      /\ UNCHANGED <<db, op, scope, stood>>
  BY DEF ScanSample
<1>2. /\ a \in Sample /\ Cap \in Nat
      /\ a.ttl + a.forever + a.failed + Cardinality(todo[c]) = a.sampled
      /\ a.sampled <= Cap /\ scope[c] = Key /\ todo[c] = {}
      /\ (~a.cut => Cardinality(Before) <= a.ttl + a.forever + a.failed)
  BY <1>1, AnswerTypes, KeyspaceAssumption DEF IInv, Local, Sampling
<1>3. /\ batch \subseteq Key
      /\ seen' \in [Caller -> SUBSET Key] /\ ended' \in [Caller -> BOOLEAN]
      /\ seen'[c] = seen[c] \union batch /\ ended'[c] = last
      /\ \A d \in Caller \ {c} : seen'[d] = seen[d] /\ ended'[d] = ended[d]
      /\ seen'[c] \subseteq scope'[c]
      /\ ended'[c] => stood'[c] \intersect scope'[c] \subseteq seen'[c]
  BY <1>1, <1>r, ScanReturns
<1>4. a.sampled \in Nat /\ a.ttl \in Nat /\ a.forever \in Nat /\ a.failed \in Nat
      /\ a.cut \in BOOLEAN
  <2> HIDE DEF a
  <2> QED BY <1>2 DEF Sample
<1>5. kept \subseteq batch /\ n \in Nat /\ n <= Cap - a.sampled
  <2> DEFINE room == Cap - answer[c].sampled
  <2>1. room \in Nat
    BY <1>2, <1>4
  <2>2. Fit(batch, room, kept)
    BY <1>r
  <2> HIDE DEF a, room
  <2>3. kept \subseteq batch /\ Cardinality(kept) \in Nat /\ Cardinality(kept) <= room
    BY <1>3, <2>1, <2>2, FitKeeps
  <2> QED BY <2>3 DEF room, a
<1>6. /\ todo' \in [Caller -> SUBSET Key] /\ todo'[c] = kept
      /\ \A d \in Caller \ {c} : todo'[d] = todo[d]
  <2>1. todo' = [todo EXCEPT ![c] = kept]
    BY <1>0, Zenon
  <2> QED BY <1>3, <1>5, <2>1 DEF IInv, TypeOK
<1>7. cut \in BOOLEAN
  BY Zenon
<1>8. /\ b \in Sample /\ b.ttl = a.ttl /\ b.forever = a.forever /\ b.failed = a.failed
      /\ b.sampled = a.sampled + n /\ b.cut = cut
  <2>1. a.sampled + n \in Nat
    BY <1>4, <1>5
  <2> HIDE DEF a, n, cut
  <2> QED BY <1>2, <1>7, <2>1 DEF Sample
<1>9. b \in AnswerOf(op[c])
  <2> HIDE DEF b
  <2> QED BY <1>1, <1>8 DEF AnswerOf, Lists
<1>10. next \in Commands
  BY DEF Commands
<1>11. TypeOK' /\ pc'[c] = next /\ answer'[c] = b /\ (Local(c)' => Keeps(c))
  <2>1. Note(c, b) /\ Goto(c, next)
    BY <1>0, Zenon
  <2> HIDE DEF next, b
  <2> QED BY <2>1, <1>1, <1>3, <1>6, <1>9, <1>10, MoveKeeps, ReadShrinks DEF IInv, TypeOK, Local
<1>12. OnPath(c)' /\ Standing(c)' /\ Covered(c)'
  BY <1>1, <1>3, <1>5, <1>6, <1>11 DEF OnPath, Takes, Standing, Covered, IInv, Local
<1>13. Sampling(c)'
  <2>1. Cardinality(todo[c]) = 0
    BY <1>2, FS_EmptySet
  <2>2. ~cut => Cardinality(After) <= a.ttl + a.forever + a.failed
    <3>1. ASSUME ~cut PROVE After \subseteq Before /\ Before \subseteq Key
      BY <3>1, <1>1, <1>2, <1>3, <1>6 DEF IInv, TypeOK
    <3>2. ASSUME ~cut PROVE Cardinality(After) <= Cardinality(Before)
                            /\ Cardinality(After) \in Nat /\ Cardinality(Before) \in Nat
      <4> HIDE DEF After, Before, cut
      <4>1. After \subseteq Before /\ Before \subseteq Key
        BY <3>1, <3>2
      <4>2. After \subseteq Key
        BY <4>1
      <4> QED BY <4>1, <4>2, SmallerSet, SubsetOfKeys
    <3>3. ~cut => ~a.cut
      OBVIOUS
    <3> HIDE DEF After, Before, cut, a
    <3> QED BY <1>2, <1>4, <3>2, <3>3
  <2>3. next # "probe" => kept = {}
    OBVIOUS
  <2>4. b.ttl + b.forever + b.failed + n = b.sampled /\ b.sampled <= Cap
    <3> HIDE DEF a, b, n
    <3> QED BY <1>2, <1>4, <1>5, <1>8, <2>1
  <2>5. ~b.cut => Cardinality(After) <= b.ttl + b.forever + b.failed
    <3> HIDE DEF a, b, cut, After
    <3> QED BY <1>8, <2>2
  <2>6. scope'[c] = Key /\ Cardinality(todo'[c]) = n /\ (pc'[c] # "probe" => todo'[c] = {})
    BY <1>1, <1>2, <1>6, <1>11, <2>3
  <2> HIDE DEF b, n, next
  <2> QED BY <2>4, <2>5, <2>6, <1>11 DEF Sampling, After
<1>14. Paging(c)' /\ Sweeping(c)' /\ Proving(c)' /\ Inspecting(c)'
  BY <1>1 DEF Paging, Lists, Sweeping, Proving, Inspecting
<1> QED BY <1>11, <1>12, <1>13, <1>14 DEF Local

\* One key of a sample is counted: what is counted grows by what was to be probed.
LEMMA OneMoreCounted ==
  ASSUME NEW S, NEW T, NEW k, S \subseteq Key, T \subseteq S \union {k}, k \in Key
  PROVE  /\ Cardinality(T) \in Nat /\ Cardinality(S) \in Nat
         /\ Cardinality(T) <= Cardinality(S) + 1
         /\ k \notin T => Cardinality(T) <= Cardinality(S)
<1>1. IsFiniteSet(S) /\ Cardinality(S) \in Nat /\ Cardinality(T) \in Nat
  BY SubsetOfKeys
<1>2. Cardinality(S \union {k}) \in Nat /\ Cardinality(S \union {k}) <= Cardinality(S) + 1
  <2>1. S \union {k} \subseteq Key
    OBVIOUS
  <2>2. Cardinality(S \union {k}) \in Nat
    BY <2>1, SubsetOfKeys
  <2> QED BY <1>1, <2>2, FS_AddElement
<1>3. Cardinality(T) <= Cardinality(S \union {k})
  <2>1. S \union {k} \subseteq Key
    OBVIOUS
  <2> QED BY <2>1, SmallerSet
<1>4. ASSUME k \notin T PROVE Cardinality(T) <= Cardinality(S)
  <2>1. T \subseteq S
    BY <1>4
  <2> QED BY <2>1, SmallerSet
<1> QED BY <1>1, <1>2, <1>3, <1>4

\* What a probe makes of the answer.
LEMMA ProbeCounts ==
  ASSUME NEW a \in Sample, NEW life \in Life, NEW b,
         a.sampled > 0, b = Counted(a, life) \/ b = [a EXCEPT !.failed = @ + 1]
  PROVE  /\ b \in Sample /\ b.cut = a.cut /\ b.sampled <= a.sampled
         /\ b.ttl + b.forever + b.failed - b.sampled = a.ttl + a.forever + a.failed - a.sampled + 1
         /\ a.ttl + a.forever + a.failed <= b.ttl + b.forever + b.failed
         /\ life # "absent" =>
              b.ttl + b.forever + b.failed = a.ttl + a.forever + a.failed + 1
<1>1. a.ttl \in Nat /\ a.forever \in Nat /\ a.failed \in Nat /\ a.sampled \in Nat
      /\ a.cut \in BOOLEAN
  BY DEF Sample
<1>2. CASE b = [a EXCEPT !.sampled = a.sampled - 1] /\ life = "absent"
  <2>1. a.sampled - 1 \in Nat
    BY <1>1
  <2>2. b \in Sample /\ b.ttl = a.ttl /\ b.forever = a.forever /\ b.failed = a.failed
        /\ b.sampled = a.sampled - 1 /\ b.cut = a.cut
    BY <1>2, <2>1 DEF Sample
  <2> QED BY <1>1, <1>2, <2>2
<1>3. CASE b = [a EXCEPT !.ttl = a.ttl + 1]
  <2>1. a.ttl + 1 \in Nat
    BY <1>1
  <2>2. b \in Sample /\ b.ttl = a.ttl + 1 /\ b.forever = a.forever /\ b.failed = a.failed
        /\ b.sampled = a.sampled /\ b.cut = a.cut
    BY <1>3, <2>1 DEF Sample
  <2>3. b.ttl + b.forever + b.failed = a.ttl + a.forever + a.failed + 1
    BY <1>1, <2>2
  <2> QED BY <1>1, <2>2, <2>3
<1>4. CASE b = [a EXCEPT !.forever = a.forever + 1]
  <2>1. a.forever + 1 \in Nat
    BY <1>1
  <2>2. b \in Sample /\ b.ttl = a.ttl /\ b.forever = a.forever + 1 /\ b.failed = a.failed
        /\ b.sampled = a.sampled /\ b.cut = a.cut
    BY <1>4, <2>1 DEF Sample
  <2>3. b.ttl + b.forever + b.failed = a.ttl + a.forever + a.failed + 1
    BY <1>1, <2>2
  <2> QED BY <1>1, <2>2, <2>3
<1>5. CASE b = [a EXCEPT !.failed = a.failed + 1]
  <2>1. a.failed + 1 \in Nat
    BY <1>1
  <2>2. b \in Sample /\ b.ttl = a.ttl /\ b.forever = a.forever /\ b.failed = a.failed + 1
        /\ b.sampled = a.sampled /\ b.cut = a.cut
    BY <1>5, <2>1 DEF Sample
  <2>3. b.ttl + b.forever + b.failed = a.ttl + a.forever + a.failed + 1
    BY <1>1, <2>2
  <2> QED BY <1>1, <2>2, <2>3
<1> QED BY <1>2, <1>3, <1>4, <1>5 DEF Counted

LEMMA ProbeKeeps ==
  ASSUME IInv, NEW c \in Caller, Probe(c)
  PROVE  Keeps(c)
<1>1. /\ pc[c] = "probe" /\ UNCHANGED <<db, op, scope, seen, ended, stood>>
      /\ Goto(c, IF todo'[c] # {} THEN "probe"
                 ELSE IF ended[c] \/ answer'[c].sampled >= Cap THEN "idle" ELSE "scan")
  BY DEF Probe
<1>2. PICK k \in todo[c] :
        /\ todo' = [todo EXCEPT ![c] = todo[c] \ {k}]
        /\ Note(c, Counted(answer[c], db[k]))
           \/ Note(c, [answer[c] EXCEPT !.failed = answer[c].failed + 1])
  BY Zenon DEF Probe
<1>3. op[c] = "sample" /\ Covered(c) /\ Standing(c)
  BY <1>1 DEF IInv, Local, OnPath, Takes
<1> DEFINE a == answer[c]
           next == IF todo'[c] # {} THEN "probe"
                   ELSE IF ended[c] \/ answer'[c].sampled >= Cap THEN "idle" ELSE "scan"
           Before == (stood[c] \intersect seen[c]) \ todo[c]
           After == (stood[c] \intersect seen[c]) \ (todo[c] \ {k})
<1>4. PICK b : Note(c, b) /\ (b = Counted(a, db[k]) \/ b = [a EXCEPT !.failed = a.failed + 1])
  BY <1>2, Zenon
<1>5. /\ a \in Sample /\ Cap \in Nat
      /\ a.ttl + a.forever + a.failed + Cardinality(todo[c]) = a.sampled
      /\ a.sampled <= Cap /\ scope[c] = Key
      /\ (~a.cut => Cardinality(Before) <= a.ttl + a.forever + a.failed)
  BY <1>1, <1>3, AnswerTypes, KeyspaceAssumption DEF IInv, Local, Sampling
<1>6. a.sampled \in Nat /\ a.ttl \in Nat /\ a.forever \in Nat /\ a.failed \in Nat
      /\ a.cut \in BOOLEAN
  <2> HIDE DEF a
  <2> QED BY <1>5 DEF Sample
<1>7. /\ k \in Key /\ db[k] \in Life /\ todo[c] \subseteq Key
      /\ Before \subseteq Key /\ After \subseteq Before \union {k}
      /\ (db[k] = "absent" => k \notin After)
  BY <1>1, <1>3, KeysOf DEF IInv, TypeOK, Standing, Present
<1>8. /\ Cardinality(todo[c]) \in Nat /\ Cardinality(todo[c]) > 0
      /\ Cardinality(todo[c] \ {k}) = Cardinality(todo[c]) - 1
  <2>1. IsFiniteSet(todo[c]) /\ Cardinality(todo[c]) \in Nat
    BY <1>7, SubsetOfKeys
  <2>2. Cardinality(todo[c] \ {k}) \in Nat
    <3>1. todo[c] \ {k} \subseteq Key
      BY <1>7
    <3> QED BY <3>1, SubsetOfKeys
  <2>3. Cardinality(todo[c] \ {k}) = Cardinality(todo[c]) - 1
    BY <2>1, FS_RemoveElement
  <2> QED BY <2>1, <2>2, <2>3
<1>9. /\ b \in Sample /\ b.cut = a.cut /\ b.sampled <= a.sampled
      /\ b.ttl + b.forever + b.failed - b.sampled = a.ttl + a.forever + a.failed - a.sampled + 1
      /\ a.ttl + a.forever + a.failed <= b.ttl + b.forever + b.failed
      /\ (db[k] # "absent" => b.ttl + b.forever + b.failed = a.ttl + a.forever + a.failed + 1)
  <2>1. a.sampled > 0
    BY <1>5, <1>6, <1>8
  <2> HIDE DEF a
  <2> QED BY <1>4, <1>5, <1>7, <2>1, ProbeCounts
<1>10. /\ todo' \in [Caller -> SUBSET Key] /\ todo'[c] = todo[c] \ {k}
       /\ \A d \in Caller \ {c} : todo'[d] = todo[d]
  <2>1. todo' = [todo EXCEPT ![c] = todo[c] \ {k}]
    BY <1>2, Zenon
  <2> QED BY <2>1, <1>7 DEF IInv, TypeOK
<1>11. next \in Commands
  BY DEF Commands
<1>12. TypeOK' /\ pc'[c] = next /\ answer'[c] = b /\ (Local(c)' => Keeps(c))
  <2>1. b \in AnswerOf(op[c]) /\ Goto(c, next) /\ Note(c, b)
    BY <1>1, <1>3, <1>4, <1>9 DEF AnswerOf, Lists
  <2>2. /\ seen' \in [Caller -> SUBSET Key] /\ ended' \in [Caller -> BOOLEAN]
        /\ \A d \in Caller \ {c} : seen'[d] = seen[d] /\ ended'[d] = ended[d]
    BY <1>1 DEF IInv, TypeOK
  <2>3. /\ db' \in [AllKeys -> Life] /\ stood' \in [Caller -> SUBSET AllKeys]
        /\ (\A d \in Caller : Shrinks(d)) /\ Spared
    BY <1>1, ReadShrinks DEF IInv, Local
  <2> HIDE DEF next
  <2> QED BY <2>1, <2>2, <2>3, <1>1, <1>10, <1>11, MoveKeeps
<1>13. OnPath(c)' /\ Standing(c)' /\ Covered(c)'
  BY <1>1, <1>3, <1>10, <1>12 DEF OnPath, Takes, Standing, Covered
<1>14. Sampling(c)'
  <2>1. /\ Cardinality(After) \in Nat /\ Cardinality(Before) \in Nat
        /\ Cardinality(After) <= Cardinality(Before) + 1
        /\ (db[k] = "absent" => Cardinality(After) <= Cardinality(Before))
    <3> HIDE DEF After, Before
    <3> QED BY <1>7, OneMoreCounted
  <2>2. b.ttl \in Nat /\ b.forever \in Nat /\ b.failed \in Nat /\ b.sampled \in Nat
    BY <1>9 DEF Sample
  <2>3. b.ttl + b.forever + b.failed + Cardinality(todo'[c]) = b.sampled /\ b.sampled <= Cap
    <3>1. Cardinality(todo'[c]) = Cardinality(todo[c]) - 1
      BY <1>8, <1>10
    <3>2. b.sampled <= Cap
      <4> HIDE DEF a
      <4> QED BY <1>5, <1>6, <1>9, <2>2
    <3> HIDE DEF a
    <3>3. a.ttl + a.forever + a.failed - a.sampled = 0 - Cardinality(todo[c])
      BY <1>5, <1>6, <1>8
    <3>4. b.ttl + b.forever + b.failed - b.sampled = 1 - Cardinality(todo[c])
      BY <1>6, <1>8, <1>9, <2>2, <3>3
    <3> QED BY <1>8, <2>2, <3>1, <3>2, <3>4
  <2>4. ~b.cut => Cardinality(After) <= b.ttl + b.forever + b.failed
    <3>1. ~b.cut => ~a.cut
      BY <1>9
    <3> HIDE DEF a, After, Before
    <3> QED BY <1>5, <1>6, <1>9, <2>1, <2>2, <3>1
  <2>5. (stood'[c] \intersect seen'[c]) \ todo'[c] = After
    BY <1>1, <1>10
  <2>6. scope'[c] = Key /\ (pc'[c] # "probe" => todo'[c] = {})
    BY <1>1, <1>5, <1>12
  <2> HIDE DEF After, next
  <2> QED BY <2>3, <2>4, <2>5, <2>6, <1>12 DEF Sampling
<1>15. Paging(c)' /\ Sweeping(c)' /\ Proving(c)' /\ Inspecting(c)'
  BY <1>1, <1>3 DEF Paging, Lists, Sweeping, Proving, Inspecting
<1> QED BY <1>12, <1>13, <1>14, <1>15 DEF Local

-----------------------------------------------------------------------------
(* Failures, and the commands of other requests *)

LEMMA FailKeeps ==
  ASSUME IInv, NEW c \in Caller, Fail(c)
  PROVE  Keeps(c)
<1> USE DEF IInv, TypeOK
<1>1. /\ pc[c] # "idle" /\ op' = [op EXCEPT ![c] = "none"] /\ pc' = [pc EXCEPT ![c] = "idle"]
      /\ answer' = [answer EXCEPT ![c] = No] /\ UNCHANGED <<scope, seen, todo, ended>>
  BY DEF Fail, Goto, Note
<1>2. /\ "absent" \in Life /\ "forever" \in Life /\ "ttl" \in Life
      /\ Demo \notin seen[c] /\ Demo \notin todo[c]
  BY KeysOf DEF Life
<1>3. /\ db' \in [AllKeys -> Life] /\ stood' \in [Caller -> SUBSET AllKeys]
      /\ (\A d \in Caller : Shrinks(d)) /\ Spared
  <2>1. CASE Store(seen[c], "absent")
    BY <1>2, <2>1, StoreShrinks DEF Local
  <2>2. CASE Store(todo[c], "absent")
    BY <1>2, <2>2, StoreShrinks DEF Local
  <2>3. CASE Store({Demo}, "forever")
    BY <1>2, <2>3, StoreShrinks DEF Local
  <2>4. CASE Store(scope[c], "ttl")
    BY <1>2, <2>4, StoreShrinks DEF Local
  <2>5. CASE UNCHANGED <<db, stood>>
    BY <2>5, ReadShrinks DEF Local
  <2> QED BY <2>1, <2>2, <2>3, <2>4, <2>5 DEF Fail, Ids
<1>4. No \in AnswerOf("none") /\ No \in Verdict /\ "idle" \in Commands
  BY EmptyAnswers DEF Commands
<1>5. /\ op' \in [Caller -> Ops \union {"none"}] /\ op'[c] = "none"
      /\ \A d \in Caller \ {c} : op'[d] = op[d]
  BY <1>1
<1>6. /\ pc' \in [Caller -> Commands] /\ pc'[c] = "idle"
      /\ \A d \in Caller \ {c} : pc'[d] = pc[d]
  BY <1>1, <1>4
<1>7. /\ answer' \in [Caller -> Page \union Sample \union Inspection \union Verdict]
      /\ answer'[c] = No /\ \A d \in Caller \ {c} : answer'[d] = answer[d]
  BY <1>1, <1>4
<1>8. \A d \in Caller : answer'[d] \in AnswerOf(op'[d])
  BY <1>4, <1>5, <1>7
<1>9. TypeOK'
  BY <1>1, <1>3, <1>5, <1>6, <1>7, <1>8
<1>10. \A d \in Caller \ {c} : Rests(d)
  BY <1>1, <1>5, <1>6, <1>7 DEF Rests
<1>11. OnPath(c)' /\ Standing(c)' /\ Covered(c)'
  BY <1>1, <1>3, <1>6 DEF OnPath, Standing, Covered, Local, Shrinks
<1>12. Paging(c)' /\ Sweeping(c)' /\ Proving(c)' /\ Sampling(c)' /\ Inspecting(c)'
  BY <1>5 DEF Paging, Lists, Sweeping, Proving, Sampling, Inspecting
<1> QED BY <1>3, <1>9, <1>10, <1>11, <1>12 DEF Keeps, Local

\* The commands of other requests: nobody's request moves.
LEMMA OthersKeep ==
  ASSUME IInv,
         \/ \E k \in Addressable : PersistKey(k) \/ ExpireKey(k) \/ DeleteKey(k)
         \/ \E k \in Key : Lapse(k)
         \/ \E k \in Key, life \in {"ttl", "forever"} : Write(k, life)
         \/ SeedForeignNamespace
  PROVE  IInv' /\ Spared
<1>1. UNCHANGED request /\ \E K \in SUBSET AllKeys, life \in Life :
        Store(K, life) /\ (life = "absent" => Demo \notin K)
  <2>1. Addressable = Key /\ "absent" \in Life /\ "ttl" \in Life /\ "forever" \in Life
        /\ (\A k \in Key : {k} \in SUBSET AllKeys /\ Demo \notin {k}) /\ {Demo} \in SUBSET AllKeys
    BY KeysOf DEF Addressable, AllKeys, Life
  <2>2. ASSUME NEW k \in Addressable, PersistKey(k) \/ ExpireKey(k) \/ DeleteKey(k)
        PROVE  UNCHANGED request /\ \E K \in SUBSET AllKeys, life \in Life :
                 Store(K, life) /\ (life = "absent" => Demo \notin K)
    BY <2>1, <2>2 DEF PersistKey, ExpireKey, DeleteKey
  <2>3. ASSUME NEW k \in Key, Lapse(k)
        PROVE  UNCHANGED request /\ \E K \in SUBSET AllKeys, life \in Life :
                 Store(K, life) /\ (life = "absent" => Demo \notin K)
    BY <2>1, <2>3 DEF Lapse
  <2>4. ASSUME NEW k \in Key, NEW life \in {"ttl", "forever"}, Write(k, life)
        PROVE  UNCHANGED request /\ \E K \in SUBSET AllKeys, l \in Life :
                 Store(K, l) /\ (l = "absent" => Demo \notin K)
    BY <2>1, <2>4 DEF Write
  <2>5. CASE SeedForeignNamespace
    BY <2>1, <2>5 DEF SeedForeignNamespace
  <2> QED BY <2>2, <2>3, <2>4, <2>5
<1>2. /\ db' \in [AllKeys -> Life] /\ stood' \in [Caller -> SUBSET AllKeys]
      /\ (\A d \in Caller : Shrinks(d)) /\ Spared
  BY <1>1, StoreShrinks DEF IInv, Local
<1>3. TypeOK'
  BY <1>1, <1>2 DEF IInv, TypeOK, request
<1>4. \A d \in Caller : Rests(d)
  BY <1>1 DEF Rests, request
<1>5. \A d \in Caller : Local(d)'
  BY <1>2, <1>4, BystanderKeeps DEF IInv
<1> QED BY <1>2, <1>3, <1>5 DEF IInv

-----------------------------------------------------------------------------
(* The invariant *)

LEMMA KeepsAll ==
  ASSUME IInv, NEW c \in Caller, Keeps(c)
  PROVE  IInv' /\ Spared
<1>1. \A d \in Caller \ {c} : Local(d)'
  BY BystanderKeeps DEF Keeps, IInv
<1> QED BY <1>1 DEF Keeps, IInv

LEMMA InvInit == Init => IInv
<1> SUFFICES ASSUME Init PROVE IInv
  OBVIOUS
<1> USE DEF Init
<1>1. No \in AnswerOf("none") /\ No \in Verdict /\ "idle" \in Commands /\ "absent" \in Life
  BY EmptyAnswers DEF Commands, Life
<1>2. ended \in [Caller -> BOOLEAN]
  <2>1. FALSE \in BOOLEAN
    BY Zenon
  <2> QED BY <2>1
<1>3. /\ db \in [AllKeys -> Life] /\ op \in [Caller -> Ops \union {"none"}]
      /\ pc \in [Caller -> Commands] /\ scope \in [Caller -> SUBSET Key]
      /\ seen \in [Caller -> SUBSET Key] /\ todo \in [Caller -> SUBSET Key]
      /\ stood \in [Caller -> SUBSET AllKeys]
  BY <1>1
<1>4. /\ answer \in [Caller -> Page \union Sample \union Inspection \union Verdict]
      /\ \A c \in Caller : answer[c] \in AnswerOf(op[c])
  BY <1>1
<1>5. TypeOK
  BY <1>2, <1>3, <1>4 DEF TypeOK
<1>6. ASSUME NEW c \in Caller PROVE Local(c)
  <2>1. OnPath(c) /\ Standing(c) /\ Covered(c)
    BY DEF OnPath, Standing, Covered
  <2>2. Paging(c) /\ Sweeping(c) /\ Proving(c) /\ Sampling(c) /\ Inspecting(c)
    BY DEF Paging, Lists, Sweeping, Proving, Sampling, Inspecting
  <2> QED BY <2>1, <2>2 DEF Local
<1> QED BY <1>5, <1>6 DEF IInv

\* A step is a caller's, or leaves every request alone.
LEMMA EachStep ==
  ASSUME IInv, [Next]_vars
  PROVE  \/ \E c \in Caller : Keeps(c) /\ (pc[c] = "idle" \/ Handle(c))
         \/ UNCHANGED request /\ IInv' /\ Spared
<1>1. ASSUME NEW c \in Caller,
             \/ ListKeys(c) \/ ClearTenant(c) \/ FlushNamespace(c) \/ ProveIsolation(c)
             \/ GetKeyspaceBreakdown(c) \/ InspectKey(c) \/ GetProduct(c)
      PROVE  Keeps(c) /\ pc[c] = "idle"
  <2>1. pc[c] = "idle"
    BY <1>1, Zenon DEF ListKeys, ClearTenant, FlushNamespace, ProveIsolation,
                       GetKeyspaceBreakdown, InspectKey, GetProduct, Begin
  <2> QED BY <2>1, <1>1, RequestKeeps
<1>2. ASSUME NEW c \in Caller, Handle(c) PROVE Keeps(c)
  BY <1>2, ScanPageKeeps, ListByKeysKeeps, ScanTenantKeeps, DelManyKeeps, ScanFlushKeeps,
     UnlinkKeeps, ExistsForeignKeeps, SeedForeignKeeps, VerifyForeignKeeps, ScanSampleKeeps,
     ProbeKeeps, InspectKeeps, ReadThroughKeeps, FailKeeps, Zenon DEF Handle
<1>3. CASE UNCHANGED vars
  <2>1. ASSUME NEW c \in Caller PROVE Local(c)'
    <3>1. Local(c) /\ UNCHANGED <<db, op, pc, scope, seen, todo, ended, answer, stood>>
      BY <1>3 DEF IInv, vars, request
    <3>2. OnPath(c)' /\ Standing(c)' /\ Covered(c)' /\ Paging(c)'
      BY <3>1 DEF Local, OnPath, Takes, Standing, Covered, Paging
    <3>3. Sweeping(c)' /\ Proving(c)' /\ Sampling(c)'
      BY <3>1 DEF Local, Sweeping, Proving, Sampling
    <3>4. Inspecting(c)'
      BY <3>1 DEF Local, Inspecting
    <3> QED BY <3>2, <3>3, <3>4 DEF Local
  <2>2. TypeOK'
    BY <1>3 DEF IInv, TypeOK, vars, request
  <2> QED BY <1>3, <2>1, <2>2 DEF IInv, vars, Spared
<1>4. CASE \/ \E k \in Addressable : PersistKey(k) \/ ExpireKey(k) \/ DeleteKey(k)
           \/ \E k \in Key : Lapse(k)
           \/ \E k \in Key, life \in {"ttl", "forever"} : Write(k, life)
           \/ SeedForeignNamespace
  <2>1. UNCHANGED request
    BY <1>4 DEF PersistKey, ExpireKey, DeleteKey, Lapse, Write, SeedForeignNamespace
  <2> QED BY <2>1, <1>4, OthersKeep
<1> QED BY <1>1, <1>2, <1>3, <1>4, Zenon DEF Next

LEMMA InvNext == IInv /\ [Next]_vars => IInv'
BY EachStep, KeepsAll, Zenon

LEMMA Invariant == Spec => []IInv
BY InvInit, InvNext, PTL DEF Spec

-----------------------------------------------------------------------------
(* Theorems *)

\* Type correctness: pages never exceed their size, and answers have the shape
\* their request asks for, whatever the order of the commands.
THEOREM TypeCorrect == Spec => []TypeOK
<1>1. IInv => TypeOK
  BY DEF IInv
<1> QED BY <1>1, Invariant, PTL

\* AdminService.listKeys: a listing that offers no cursor is complete for every
\* key that was there all the time, for any page size and any batches of SCAN.
THEOREM ListingCompleteHolds == Spec => []ListingComplete
<1>1. IInv => ListingComplete
  BY DEF IInv, Local, Paging, ListingComplete, Answered
<1> QED BY <1>1, Invariant, PTL

\* TenantsService.clearTenant, proveIsolation and the namespace flush: only keys
\* written after the request began are left, and the proof comes out, whoever flushes
\* and seeds meanwhile.
THEOREM SweepsComeOutHolds == Spec => []SweepsComeOut
<1>1. IInv => SweepLeavesOnlyNewer
  BY DEF IInv, Local, Sweeping, SweepLeavesOnlyNewer, Answered
<1>2. IInv => ProofHolds
  BY DEF IInv, Local, Proving, ProofHolds, Answered
<1> QED BY <1>1, <1>2, Invariant, PTL DEF SweepsComeOut

\* AdminService.inspectKey: a key that was there all the time is wholly found.
THEOREM InspectionWhole == Spec => []InspectWhole
<1>1. IInv => InspectWhole
  <2> SUFFICES ASSUME IInv, NEW c \in Caller, Answered(c), op[c] = "inspect",
                      scope[c] \subseteq stood[c]
               PROVE  /\ answer[c].found /\ answer[c].value /\ answer[c].ttl # "absent"
                      /\ answer[c].raw <=> TheKey(c) \in StringKey
    BY DEF InspectWhole
  <2>1. Inspecting(c) /\ pc[c] = "idle"
    BY DEF IInv, Local, Answered
  <2>2. PICK k \in Key : scope[c] = {k}
    BY <2>1 DEF Inspecting
  <2>3. scope[c] \subseteq StringKey <=> TheKey(c) \in StringKey
    BY <2>2, StringIsHeld
  <2> QED BY <2>1, <2>3 DEF Inspecting
<1> QED BY <1>1, Invariant, PTL

\* AdminService.getKeyspaceBreakdown: a sample is within its cap, counts what it
\* keeps, and misses no key that was there all the time unless a batch was cut.
THEOREM SampleExact == Spec => []SampleCounts
<1>1. ASSUME IInv PROVE SampleCounts
  <2> SUFFICES ASSUME NEW c \in Caller, op[c] = "sample"
               PROVE  LET a == answer[c]
                      IN  /\ a.ttl + a.forever + a.failed + Cardinality(todo[c]) = a.sampled
                          /\ a.sampled <= Cap
                          /\ Answered(c) /\ ended[c] /\ ~a.cut =>
                               Cardinality(stood[c] \intersect Key) <= a.ttl + a.forever + a.failed
    BY DEF SampleCounts
  <2>1. Sampling(c) /\ Covered(c) /\ seen[c] \subseteq Key
    BY <1>1 DEF IInv, Local, TypeOK
  <2>2. ASSUME Answered(c), ended[c]
        PROVE  stood[c] \intersect Key = (stood[c] \intersect seen[c]) \ todo[c]
    BY <2>1, <2>2 DEF Answered, Covered, Sampling
  <2> QED BY <2>1, <2>2 DEF Sampling
<1> QED BY <1>1, Invariant, PTL

\* TenantsService.clearTenant deletes keys of one tenant only; nothing in the API
\* removes another application's key.
THEOREM OthersSpared == Spec => SparesOthers
<1> DEFINE Others == /\ \A c \in Caller : pc[c] = "delMany" /\ pc'[c] # "delMany" =>
                          \E t \in Tenant : \A k \in Key \ Owned(t) : db'[k] = db[k]
                     /\ db[Demo] # "absent" => db'[Demo] # "absent"
<1>1. ASSUME IInv, [Next]_vars PROVE Others
  <2>1. Spared
    BY <1>1, EachStep, KeepsAll, Zenon
  <2>2. ASSUME NEW c \in Caller, pc[c] = "delMany", pc'[c] # "delMany"
        PROVE  \E t \in Tenant : \A k \in Key \ Owned(t) : db'[k] = db[k]
    <3>1. ~UNCHANGED request
      BY <2>2 DEF request
    <3>2. PICK d \in Caller : Keeps(d) /\ (pc[d] = "idle" \/ Handle(d))
      BY <1>1, <3>1, EachStep, Zenon
    <3>3. d = c
      BY <2>2, <3>2 DEF Keeps, Rests
    <3>4. Handle(c)
      BY <2>2, <3>2, <3>3
    <3>5. DelMany(c) \/ Fail(c)
      <4>1. pc[c] = "delMany"
        BY <2>2
      <4> QED BY <3>4, <4>1, Zenon DEF Handle, ScanPage, ListByKeys, ScanTenant, ScanFlush, Unlink,
             ExistsForeign, SeedForeign, VerifyForeign, ScanSample, Probe, Type, Value, Raw, Ttl,
             Get, Set
    <3>6. Store(seen[c], "absent") \/ UNCHANGED db
      BY <2>2, <3>5 DEF DelMany, Fail, Ids
    <3>7. op[c] = "clear" /\ Covered(c) /\ Sweeping(c)
      BY <1>1, <2>2 DEF IInv, Local, OnPath, Takes
    <3>8. PICK t \in Tenant : scope[c] = Owned(t)
      BY <3>7 DEF Sweeping
    <3>9. \A k \in Key \ Owned(t) : db'[k] = db[k]
      BY <3>6, <3>7, <3>8, KeysOf DEF Covered, Store
    <3> QED BY <3>9
  <2> QED BY <2>1, <2>2 DEF Spared
<1>2. Spec => [][Others]_vars
  BY <1>1, Invariant, PTL DEF Spec
<1> QED BY <1>2 DEF SparesOthers

-----------------------------------------------------------------------------
(* Explorer filters *)

\* What an answer to query q must be.
AnswerOK(q, l) == l.rows = Matching(Scanned(q), l.among)

Answers ==
  /\ \A q \in DOMAIN listed : AnswerOK(q, listed[q])
  /\ \A a \in asking : a.served => AnswerOK(a.query, a.answer)

FilterInv == FilterTypeOK /\ Answers

LEMMA FirstTwo ==
  ASSUME NEW S, NEW s \in Seq(S), Len(s) >= 2
  PROVE  SubSeq(s, 1, 2) = <<s[1], s[2]>>
<1> DEFINE u == SubSeq(s, 1, 2)
<1>1. u \in Seq(S) /\ Len(u) = 2 /\ u[1] = s[1] /\ u[2] = s[2]
  OBVIOUS
<1> HIDE DEF u
<1>2. u = <<u[1], u[2]>>
  BY <1>1
<1> QED BY <1>1, <1>2 DEF u
LEMMA FirstThree ==
  ASSUME NEW S, NEW s \in Seq(S), Len(s) >= 3
  PROVE  SubSeq(s, 1, 3) = <<s[1], s[2], s[3]>>
<1> DEFINE u == SubSeq(s, 1, 3)
<1>1. u \in Seq(S) /\ Len(u) = 3 /\ u[1] = s[1] /\ u[2] = s[2] /\ u[3] = s[3]
  OBVIOUS
<1> HIDE DEF u
<1>2. u = <<u[1], u[2], u[3]>>
  BY <1>1
<1> QED BY <1>1, <1>2 DEF u
\* Unless a tenant is set without a prefix, the API scans for what the page shows.
LEMMA SamePattern ==
  ASSUME NEW f \in Filter, f.tenant = Empty \/ f.prefix # Empty
  PROVE  Scanned(f) = ResolvedPattern(f)
<1>1. CASE f.tenant = Empty
  <2>1. <<>> \o OfPrefix(f) = OfPrefix(f)
    <3>1. OfPrefix(f) = <<>> \/ OfPrefix(f) = <<f.prefix>>
      BY DEF OfPrefix
    <3>2. <<>> \o <<>> = <<>> /\ <<>> \o <<f.prefix>> = <<f.prefix>>
      OBVIOUS
    <3> QED BY <3>1, <3>2
  <2> QED BY <1>1, <2>1 DEF Scanned, ResolvedPattern, OfTenant
<1>2. CASE f.tenant # Empty
  <2>1. f.prefix # Empty
    BY <1>2
  <2> QED BY <1>2, <2>1 DEF Scanned, ResolvedPattern, OfPrefix
<1> QED BY <1>1, <1>2

\* With a tenant, no prefix and no id it scans for a part of it.
LEMMA NarrowerPattern ==
  ASSUME NEW f \in Filter, f.tenant # Empty, f.prefix = Empty, f.pattern = Empty,
         NEW S \in SUBSET StoredKey
  PROVE  Matching(Scanned(f), S) \subseteq Matching(ResolvedPattern(f), S)
<1>1. PICK w, t, e, g : w = "tenant" /\ t = f.tenant /\ e = Empty /\ g = Glob
  OBVIOUS
<1>2. PICK T, a, b, z : T = {w, t, e, g} /\ a = <<w, t>> /\ b = <<e>> /\ z = <<g>>
  OBVIOUS
<1>3. a \in Seq(T) /\ b \in Seq(T) /\ z \in Seq(T) /\ <<>> \in Seq(T)
  BY <1>2
<1>4. /\ Len(a) = 2 /\ Len(b) = 1 /\ Len(z) = 1 /\ Len(<<>>) = 0
      /\ a[1] = w /\ a[2] = t /\ b[1] = e /\ z[1] = g
  BY <1>2
<1>5. PICK u, v : u = a \o b /\ v = a \o <<>>
  OBVIOUS
<1>6. u \in Seq(T) /\ Len(u) = 3 /\ u[1] = w /\ u[2] = t /\ u[3] = e
  <2>1. /\ u \in Seq(T) /\ Len(u) = Len(a) + Len(b)
        /\ \A i \in 1..Len(a) : u[i] = a[i]
        /\ \A i \in 1..Len(b) : u[Len(a) + i] = b[i]
    BY <1>3, <1>5, ConcatParts
  <2>2. u[1] = a[1] /\ u[2] = a[2] /\ u[2 + 1] = b[1]
    BY <1>4, <2>1
  <2> QED BY <1>4, <2>1, <2>2
<1>7. v \in Seq(T) /\ Len(v) = 2 /\ v[1] = w /\ v[2] = t
  <2>1. v = a
    BY <1>3, <1>5
  <2> QED BY <1>3, <1>4, <2>1
<1>8. PICK p, r : p = u \o z /\ r = v \o z
  OBVIOUS
<1>9. u \in Seq(T) /\ v \in Seq(T)
  BY <1>6, <1>7
<1>10. p \in Seq(T) /\ Len(p) = 4 /\ p[1] = w /\ p[2] = t /\ p[3] = e /\ p[4] = Glob
  <2>1. /\ p \in Seq(T) /\ Len(p) = Len(u) + Len(z)
        /\ \A i \in 1..Len(u) : p[i] = u[i]
        /\ \A i \in 1..Len(z) : p[Len(u) + i] = z[i]
    BY <1>3, <1>9, <1>8, ConcatParts
  <2>2. p[1] = u[1] /\ p[2] = u[2] /\ p[3] = u[3] /\ p[3 + 1] = z[1]
    BY <1>4, <1>6, <2>1
  <2> QED BY <1>1, <1>4, <1>6, <2>1, <2>2
<1>11. r \in Seq(T) /\ Len(r) = 3 /\ r[1] = w /\ r[2] = t /\ r[3] = Glob
  <2>1. /\ r \in Seq(T) /\ Len(r) = Len(v) + Len(z)
        /\ \A i \in 1..Len(v) : r[i] = v[i]
        /\ \A i \in 1..Len(z) : r[Len(v) + i] = z[i]
    BY <1>3, <1>9, <1>8, ConcatParts
  <2>2. r[1] = v[1] /\ r[2] = v[2] /\ r[2 + 1] = z[1]
    BY <1>4, <1>7, <2>1
  <2> QED BY <1>1, <1>4, <1>7, <2>1, <2>2
<1>12. SubSeq(p, 1, 3) = <<w, t, e>> /\ SubSeq(r, 1, 2) = <<w, t>>
  <2>0. p \in Seq(T) /\ Len(p) >= 3 /\ r \in Seq(T) /\ Len(r) >= 2
    BY <1>10, <1>11
  <2>1. SubSeq(p, 1, 3) = <<p[1], p[2], p[3]>>
    BY <2>0, FirstThree
  <2>2. SubSeq(r, 1, 2) = <<r[1], r[2]>>
    BY <2>0, FirstTwo
  <2> QED BY <2>1, <2>2, <1>10, <1>11
<1>13. ASSUME NEW k \in Matching(p, S) PROVE k \in Matching(r, S)
  <2>1. k \in S /\ Len(k) >= 4 /\ SubSeq(k, 1, 4 - 1) = SubSeq(p, 1, 4 - 1)
    BY <1>10 DEF Matching
  <2>2. k \in Seq(STRING)
    BY <2>1, FilterAssumption
  <2>3. SubSeq(k, 1, 3) = <<k[1], k[2], k[3]>> /\ Len(k) \in Nat /\ Len(k) >= 3 /\ Len(k) >= 2
    BY <2>1, <2>2, FirstThree
  <2>4. SubSeq(k, 1, 3) = <<w, t, e>>
    <3>1. 4 - 1 = 3
      OBVIOUS
    <3> QED BY <1>12, <2>1, <3>1
  <2>5. k[1] = w /\ k[2] = t
    BY <2>3, <2>4
  <2>6. SubSeq(k, 1, 2) = <<w, t>>
    BY <2>2, <2>3, <2>5, FirstTwo
  <2>7. SubSeq(k, 1, 3 - 1) = SubSeq(r, 1, 3 - 1)
    <3>1. 3 - 1 = 2
      OBVIOUS
    <3> QED BY <1>12, <2>6, <3>1
  <2> QED BY <1>11, <2>1, <2>3, <2>7 DEF Matching
<1>14. Scanned(f) = p /\ ResolvedPattern(f) = r
  <2>1. OfTenant(f) = a /\ OfPrefix(f) = <<>> /\ Tail1(f) = z
    BY <1>1, <1>2 DEF OfTenant, OfPrefix, Tail1
  <2> QED BY <1>1, <1>2, <1>5, <1>8, <2>1 DEF Scanned, ResolvedPattern
<1> QED BY <1>13, <1>14

LEMMA MatchingIn == ASSUME NEW p, NEW S PROVE Matching(p, S) \subseteq S
BY DEF Matching

\* So answers as they must be make rows as they must be.
LEMMA RowsFollow ==
  FilterInv => RowsMatchFilter
<1> SUFFICES ASSUME FilterInv, filter \in DOMAIN listed
             PROVE  LET all == Matching(ResolvedPattern(filter), listed[filter].among)
                    IN  IF filter.tenant = Empty \/ filter.prefix # Empty THEN listed[filter].rows = all
                        ELSE filter.pattern = Empty => listed[filter].rows \subseteq all
  BY DEF RowsMatchFilter, QueryKey
<1>1. filter \in Filter /\ listed[filter].among \in SUBSET StoredKey
  BY DEF FilterInv, FilterTypeOK, Listing
<1>2. listed[filter].rows = Matching(Scanned(filter), listed[filter].among)
  BY DEF FilterInv, Answers, AnswerOK
<1> QED BY <1>1, <1>2, SamePattern, NarrowerPattern

LEMMA FilterStart == FilterInit => FilterInv
<1> SUFFICES ASSUME FilterInit PROVE FilterInv
  OBVIOUS
<1>1. NoFilter \in Filter
  BY DEF NoFilter, Filter
<1>2. DOMAIN listed = {}
  BY DEF FilterInit
<1> QED BY <1>1, <1>2, FilterAssumption DEF FilterInit, FilterInv, FilterTypeOK, Answers

LEMMA SetFilterKeeps ==
  ASSUME FilterInv, NEW f \in Filter, SetFilter(f) PROVE FilterInv'
BY FilterAssumption DEF FilterInv, FilterTypeOK, Answers, AnswerOK, SetFilter

LEMMA AskKeeps ==
  ASSUME FilterInv, Ask PROVE FilterInv'
<1>1. NoListing \in Listing
  BY DEF NoListing, Listing
<1>2. filter \in Filter
  BY DEF FilterInv, FilterTypeOK
<1>3. [query |-> filter, served |-> FALSE, answer |-> NoListing]
        \in [query : Filter, served : BOOLEAN, answer : Listing]
  BY <1>1, <1>2
<1> DEFINE n == [query |-> filter, served |-> FALSE, answer |-> NoListing]
<1>4. asking' = asking \union {n} /\ ~n.served
  BY DEF Ask
<1> HIDE DEF n
<1> QED BY <1>3, <1>4 DEF FilterInv, FilterTypeOK, Answers, AnswerOK, Ask, n

LEMMA ServeKeysKeeps ==
  ASSUME FilterInv, NEW a, ServeKeys(a) PROVE FilterInv'
<1> DEFINE l == [rows |-> Matching(Scanned(a.query), stored), among |-> stored]
           n == [query |-> a.query, served |-> TRUE, answer |-> l]
<1>1. a \in asking /\ a \in [query : Filter, served : BOOLEAN, answer : Listing]
  BY DEF ServeKeys, FilterInv, FilterTypeOK
<1>2. [a EXCEPT !.served = TRUE, !.answer = l] = n
  <2>1. a = [query |-> a.query, served |-> a.served, answer |-> a.answer]
    BY <1>1
  <2> HIDE DEF l
  <2>2. PICK b : b = [a EXCEPT !.served = TRUE]
    OBVIOUS
  <2>3. b = [query |-> a.query, served |-> TRUE, answer |-> a.answer]
    BY <2>1, <2>2
  <2>4. [a EXCEPT !.served = TRUE, !.answer = l] = [b EXCEPT !.answer = l]
    BY <2>2
  <2>5. b \in [query : {a.query}, served : BOOLEAN, answer : {a.answer}]
    BY <2>3
  <2>6. [b EXCEPT !.answer = l] = [query |-> b.query, served |-> b.served, answer |-> l]
    BY <2>5
  <2> QED BY <2>3, <2>4, <2>6
<1>3. asking' = (asking \ {a}) \union {n}
  BY <1>2 DEF ServeKeys
<1>4. l \in Listing
  BY MatchingIn DEF Listing, FilterInv, FilterTypeOK
<1>5. n \in [query : Filter, served : BOOLEAN, answer : Listing]
  BY <1>1, <1>4
<1>6. AnswerOK(n.query, n.answer)
  BY DEF AnswerOK
<1>7. \A b \in asking' : b \in asking \/ b = n
  BY <1>3
<1> HIDE DEF n
<1>8. asking' \subseteq [query : Filter, served : BOOLEAN, answer : Listing]
  BY <1>5, <1>7 DEF FilterInv, FilterTypeOK
<1>9. \A b \in asking' : b.served => AnswerOK(b.query, b.answer)
  BY <1>6, <1>7 DEF FilterInv, Answers
<1>10. UNCHANGED <<filter, listed, stored, clicks, writes>>
  BY DEF ServeKeys
<1> QED BY <1>8, <1>9, <1>10 DEF FilterInv, FilterTypeOK, Answers, AnswerOK

LEMMA ShowKeysKeeps ==
  ASSUME FilterInv, NEW a, ShowKeys(a) PROVE FilterInv'
<1>1. a \in asking /\ a \in [query : Filter, served : BOOLEAN, answer : Listing]
      /\ asking' = asking \ {a} /\ UNCHANGED <<filter, stored, clicks, writes>>
  BY DEF ShowKeys, FilterInv, FilterTypeOK
<1>2. \/ listed' = [x \in DOMAIN listed \ {a.query} |-> listed[x]]
      \/ /\ a.served
         /\ listed' = [x \in DOMAIN listed \union {a.query} |-> IF x = a.query THEN a.answer ELSE listed[x]]
  BY DEF ShowKeys, QueryKey
<1>3. \A q \in DOMAIN listed' : \/ q \in DOMAIN listed /\ listed'[q] = listed[q]
                                \/ a.served /\ q = a.query /\ listed'[q] = a.answer
  BY <1>2
<1>4. ASSUME NEW q \in DOMAIN listed'
      PROVE  q \in Filter /\ listed'[q] \in Listing /\ AnswerOK(q, listed'[q])
  BY <1>1, <1>3 DEF FilterInv, FilterTypeOK, Answers
<1> QED BY <1>1, <1>4 DEF FilterInv, FilterTypeOK, Answers, AnswerOK

LEMMA WriteKeyKeeps ==
  ASSUME FilterInv, NEW k \in StoredKey, WriteKey(k) PROVE FilterInv'
BY FilterAssumption DEF FilterInv, FilterTypeOK, Answers, AnswerOK, WriteKey

LEMMA FilterKept == FilterInv /\ [FilterNext]_filterVars => FilterInv'
<1> SUFFICES ASSUME FilterInv, [FilterNext]_filterVars PROVE FilterInv'
  OBVIOUS
<1>0. filter \in Filter /\ NoFilter \in Filter
  BY DEF FilterInv, FilterTypeOK, NoFilter, Filter
<1>1. CASE UNCHANGED filterVars
  BY <1>1 DEF FilterInv, FilterTypeOK, Answers, AnswerOK, filterVars
<1>2. ASSUME NEW t \in TenantId, SwitchTenant(t) PROVE FilterInv'
  <2>1. [filter EXCEPT !.tenant = t] \in Filter
    BY <1>0 DEF Filter
  <2> QED BY <1>2, <2>1, SetFilterKeeps DEF SwitchTenant
<1>3. ASSUME NEW p \in PrefixText, ChangePrefix(p) PROVE FilterInv'
  <2>1. [filter EXCEPT !.prefix = IF p = filter.prefix THEN Empty ELSE p] \in Filter
    BY <1>0 DEF Filter
  <2> QED BY <1>3, <2>1, SetFilterKeeps DEF ChangePrefix
<1>4. ASSUME NEW p \in PrefixText, NEW id \in IdText \union {Empty}, FollowLink(p, id) PROVE FilterInv'
  <2>1. [NoFilter EXCEPT !.prefix = p, !.pattern = id] \in Filter
    BY DEF Filter, NoFilter
  <2> QED BY <1>4, <2>1, SetFilterKeeps DEF FollowLink
<1>5. ASSUME GoToType PROVE FilterInv'
  <2>1. [NoFilter EXCEPT !.type = "string"] \in Filter
    BY DEF Filter, NoFilter
  <2> QED BY <1>5, <2>1, SetFilterKeeps DEF GoToType
<1>6. ASSUME ToggleType PROVE FilterInv'
  <2>1. [filter EXCEPT !.type = IF @ = Empty THEN "string" ELSE Empty] \in Filter
    BY <1>0 DEF Filter
  <2> QED BY <1>6, <2>1, SetFilterKeeps DEF ToggleType
<1>7. ASSUME ToggleTtl PROVE FilterInv'
  <2>1. [filter EXCEPT !.hasTtl = ~@] \in Filter
    BY <1>0 DEF Filter
  <2> QED BY <1>7, <2>1, SetFilterKeeps DEF ToggleTtl
<1>8. ASSUME NEW s \in {"scan", "keys"}, ChooseStrategy(s) PROVE FilterInv'
  <2>1. [filter EXCEPT !.strategy = s] \in Filter
    BY <1>0 DEF Filter
  <2> QED BY <1>8, <2>1, SetFilterKeeps DEF ChooseStrategy
<1> QED BY <1>1, <1>2, <1>3, <1>4, <1>5, <1>6, <1>7, <1>8,
           AskKeeps, ServeKeysKeeps, ShowKeysKeeps, WriteKeyKeeps DEF FilterNext

\* See RowsMatchFilter, and the filter's ranges.
THEOREM RowsMatchHolds == FilterSpec => [](FilterTypeOK /\ RowsMatchFilter)
<1>1. FilterInv => FilterTypeOK /\ RowsMatchFilter
  BY RowsFollow DEF FilterInv
<1> QED BY <1>1, FilterStart, FilterKept, PTL DEF FilterSpec

-----------------------------------------------------------------------------
(* Rate sampler *)

\* The sums are of finitely many, so that they can be compared.
LookupFamily == [p \in DOMAIN counters |-> LookupsOf(counters[p])]

Tallied ==
  /\ IsFiniteSet(Units(LookupFamily)) /\ IsFiniteSet(Units(rates))
  /\ Lookups <= MaxOps

SamplerInv == SamplerTypeOK /\ Tallied /\ RatesAddUp

\* Over a window of at least a second, a rate is no more than what was counted.
LEMMA RateBounded ==
  ASSUME NEW o \in Nat, NEW w \in Nat \ {0}, NEW m \in Nat, m >= w
  PROVE  Rounded(o * w, m) \in 0..o
<1> DEFINE n == 2 * (o * w) + m
           d == 2 * m
           q == n \div d
<1>1. o * w \in Nat /\ o * m \in Nat /\ o * w <= o * m
  OBVIOUS
<1>2. n \in Nat /\ d \in Nat \ {0}
  BY <1>1
<1>3. n < 2 * (o * m) + d
  BY <1>1
<1>4. (o + 1) * d = 2 * (o * m) + d
  OBVIOUS
<1>5. Rounded(o * w, m) = q
  BY DEF Rounded
<1>6. q \in Nat /\ d * q <= n
  <2> HIDE DEF n, d
  <2> QED BY <1>2
<1>7. ~(q >= o + 1)
  <2> SUFFICES ASSUME q >= o + 1 PROVE FALSE
    OBVIOUS
  <2>1. d * q >= d * (o + 1)
    <3> HIDE DEF q, d, n
    <3> QED BY <1>2, <1>6
  <2>2. d * (o + 1) = (o + 1) * d
    <3> HIDE DEF q, d, n
    <3> QED BY <1>2
  <2> HIDE DEF q, n
  <2>3. d * q > n /\ d * q \in Nat
    <3>1. d * q \in Nat
      <4> HIDE DEF d
      <4> QED BY <1>2, <1>6
    <3> HIDE DEF d
    <3> QED BY <1>1, <1>2, <1>3, <1>4, <2>1, <2>2, <3>1
  <2> HIDE DEF d
  <2> QED BY <1>2, <1>6, <2>3
<1> HIDE DEF q
<1> QED BY <1>5, <1>6, <1>7

LEMMA SamplerStart == SamplerInit => SamplerInv
<1> SUFFICES ASSUME SamplerInit PROVE SamplerInv
  OBVIOUS
<1>1. DOMAIN counters = {} /\ counters \in [{} -> Counter]
  BY DEF SamplerInit
<1>2. IsFiniteSet(Units(LookupFamily)) /\ SumOf(LookupFamily) = 0
  BY <1>1, SumOfNothing DEF LookupFamily
<1>3. IsFiniteSet(Units(rates)) /\ SumOf(rates) = 0
  BY SumOfNothing DEF SamplerInit
<1>4. Lookups = 0
  BY <1>2 DEF Lookups, LookupFamily
<1>5. SamplerTypeOK
  BY <1>1, SamplerAssumption DEF SamplerInit, SamplerTypeOK
<1> QED BY <1>2, <1>3, <1>4, <1>5, SamplerAssumption DEF SamplerInv, Tallied, RatesAddUp, SamplerInit

LEMMA Families ==
  ASSUME SamplerInv
  PROVE  /\ LookupFamily \in [DOMAIN counters -> Nat]
         /\ rates \in [Reader -> Nat] /\ opCount \in Nat
         /\ Lookups = SumOf(LookupFamily) /\ Lookups \in Nat /\ SumOf(rates) \in Nat
<1>1. \A p \in DOMAIN counters : counters[p] \in Counter
  BY DEF SamplerInv, SamplerTypeOK
<1>2. \A p \in DOMAIN counters : LookupsOf(counters[p]) \in Nat
  BY <1>1, SamplerAssumption DEF Counter, LookupsOf
<1>3. Cardinality(Units(LookupFamily)) \in Nat /\ Cardinality(Units(rates)) \in Nat
  BY FS_CardinalityType DEF SamplerInv, Tallied
<1> QED BY <1>2, <1>3, SamplerAssumption DEF SamplerInv, SamplerTypeOK, LookupFamily, Lookups, SumOf

\* One more lookup of p.
LEMMA BumpKeeps ==
  ASSUME SamplerInv, NEW p \in Prefix, NEW field \in {"hits", "misses"}, Bump(p, field)
  PROVE  SamplerInv'
<1>0. /\ MaxOps \in Nat /\ Lookups < MaxOps /\ opCount' = opCount + 1
      /\ UNCHANGED <<windowStart, clock, rates, shown>>
      /\ counters' = [q \in DOMAIN counters \union {p} |->
                        IF q = p THEN [EntryOf(p) EXCEPT ![field] = @ + 1] ELSE counters[q]]
  BY SamplerAssumption DEF Bump
<1>1. PICK P \in SUBSET Prefix : counters \in [P -> Counter]
  BY DEF SamplerInv, SamplerTypeOK
<1>2. PICK g : g = LookupFamily'
  OBVIOUS
<1>3. PICK e : e = EntryOf(p)
  OBVIOUS
<1>4. e \in Counter /\ (p \in P => e = counters[p])
  BY <1>1, <1>3, SamplerAssumption DEF EntryOf, Counter
<1>5. LookupsOf(e) = (IF p \in P THEN LookupFamily[p] ELSE 0) /\ LookupsOf(e) \in Nat
  BY <1>1, <1>3, <1>4, SamplerAssumption DEF LookupFamily, LookupsOf, EntryOf, Counter
<1>6. LookupsOf(e) <= Lookups
  <2>1. CASE p \in P
    <3>1. LookupFamily[p] <= SumOf(LookupFamily)
      BY <1>1, <2>1, Families, SumBounds DEF SamplerInv, Tallied
    <3> QED BY <1>5, <2>1, <3>1, Families
  <2>2. CASE p \notin P
    BY <1>5, <2>2, Families
  <2> QED BY <2>1, <2>2
<1>7. PICK n : n = [e EXCEPT ![field] = @ + 1]
  OBVIOUS
<1>8. n \in Counter /\ LookupsOf(n) = LookupsOf(e) + 1 /\ LookupsOf(n) > 0
  <2>1. e.hits \in Nat /\ e.misses \in Nat /\ e.hits + e.misses < MaxOps
    BY <1>0, <1>4, <1>5, <1>6, Families DEF Counter, LookupsOf
  <2>2. e = [hits |-> e.hits, misses |-> e.misses]
    BY <1>4 DEF Counter
  <2>3. n = [hits |-> e.hits + 1, misses |-> e.misses] \/ n = [hits |-> e.hits, misses |-> e.misses + 1]
    BY <1>4, <1>7 DEF Counter
  <2> QED BY <1>0, <2>1, <2>3 DEF Counter, LookupsOf
<1>9. counters' \in [P \union {p} -> Counter] /\ counters'[p] = n
      /\ \A q \in P : q # p => counters'[q] = counters[q]
  BY <1>0, <1>1, <1>3, <1>7, <1>8
<1>10. /\ g \in [P \union {p} -> Nat] /\ g[p] = (IF p \in P THEN LookupFamily[p] ELSE 0) + 1
       /\ \A q \in P : q # p => g[q] = LookupFamily[q]
  <2>1. g = [q \in P \union {p} |-> LookupsOf(counters'[q])]
    BY <1>2, <1>9 DEF LookupFamily
  <2>2. \A q \in P : LookupFamily[q] = LookupsOf(counters[q]) /\ LookupFamily[q] \in Nat
    BY <1>1, Families DEF LookupFamily
  <2>3. \A q \in P \union {p} : LookupsOf(counters'[q]) \in Nat
    BY <1>5, <1>8, <1>9, <2>2
  <2> QED BY <1>5, <1>8, <1>9, <2>1, <2>2, <2>3
<1>11. IsFiniteSet(Units(g)) /\ SumOf(g) = SumOf(LookupFamily) + 1
  <2>1. LookupFamily \in [P -> Nat]
    BY <1>1, Families
  <2> QED BY <1>10, <2>1, SumGrows DEF SamplerInv, Tallied
<1>12. Lookups' = Lookups + 1
  BY <1>2, <1>11, Families DEF Lookups, LookupFamily
<1>13. Tallied' /\ RatesAddUp'
  <2>1. IsFiniteSet(Units(LookupFamily))'
    BY <1>2, <1>11
  <2> QED BY <1>0, <1>12, <2>1, Families DEF SamplerInv, Tallied, RatesAddUp
<1>14. SamplerTypeOK'
  <2>1. opCount' \in 0..MaxOps
    BY <1>0, Families DEF SamplerInv, RatesAddUp
  <2>2. \A q \in DOMAIN counters' : LookupsOf(counters'[q]) > 0
    BY <1>1, <1>8, <1>9 DEF SamplerInv, SamplerTypeOK
  <2>3. \E Q \in SUBSET Prefix : counters' \in [Q -> Counter]
    BY <1>9
  <2> QED BY <1>0, <2>1, <2>2, <2>3 DEF SamplerInv, SamplerTypeOK
<1> QED BY <1>13, <1>14 DEF SamplerInv

LEMMA SnapshotKeeps ==
  ASSUME SamplerInv, NEW r \in Reader, Snapshot(r)
  PROVE  SamplerInv'
<1>1. PICK n : n = RateNow
  OBVIOUS
<1>2. n \in 0..opCount
  <2> DEFINE m == Larger(Larger(clock - windowStart, 1), Window)
  <2>1. m \in Nat /\ m >= Window
    BY SamplerAssumption DEF Larger, SamplerInv, SamplerTypeOK
  <2>2. n = Rounded(opCount * Window, m)
    BY <1>1 DEF RateNow
  <2> HIDE DEF m
  <2> QED BY <2>1, <2>2, SamplerAssumption, Families, RateBounded
<1>3. /\ rates' = [rates EXCEPT ![r] = @ + n] /\ shown' = [shown EXCEPT ![r] = Lookups]
      /\ opCount' = 0 /\ windowStart' = clock /\ UNCHANGED <<counters, clock>>
  BY <1>1 DEF Snapshot
<1>4. PICK g : g = rates'
  OBVIOUS
<1>5. g \in [Reader \union {r} -> Nat] /\ g[r] = rates[r] + n /\ n \in Nat
      /\ \A x \in Reader : x # r => g[x] = rates[x]
  BY <1>2, <1>3, <1>4, Families
<1>6. IsFiniteSet(Units(g)) /\ SumOf(g) = SumOf(rates) + n
  BY <1>5, Families, SumGrows DEF SamplerInv, Tallied
<1>7. Lookups' = Lookups /\ LookupFamily' = LookupFamily
  BY <1>3 DEF Lookups, LookupFamily
<1>8. Tallied' /\ RatesAddUp'
  BY <1>2, <1>3, <1>4, <1>6, <1>7, Families DEF SamplerInv, Tallied, RatesAddUp
<1>9. Lookups \in 0..MaxOps
  BY Families, SamplerAssumption DEF SamplerInv, Tallied
<1>10. SamplerTypeOK'
  BY <1>3, <1>4, <1>5, <1>9, SamplerAssumption DEF SamplerInv, SamplerTypeOK
<1> QED BY <1>8, <1>10 DEF SamplerInv

LEMMA SamplerKept == SamplerInv /\ [SamplerNext]_samplerVars => SamplerInv'
<1> SUFFICES ASSUME SamplerInv, [SamplerNext]_samplerVars PROVE SamplerInv'
  OBVIOUS
<1>1. CASE UNCHANGED samplerVars
  BY <1>1 DEF SamplerInv, SamplerTypeOK, Tallied, RatesAddUp, Lookups, LookupFamily, samplerVars
<1>2. CASE ClockMoves
  BY <1>2 DEF SamplerInv, SamplerTypeOK, Tallied, RatesAddUp, Lookups, LookupFamily, ClockMoves
<1> QED BY <1>1, <1>2, BumpKeeps, SnapshotKeeps DEF SamplerNext, RecordHit, RecordMiss

\* See RatesAddUp, and the sampler's ranges.
THEOREM RatesAddUpHolds == SamplerSpec => [](SamplerTypeOK /\ RatesAddUp)
<1>1. SamplerInv => SamplerTypeOK /\ RatesAddUp
  BY DEF SamplerInv
<1> QED BY <1>1, SamplerStart, SamplerKept, PTL DEF SamplerSpec

-----------------------------------------------------------------------------
(* Overview series *)

\* From the earlier reading to the later one a counter grew by no more than there
\* was work between them.
Follows(later, earlier) ==
  earlier.at <= later.at /\ later.count <= earlier.count + (later.at - earlier.at)

NowHits  == [count |-> hits, at |-> work]
NowReads == [count |-> reads, at |-> work]

Charted(bs, field) == [i \in DOMAIN bs |-> bs[i][field]]

\* What is cached is not ahead of the counters, and an answer under way not behind it.
Cached ==
  /\ info # NoData => Follows(NowReads, info)
  /\ \A r \in Span : snaps[r] # NoData => Follows(NowHits, snaps[r])
  /\ \A r \in Span : \A i \in DOMAIN polls[r] : polls[r][i] # NoData =>
       /\ Follows(NowHits, polls[r][i])
       /\ snaps[r] # NoData => Follows(polls[r][i], snaps[r])

\* The count of a baseline was read when there had been work for all that is charted.
Backs(reading, count, now, since, total) ==
  /\ reading \in Reading /\ reading.count = count /\ Follows(now, reading)
  /\ since <= reading.at /\ total <= reading.at - since

Based ==
  /\ prev = NoPair <=> base = NoPair
  /\ prev = NoPair => buckets = <<>>
  /\ \A field \in {"hit", "get"} : IsFiniteSet(Units(Charted(buckets, field)))

HitsBacked ==
  prev # NoPair => \E x \in Reading :
    /\ Backs(x, prev.hits, NowHits, base.hits, Total("hit"))
    /\ \A r \in Span : range = r =>
         \A i \in DOMAIN polls[r] : polls[r][i] # NoData => Follows(polls[r][i], x)

ReadsBacked ==
  prev # NoPair /\ ~blind => \E x \in Reading :
    /\ Backs(x, prev.reads, NowReads, base.reads, Total("get"))
    /\ info # NoData => Follows(info, x)

SeriesInv == SeriesTypeOK /\ Cached /\ Based /\ HitsBacked /\ ReadsBacked

Gauge == [count : Int, at : Int]

LEMMA FollowsOn ==
  ASSUME NEW a \in Gauge, NEW b \in Gauge, NEW c \in Gauge, Follows(a, b), Follows(b, c)
  PROVE  Follows(a, c)
BY DEF Follows, Gauge

LEMMA ReadingTypes ==
  /\ Reading \subseteq Gauge /\ NoData \in Gauge /\ NoData \notin Reading
  /\ NoPair \notin Pair
BY SeriesAssumption DEF Reading, Gauge, NoData, Pair, NoPair

LEMMA NowTypes ==
  ASSUME SeriesTypeOK
  PROVE  NowHits \in Reading /\ NowReads \in Reading /\ work \in 0..MaxWork
BY SeriesAssumption DEF SeriesTypeOK, NowHits, NowReads, Reading

LEMMA TotalIs == ASSUME NEW field PROVE Total(field) = SumOf(Charted(buckets, field))
BY DEF Total, Charted

\* A chart that takes a bucket grows by it, or by less when it drops its oldest.
LEMMA ChartGrows ==
  ASSUME NEW bs \in Seq(Bucket), NEW bucket \in Bucket, NEW field \in {"hit", "get"},
         Len(bs) <= MaxBuckets, IsFiniteSet(Units(Charted(bs, field)))
  PROVE  LET cs == Trimmed(Append(bs, bucket))
         IN  /\ cs \in Seq(Bucket) /\ Len(cs) <= MaxBuckets
             /\ IsFiniteSet(Units(Charted(cs, field)))
             /\ SumOf(Charted(bs, field)) \in Nat
             /\ SumOf(Charted(cs, field)) <= SumOf(Charted(bs, field)) + bucket[field]
<1>1. \A x \in Bucket : x[field] \in Nat
  <2>1. CASE field = "hit"
    BY <2>1, SeriesAssumption DEF Bucket
  <2>2. CASE field = "get"
    BY <2>2, SeriesAssumption DEF Bucket
  <2> QED BY <2>1, <2>2
<1>2. PICK as, m : as = Append(bs, bucket) /\ m = Len(bs)
  OBVIOUS
<1>3. /\ m \in Nat /\ bs \in [1..m -> Bucket] /\ as \in Seq(Bucket) /\ Len(as) = m + 1
      /\ as[m + 1] = bucket /\ \A i \in 1..m : as[i] = bs[i]
  BY <1>2
<1>4. DOMAIN as = 1..m + 1 /\ \A i \in 1..m + 1 : as[i] \in Bucket
  <2>1. as \in Seq(Bucket)
    BY <1>3
  <2>2. DOMAIN as = 1..Len(as) /\ \A i \in 1..Len(as) : as[i] \in Bucket
    BY <2>1, LenProperties, ElementOfSeq
  <2> QED BY <1>3, <2>2
<1>5. 1..m + 1 = 1..m \union {m + 1} /\ m + 1 \notin 1..m
  BY <1>3
<1>6. PICK f, g, k : f = Charted(bs, field) /\ g = Charted(as, field) /\ k = bucket[field]
  OBVIOUS
<1>7. k \in Nat /\ f \in [1..m -> Nat] /\ g \in [1..m \union {m + 1} -> Nat]
      /\ g[m + 1] = k /\ (\A i \in 1..m : g[i] = f[i])
  <2>1. f = [i \in 1..m |-> bs[i][field]] /\ \A i \in 1..m : bs[i] \in Bucket
    BY <1>3, <1>6 DEF Charted
  <2>2. g = [i \in 1..m \union {m + 1} |-> as[i][field]]
    BY <1>4, <1>5, <1>6 DEF Charted
  <2>3. \A i \in 1..m \union {m + 1} : as[i] \in Bucket
    BY <1>4, <1>5
  <2> QED BY <1>1, <1>3, <1>6, <2>1, <2>2, <2>3
<1>8. IsFiniteSet(Units(g)) /\ SumOf(g) = SumOf(f) + k /\ SumOf(f) \in Nat
  <2>1. m \in Nat /\ f \in [1..m -> Nat] /\ g \in [1..m + 1 -> Nat]
    BY <1>3, <1>5, <1>7
  <2>2. (\A i \in 1..m : g[i] = f[i]) /\ IsFiniteSet(Units(f)) /\ g[m + 1] = k
    BY <1>6, <1>7
  <2> QED BY <2>1, <2>2, SumOfLonger
<1>9. PICK cs : cs = Trimmed(as)
  OBVIOUS
<1>10. CASE m + 1 > MaxBuckets
  <2>1. cs = Tail(as)
    BY <1>3, <1>9, <1>10 DEF Trimmed
  <2>2. cs \in Seq(Bucket) /\ Len(cs) = m /\ DOMAIN cs = 1..m /\ \A i \in 1..m : cs[i] = as[i + 1]
    <3>1. as \in Seq(Bucket) /\ as # <<>>
      <4>1. as \in Seq(Bucket) /\ Len(as) = m + 1
        BY <1>3
      <4>2. as # <<>>
        <5>1. m + 1 # 0
          BY <1>2
        <5>2. Len(<<>>) = 0
          OBVIOUS
        <5> QED BY <4>1, <5>1, <5>2
      <4> QED BY <4>1, <4>2
    <3>2. /\ cs \in Seq(Bucket) /\ Len(cs) = Len(as) - 1 /\ DOMAIN cs = 1..Len(as) - 1
          /\ \A i \in 1..Len(as) - 1 : cs[i] = as[i + 1]
      BY <2>1, <3>1, HeadTailProperties, LenProperties
    <3>3. Len(as) - 1 = m
      BY <1>3
    <3> QED BY <3>2, <3>3
  <2>3. PICK h : h = Charted(cs, field)
    OBVIOUS
  <2>4. h \in [1..m -> Nat] /\ (\A i \in 1..m : h[i] = g[i + 1]) /\ g \in [1..m + 1 -> Nat]
    <3>1. \A i \in 1..m : i + 1 \in 1..m + 1 /\ as[i + 1] \in Bucket
      <4>1. m \in Nat
        BY <1>3
      <4>2. \A i \in 1..m : i + 1 \in 1..m + 1
        BY <4>1
      <4> QED BY <1>4, <4>2
    <3>2. h = [i \in 1..m |-> cs[i][field]]
      BY <2>2, <2>3 DEF Charted
    <3>3. \A i \in 1..m : g[i + 1] = as[i + 1][field]
      BY <1>4, <1>6, <3>1 DEF Charted
    <3> QED BY <1>1, <1>5, <1>7, <2>2, <3>1, <3>2, <3>3
  <2>5. IsFiniteSet(Units(h)) /\ SumOf(h) <= SumOf(g) /\ SumOf(g) \in Nat
    BY <1>3, <1>8, <2>4, SumOfTail
  <2>6. SumOf(h) \in Nat
    BY <2>5, FS_CardinalityType DEF SumOf
  <2> QED BY <1>2, <1>6, <1>7, <1>8, <1>9, <2>2, <2>3, <2>5, <2>6, <1>10, <1>3
<1>11. CASE m + 1 <= MaxBuckets
  <2>1. cs = as
    <3>1. Len(as) = m + 1 /\ m \in Nat
      BY <1>3
    <3>2. ~(Len(as) > MaxBuckets)
      BY <1>11, <3>1, SeriesAssumption
    <3> QED BY <1>9, <3>2 DEF Trimmed
  <2> QED BY <1>2, <1>3, <1>6, <1>7, <1>8, <1>9, <1>11, <2>1
<1> QED BY <1>3, <1>10, <1>11, SeriesAssumption

\* What was backed by one reading is, with what a later one adds, backed by that.
LEMMA BackedOn ==
  ASSUME NEW x \in Reading, NEW y \in Reading, NEW now \in Gauge,
         NEW since \in Int, NEW total \in Int, NEW sum \in Int,
         Backs(x, x.count, now, since, total), Follows(y, x), Follows(now, y),
         sum <= total + Growth(y.count, x.count)
  PROVE  Backs(y, y.count, now, since, sum)
<1>1. x.at \in Int /\ x.count \in Int /\ y.at \in Int /\ y.count \in Int
  BY SeriesAssumption DEF Reading
<1>2. Growth(y.count, x.count) <= y.at - x.at
  BY <1>1 DEF Growth, Follows
<1>3. Growth(y.count, x.count) \in Int
  BY <1>1 DEF Growth
<1> QED BY <1>1, <1>2, <1>3 DEF Backs, Follows

\* The chart that a tick leaves is backed by the snapshot it ticked on, and by INFO.
LEMMA TickBacks ==
  ASSUME SeriesTypeOK, Cached,
         NEW p \in Pair \union {NoPair}, NEW bs \in Seq(Bucket), Len(bs) <= MaxBuckets,
         NEW b \in Pair \union {NoPair}, NEW bl \in BOOLEAN, NEW snap \in Reading,
         p = NoPair <=> b = NoPair, p = NoPair => bs = <<>>,
         \A field \in {"hit", "get"} : IsFiniteSet(Units(Charted(bs, field))),
         Follows(NowHits, snap),
         p # NoPair => \E x \in Reading :
           Backs(x, p.hits, NowHits, b.hits, SumOf(Charted(bs, "hit"))) /\ Follows(snap, x),
         p # NoPair /\ ~bl /\ info # NoData => \E x \in Reading :
           Backs(x, p.reads, NowReads, b.reads, SumOf(Charted(bs, "get"))) /\ Follows(info, x),
         TickWith(p, bs, b, bl, snap)
  PROVE  /\ prev' \in Pair /\ base' \in Pair /\ blind' \in BOOLEAN
         /\ buckets' \in Seq(Bucket) /\ Len(buckets') <= MaxBuckets
         /\ \A field \in {"hit", "get"} : IsFiniteSet(Units(Charted(buckets', field)))
         /\ Backs(snap, prev'.hits, NowHits, base'.hits, SumOf(Charted(buckets', "hit")))
         /\ ~blind' => /\ info \in Reading
                       /\ Backs(info, prev'.reads, NowReads, base'.reads, SumOf(Charted(buckets', "get")))
<1> DEFINE next == [hits |-> snap.count, reads |-> CallsOf(info)]
           first == [hits |-> snap.at, reads |-> AtOf(info)]
           bucket == [hit |-> Growth(next.hits, p.hits), get |-> Growth(next.reads, p.reads)]
<1>1. /\ prev' = next /\ base' = (IF b = NoPair THEN first ELSE b)
      /\ blind' = (bl \/ info = NoData)
      /\ buckets' = (IF p = NoPair THEN bs ELSE Trimmed(Append(bs, bucket)))
  BY DEF TickWith
<1>2. /\ MaxWork \in Nat /\ snap.count \in 0..MaxWork /\ snap.at \in 0..MaxWork
      /\ CallsOf(info) \in 0..MaxWork /\ AtOf(info) \in 0..MaxWork
      /\ info # NoData => info \in Reading
  BY SeriesAssumption DEF SeriesTypeOK, Reading, CallsOf, AtOf
<1>3. next \in Pair /\ first \in Pair /\ NoPair \notin Pair
  BY <1>2, ReadingTypes DEF Pair
<1>4. info # NoData => /\ CallsOf(info) = info.count /\ AtOf(info) = info.at
                       /\ Follows(NowReads, info)
  BY DEF CallsOf, AtOf, Cached
<1>5. blind' \in BOOLEAN /\ (~blind' => ~bl /\ info # NoData)
  BY <1>1
<1>6. NowHits \in Gauge /\ NowReads \in Gauge /\ snap \in Gauge
      /\ (info # NoData => info \in Gauge)
  BY <1>2, NowTypes, ReadingTypes
<1>7. CASE p = NoPair
  <2>1. /\ prev' = next /\ base' = first /\ buckets' = <<>>
        /\ next.hits = snap.count /\ first.hits = snap.at
        /\ next.reads = CallsOf(info) /\ first.reads = AtOf(info)
    BY <1>1, <1>7
  <2>2. bs = <<>>
    BY <1>7
  <2>3. \A field \in {"hit", "get"} : SumOf(Charted(<<>>, field)) = 0
    <3>1. \A field : DOMAIN Charted(<<>>, field) = {}
      BY DEF Charted
    <3> QED BY <3>1, SumOfNothing
  <2>4. Backs(snap, snap.count, NowHits, snap.at, 0)
    BY <1>2 DEF Backs
  <2>5. info # NoData => Backs(info, info.count, NowReads, info.at, 0)
    <3> SUFFICES ASSUME info # NoData PROVE Backs(info, info.count, NowReads, info.at, 0)
      OBVIOUS
    <3>1. info.at \in 0..MaxWork /\ info \in Reading
      BY <1>2, <1>4
    <3> QED BY <1>4, <3>1, <1>2 DEF Backs
  <2>6. buckets' = bs
    BY <2>1, <2>2
  <2>7. /\ buckets' \in Seq(Bucket) /\ Len(buckets') <= MaxBuckets
        /\ \A field \in {"hit", "get"} : IsFiniteSet(Units(Charted(buckets', field)))
    BY <2>6
  <2>8. Backs(snap, prev'.hits, NowHits, base'.hits, SumOf(Charted(buckets', "hit")))
    <3>1. SumOf(Charted(buckets', "hit")) = 0
      BY <2>1, <2>3
    <3> HIDE DEF next, first
    <3> QED BY <2>1, <2>4, <3>1
  <2>9. info # NoData =>
          Backs(info, prev'.reads, NowReads, base'.reads, SumOf(Charted(buckets', "get")))
    <3>1. SumOf(Charted(buckets', "get")) = 0
      BY <2>1, <2>3
    <3> HIDE DEF next, first
    <3> QED BY <1>4, <2>1, <2>5, <3>1
  <2> HIDE DEF next, first, bucket
  <2> QED BY <1>2, <1>3, <1>5, <2>1, <2>7, <2>8, <2>9
<1>8. CASE p # NoPair
  <2>1. p \in Pair /\ b \in Pair /\ prev' = next /\ base' = b
        /\ buckets' = Trimmed(Append(bs, bucket))
    BY <1>1, <1>8
  <2>2. /\ p.hits \in 0..MaxWork /\ p.reads \in 0..MaxWork
        /\ b.hits \in Int /\ b.reads \in Int
        /\ next.hits = snap.count /\ next.reads = CallsOf(info)
    BY <1>2, <2>1 DEF Pair
  <2>3. bucket \in Bucket
    BY <1>2, <2>2 DEF Bucket, Growth
  <2>4. bucket["hit"] = Growth(snap.count, p.hits)
        /\ bucket["get"] = Growth(CallsOf(info), p.reads)
    OBVIOUS
  <2> HIDE DEF bucket, next
  <2>5. ASSUME NEW field \in {"hit", "get"}
        PROVE  /\ buckets' \in Seq(Bucket) /\ Len(buckets') <= MaxBuckets
               /\ IsFiniteSet(Units(Charted(buckets', field)))
               /\ SumOf(Charted(bs, field)) \in Nat /\ SumOf(Charted(buckets', field)) \in Nat
               /\ SumOf(Charted(buckets', field)) <= SumOf(Charted(bs, field)) + bucket[field]
    <3>1. /\ buckets' \in Seq(Bucket) /\ Len(buckets') <= MaxBuckets
          /\ IsFiniteSet(Units(Charted(buckets', field)))
          /\ SumOf(Charted(bs, field)) \in Nat
          /\ SumOf(Charted(buckets', field)) <= SumOf(Charted(bs, field)) + bucket[field]
      BY <2>1, <2>3, ChartGrows
    <3>2. SumOf(Charted(buckets', field)) \in Nat
      BY <3>1, FS_CardinalityType DEF SumOf
    <3> QED BY <3>1, <3>2
  <2>6. PICK sum, total : sum = SumOf(Charted(buckets', "hit")) /\ total = SumOf(Charted(bs, "hit"))
    OBVIOUS
  <2>7. Backs(snap, snap.count, NowHits, b.hits, sum)
    <3>1. PICK x \in Reading :
            Backs(x, p.hits, NowHits, b.hits, total) /\ Follows(snap, x)
      BY <1>8, <2>6
    <3>2. p.hits = x.count
      BY <3>1 DEF Backs
    <3>3. sum \in Int /\ total \in Int /\ sum <= total + Growth(snap.count, x.count)
      BY <2>4, <2>5, <2>6, <3>2
    <3> QED BY <1>6, <2>2, <3>1, <3>2, <3>3, BackedOn
  <2>8. PICK calls, sofar : calls = SumOf(Charted(buckets', "get")) /\ sofar = SumOf(Charted(bs, "get"))
    OBVIOUS
  <2>9. ASSUME ~bl, info # NoData
        PROVE  Backs(info, info.count, NowReads, b.reads, calls)
    <3>1. PICK x \in Reading :
            Backs(x, p.reads, NowReads, b.reads, sofar) /\ Follows(info, x)
      BY <1>8, <2>8, <2>9
    <3>2. p.reads = x.count /\ CallsOf(info) = info.count /\ info \in Reading
      BY <1>2, <1>4, <2>9, <3>1 DEF Backs
    <3>3. calls \in Int /\ sofar \in Int /\ calls <= sofar + Growth(info.count, x.count)
      BY <2>4, <2>5, <2>8, <3>2
    <3> QED BY <1>4, <1>6, <2>2, <2>9, <3>1, <3>2, <3>3, BackedOn
  <2>10. prev'.hits = snap.count /\ prev'.reads = CallsOf(info) /\ prev' \in Pair /\ base' = b
    BY <1>3, <2>1, <2>2
  <2>11. ~blind' => /\ info \in Reading
                    /\ Backs(info, prev'.reads, NowReads, base'.reads, calls)
    BY <1>2, <1>4, <1>5, <2>9, <2>10
  <2> QED BY <1>5, <2>1, <2>5, <2>6, <2>7, <2>8, <2>10, <2>11
<1> QED BY <1>7, <1>8

LEMMA SeriesStart == SeriesInit => SeriesInv
<1> SUFFICES ASSUME SeriesInit PROVE SeriesInv
  OBVIOUS
<1>1. \A field \in {"hit", "get"} : IsFiniteSet(Units(Charted(buckets, field)))
  <2>1. \A field : DOMAIN Charted(buckets, field) = {}
    BY DEF Charted, SeriesInit
  <2> QED BY <2>1, SumOfNothing
<1>2. SeriesTypeOK
  <2>1. /\ <<>> \in Seq(Reading \union {NoData}) /\ <<>> \in Seq(Bucket) /\ Len(<<>>) = 0
        /\ 0 <= 1 /\ 0 <= MaxBuckets
    BY SeriesAssumption
  <2>2. polls \in [Span -> Seq(Reading \union {NoData})] /\ \A r \in Span : Len(polls[r]) <= 1
    BY <2>1 DEF SeriesInit
  <2>3. buckets \in Seq(Bucket) /\ Len(buckets) <= MaxBuckets
    BY <2>1 DEF SeriesInit
  <2>4. /\ work \in 0..MaxWork /\ hits \in 0..work /\ reads \in 0..work
        /\ restarts \in 0..MaxRestarts /\ blind \in BOOLEAN
    <3>1. work = 0 /\ hits = 0 /\ reads = 0 /\ restarts = 0 /\ blind = FALSE
      BY DEF SeriesInit
    <3>2. 0 \in 0..MaxWork /\ 0 \in 0..0 /\ 0 \in 0..MaxRestarts
      BY SeriesAssumption
    <3> QED BY <3>1, <3>2
  <2>5. /\ snaps \in [Span -> Reading \union {NoData}] /\ info \in Reading \union {NoData}
        /\ range \in Span \union {"none"}
        /\ prev \in Pair \union {NoPair} /\ base \in Pair \union {NoPair}
    BY DEF SeriesInit
  <2> QED BY <2>2, <2>3, <2>4, <2>5 DEF SeriesTypeOK
<1>3. Cached
  BY DEF Cached, SeriesInit
<1> QED BY <1>1, <1>2, <1>3 DEF SeriesInit, SeriesInv, Based, HitsBacked, ReadsBacked

\* Backing lasts while the counters run on, restarts included.
LEMMA BacksOn ==
  ASSUME NEW x, NEW count, NEW now \in Gauge, NEW then \in Gauge, NEW since, NEW total,
         Backs(x, count, now, since, total), Follows(then, now)
  PROVE  Backs(x, count, then, since, total)
BY FollowsOn, ReadingTypes DEF Backs

LEMMA CountersRun ==
  ASSUME SeriesInv, SeriesTypeOK', UNCHANGED <<queries, range, series>>,
         Follows(NowHits', NowHits), Follows(NowReads', NowReads)
  PROVE  SeriesInv'
<1>0. UNCHANGED <<snaps, polls, info, range, prev, buckets, base, blind>>
  BY DEF queries, series
<1>1. SeriesTypeOK /\ Cached /\ Based /\ HitsBacked /\ ReadsBacked
  BY DEF SeriesInv
<1>2. PICK h, r : h = NowHits' /\ r = NowReads'
  OBVIOUS
<1>3. h \in Gauge /\ r \in Gauge /\ NowHits \in Gauge /\ NowReads \in Gauge
  BY <1>1, <1>2, NowTypes, ReadingTypes DEF SeriesTypeOK, NowHits, NowReads, Gauge
<1>4. Follows(h, NowHits) /\ Follows(r, NowReads)
  BY <1>2
<1>5. Cached'
  <2>1. info # NoData => Follows(r, info)
    <3> SUFFICES ASSUME info # NoData PROVE Follows(r, info)
      OBVIOUS
    <3>1. info \in Gauge /\ Follows(NowReads, info)
      BY <1>1, ReadingTypes DEF SeriesTypeOK, Cached
    <3> QED BY <1>3, <1>4, <3>1, FollowsOn
  <2>2. ASSUME NEW s \in Span, snaps[s] # NoData PROVE Follows(h, snaps[s])
    <3>1. snaps[s] \in Gauge /\ Follows(NowHits, snaps[s])
      BY <1>1, <2>2, ReadingTypes DEF SeriesTypeOK, Cached
    <3> QED BY <1>3, <1>4, <3>1, FollowsOn
  <2>3. ASSUME NEW s \in Span, NEW i \in DOMAIN polls[s], polls[s][i] # NoData
        PROVE  Follows(h, polls[s][i])
    <3>0. polls[s] \in Seq(Reading \union {NoData})
      BY <1>1 DEF SeriesTypeOK
    <3>1. polls[s][i] \in Reading \union {NoData}
      BY <3>0, LenProperties, ElementOfSeq
    <3>2. polls[s][i] \in Gauge /\ Follows(NowHits, polls[s][i])
      BY <1>1, <2>3, <3>1, ReadingTypes DEF Cached
    <3> QED BY <1>3, <1>4, <3>2, FollowsOn
  <2> QED BY <1>0, <1>1, <1>2, <2>1, <2>2, <2>3 DEF Cached
<1>6. Based'
  BY <1>0, <1>1 DEF Based
<1>7. HitsBacked'
  <2> SUFFICES ASSUME prev # NoPair
               PROVE  \E x \in Reading :
                        /\ Backs(x, prev.hits, h, base.hits, Total("hit"))
                        /\ \A s \in Span : range = s =>
                             \A i \in DOMAIN polls[s] : polls[s][i] # NoData => Follows(polls[s][i], x)
    BY <1>0, <1>2 DEF HitsBacked, Total
  <2>1. PICK x \in Reading :
          /\ Backs(x, prev.hits, NowHits, base.hits, Total("hit"))
          /\ \A s \in Span : range = s =>
               \A i \in DOMAIN polls[s] : polls[s][i] # NoData => Follows(polls[s][i], x)
    BY <1>1 DEF HitsBacked
  <2>2. Backs(x, prev.hits, h, base.hits, Total("hit"))
    BY <1>3, <1>4, <2>1, BacksOn
  <2> QED BY <2>1, <2>2
<1>8. ReadsBacked'
  <2> SUFFICES ASSUME prev # NoPair, ~blind
               PROVE  \E x \in Reading :
                        /\ Backs(x, prev.reads, r, base.reads, Total("get"))
                        /\ info # NoData => Follows(info, x)
    BY <1>0, <1>2 DEF ReadsBacked, Total
  <2>1. PICK x \in Reading :
          /\ Backs(x, prev.reads, NowReads, base.reads, Total("get"))
          /\ info # NoData => Follows(info, x)
    BY <1>1 DEF ReadsBacked
  <2>2. Backs(x, prev.reads, r, base.reads, Total("get"))
    BY <1>3, <1>4, <2>1, BacksOn
  <2> QED BY <2>1, <2>2
<1> QED BY <1>5, <1>6, <1>7, <1>8 DEF SeriesInv

LEMMA CountersKeep ==
  ASSUME SeriesInv, Lookup \/ RestartApi \/ RestartRedis
  PROVE  SeriesInv'
<1>1. SeriesTypeOK
  BY DEF SeriesInv
<1>2. UNCHANGED <<queries, range, series>>
  BY DEF Lookup, RestartApi, RestartRedis
<1>3. SeriesTypeOK'
  BY <1>1, SeriesAssumption DEF SeriesTypeOK, Lookup, RestartApi, RestartRedis, queries, series
<1>4. Follows(NowHits', NowHits) /\ Follows(NowReads', NowReads)
  BY <1>1, SeriesAssumption
     DEF SeriesTypeOK, Lookup, RestartApi, RestartRedis, Follows, NowHits, NowReads
<1> QED BY <1>2, <1>3, <1>4, CountersRun

\* A series that begins again claims nothing, whatever is cached.
LEMMA CleanSlate ==
  ASSUME SeriesInv, UNCHANGED <<sources, queries>>, range' \in Span \union {"none"},
         prev' = NoPair, buckets' = <<>>, base' = NoPair, blind' = FALSE
  PROVE  SeriesInv'
<1>1. SeriesTypeOK /\ Cached
  BY DEF SeriesInv
<1>2. \A field \in {"hit", "get"} : IsFiniteSet(Units(Charted(buckets', field)))
  <2>1. \A field : DOMAIN Charted(buckets', field) = {}
    BY DEF Charted
  <2> QED BY <2>1, SumOfNothing
<1>3. SeriesTypeOK'
  <2>1. buckets' \in Seq(Bucket) /\ Len(buckets') <= MaxBuckets
    <3>1. <<>> \in Seq(Bucket) /\ Len(<<>>) = 0 /\ 0 <= MaxBuckets
      BY SeriesAssumption
    <3> QED BY <3>1
  <2> QED BY <1>1, <2>1 DEF SeriesTypeOK, sources, queries
<1>4. Cached'
  BY <1>1 DEF Cached, sources, queries, NowHits, NowReads
<1> QED BY <1>2, <1>3, <1>4 DEF SeriesInv, Based, HitsBacked, ReadsBacked

\* Polls and the answers of INFO.
LEMMA ServeMetricsKeeps ==
  ASSUME SeriesInv, NEW r \in Span, ServeMetrics(r) PROVE SeriesInv'
<1>1. SeriesTypeOK /\ Cached /\ Based /\ HitsBacked /\ ReadsBacked
  BY DEF SeriesInv
<1>2. PICK reply \in {NowHits, NoData} : polls' = [polls EXCEPT ![r] = <<reply>>]
  BY DEF ServeMetrics, NowHits
<1>3. UNCHANGED <<hits, reads, work, restarts, snaps, info, range, prev, buckets, base, blind>>
  BY DEF ServeMetrics, sources, series
<1>4. reply \in Reading \union {NoData}
  BY <1>1, <1>2, NowTypes
<1>5. polls' \in [Span -> Seq(Reading \union {NoData})] /\ polls'[r] = <<reply>>
      /\ \A s \in Span : s # r => polls'[s] = polls[s]
  <2>1. <<reply>> \in Seq(Reading \union {NoData})
    BY <1>4
  <2> QED BY <1>1, <1>2, <2>1 DEF SeriesTypeOK
<1>6. \A i \in DOMAIN polls'[r] : polls'[r][i] = reply
  BY <1>5
<1>7. SeriesTypeOK'
  <2>1. \A s \in Span : Len(polls'[s]) <= 1
    <3>1. Len(<<reply>>) <= 1
      OBVIOUS
    <3>2. \A s \in Span : Len(polls[s]) <= 1
      BY <1>1 DEF SeriesTypeOK
    <3> QED BY <1>5, <3>1, <3>2
  <2> QED BY <1>1, <1>3, <1>5, <2>1 DEF SeriesTypeOK
<1>8. Follows(NowHits, NowHits)
  BY <1>1 DEF Follows, NowHits, SeriesTypeOK
<1>9. Cached'
  <2>1. ASSUME NEW s \in Span, NEW i \in DOMAIN polls'[s], polls'[s][i] # NoData
        PROVE  Follows(NowHits, polls'[s][i]) /\ (snaps[s] # NoData => Follows(polls'[s][i], snaps[s]))
    <3>1. CASE s = r
      BY <1>1, <1>2, <1>6, <1>8, <2>1, <3>1 DEF Cached
    <3>2. CASE s # r
      BY <1>1, <1>5, <2>1, <3>2 DEF Cached
    <3> QED BY <3>1, <3>2
  <2>2. NowHits' = NowHits /\ NowReads' = NowReads
    BY <1>3 DEF NowHits, NowReads
  <2> QED BY <1>1, <1>3, <2>1, <2>2 DEF Cached
<1>10. HitsBacked'
  <2> SUFFICES ASSUME prev # NoPair
               PROVE  \E x \in Reading :
                        /\ Backs(x, prev.hits, NowHits, base.hits, Total("hit"))
                        /\ \A s \in Span : range = s =>
                             \A i \in DOMAIN polls'[s] : polls'[s][i] # NoData => Follows(polls'[s][i], x)
    BY <1>3 DEF HitsBacked, Total, NowHits
  <2>1. PICK x \in Reading :
          /\ Backs(x, prev.hits, NowHits, base.hits, Total("hit"))
          /\ \A s \in Span : range = s =>
               \A i \in DOMAIN polls[s] : polls[s][i] # NoData => Follows(polls[s][i], x)
    BY <1>1 DEF HitsBacked
  <2>2. Follows(NowHits, x)
    BY <2>1 DEF Backs
  <2>3. ASSUME NEW s \in Span, range = s, NEW i \in DOMAIN polls'[s], polls'[s][i] # NoData
        PROVE  Follows(polls'[s][i], x)
    <3>1. CASE s = r
      BY <1>2, <1>6, <2>2, <2>3, <3>1
    <3>2. CASE s # r
      BY <1>5, <2>1, <2>3, <3>2
    <3> QED BY <3>1, <3>2
  <2> QED BY <2>1, <2>3
<1>11. Based' /\ ReadsBacked'
  BY <1>1, <1>3 DEF Based, ReadsBacked, NowReads, Total
<1> QED BY <1>7, <1>9, <1>10, <1>11 DEF SeriesInv

LEMMA PollInfoKeeps ==
  ASSUME SeriesInv, PollInfo PROVE SeriesInv'
<1>1. SeriesTypeOK /\ Cached /\ Based /\ HitsBacked /\ ReadsBacked
  BY DEF SeriesInv
<1>2. info' \in {NowReads, NoData}
  BY DEF PollInfo, NowReads
<1>3. UNCHANGED <<hits, reads, work, restarts, snaps, polls, range, prev, buckets, base, blind>>
  BY DEF PollInfo, sources, series
<1>4. Follows(NowReads, NowReads) /\ NowReads \in Reading
  BY <1>1, NowTypes DEF Follows, NowReads, SeriesTypeOK
<1>5. NowHits' = NowHits /\ NowReads' = NowReads
  BY <1>3 DEF NowHits, NowReads
<1>6. SeriesTypeOK' /\ Cached'
  BY <1>1, <1>2, <1>3, <1>4, <1>5 DEF SeriesTypeOK, Cached
<1>7. Based' /\ HitsBacked'
  BY <1>1, <1>3, <1>5 DEF Based, HitsBacked, Total
<1>8. ReadsBacked'
  <2> SUFFICES ASSUME prev # NoPair, ~blind
               PROVE  \E x \in Reading :
                        /\ Backs(x, prev.reads, NowReads, base.reads, Total("get"))
                        /\ info' # NoData => Follows(info', x)
    BY <1>3, <1>5 DEF ReadsBacked, Total
  <2>1. PICK x \in Reading : Backs(x, prev.reads, NowReads, base.reads, Total("get"))
    BY <1>1 DEF ReadsBacked
  <2>2. Follows(NowReads, x)
    BY <2>1 DEF Backs
  <2> QED BY <1>2, <2>1, <2>2
<1> QED BY <1>6, <1>7, <1>8 DEF SeriesInv

\* A tick on a snapshot that no answer under way, and no cached INFO, falls behind.
LEMMA TickKeeps ==
  ASSUME SeriesInv,
         NEW p \in Pair \union {NoPair}, NEW bs \in Seq(Bucket), Len(bs) <= MaxBuckets,
         NEW b \in Pair \union {NoPair}, NEW bl \in BOOLEAN, NEW snap \in Reading,
         p = NoPair <=> b = NoPair, p = NoPair => bs = <<>>,
         \A field \in {"hit", "get"} : IsFiniteSet(Units(Charted(bs, field))),
         Follows(NowHits, snap),
         p # NoPair => \E x \in Reading :
           Backs(x, p.hits, NowHits, b.hits, SumOf(Charted(bs, "hit"))) /\ Follows(snap, x),
         p # NoPair /\ ~bl /\ info # NoData => \E x \in Reading :
           Backs(x, p.reads, NowReads, b.reads, SumOf(Charted(bs, "get"))) /\ Follows(info, x),
         TickWith(p, bs, b, bl, snap),
         UNCHANGED <<hits, reads, work, restarts, info>>, range' \in Span \union {"none"},
         snaps' \in [Span -> Reading \union {NoData}],
         polls' \in [Span -> Seq(Reading \union {NoData})],
         \A r \in Span : Len(polls'[r]) <= 1,
         Cached',
         \A r \in Span : range' = r =>
           \A i \in DOMAIN polls'[r] : polls'[r][i] # NoData => Follows(polls'[r][i], snap)
  PROVE  SeriesInv'
<1>1. SeriesTypeOK /\ Cached
  BY DEF SeriesInv
<1>2. /\ prev' \in Pair /\ base' \in Pair /\ blind' \in BOOLEAN
      /\ buckets' \in Seq(Bucket) /\ Len(buckets') <= MaxBuckets
      /\ \A field \in {"hit", "get"} : IsFiniteSet(Units(Charted(buckets', field)))
      /\ Backs(snap, prev'.hits, NowHits, base'.hits, SumOf(Charted(buckets', "hit")))
      /\ ~blind' => /\ info \in Reading
                    /\ Backs(info, prev'.reads, NowReads, base'.reads, SumOf(Charted(buckets', "get")))
  BY <1>1, TickBacks
<1>3. NowHits' = NowHits /\ NowReads' = NowReads
  BY DEF NowHits, NowReads
<1>4. prev' # NoPair /\ base' # NoPair
  BY <1>2, ReadingTypes
<1>5. SeriesTypeOK'
  BY <1>1, <1>2 DEF SeriesTypeOK
<1>6. Based'
  BY <1>2, <1>4 DEF Based
<1>7. HitsBacked'
  BY <1>2, <1>3 DEF HitsBacked, Total, Charted
<1>8. ReadsBacked'
  <2> SUFFICES ASSUME ~blind'
               PROVE  \E x \in Reading :
                        /\ Backs(x, prev'.reads, NowReads, base'.reads, Total("get")')
                        /\ info # NoData => Follows(info, x)
    BY <1>3 DEF ReadsBacked
  <2>1. info \in Reading /\ Follows(info, info)
    BY <1>2, SeriesAssumption DEF Follows, Reading
  <2>2. Backs(info, prev'.reads, NowReads, base'.reads, Total("get")')
    BY <1>2 DEF Total, Charted
  <2> QED BY <2>1, <2>2
<1> QED BY <1>5, <1>6, <1>7, <1>8 DEF SeriesInv

LEMMA ShowRangeKeeps ==
  ASSUME SeriesInv, NEW r \in Span, ShowRange(r) PROVE SeriesInv'
<1>1. SeriesTypeOK /\ Cached
  BY DEF SeriesInv
<1>2. range' = r /\ UNCHANGED <<sources, queries>>
  BY DEF ShowRange
<1>3. CASE snaps[r] = NoData
  BY <1>2, <1>3, CleanSlate DEF ShowRange, BaselineAfterReset
<1>4. CASE snaps[r] # NoData
  <2>1. TickWith(NoPair, <<>>, NoPair, FALSE, snaps[r])
    BY <1>4 DEF ShowRange, BaselineAfterReset
  <2>2. snaps[r] \in Reading /\ Follows(NowHits, snaps[r])
    BY <1>1, <1>4 DEF SeriesTypeOK, Cached
  <2>3. \A field \in {"hit", "get"} : IsFiniteSet(Units(Charted(<<>>, field)))
    <3>1. \A field : DOMAIN Charted(<<>>, field) = {}
      BY DEF Charted
    <3> QED BY <3>1, SumOfNothing
  <2>4. <<>> \in Seq(Bucket) /\ Len(<<>>) <= MaxBuckets
    <3>1. <<>> \in Seq(Bucket) /\ Len(<<>>) = 0 /\ 0 <= MaxBuckets
      BY SeriesAssumption
    <3> QED BY <3>1
  <2>5. UNCHANGED <<hits, reads, work, restarts, info, snaps, polls>>
    BY <1>2 DEF sources, queries
  <2>6. Cached'
    BY <1>1, <2>5 DEF Cached, NowHits, NowReads
  <2>7. /\ snaps' \in [Span -> Reading \union {NoData}]
        /\ polls' \in [Span -> Seq(Reading \union {NoData})]
        /\ \A s \in Span : Len(polls'[s]) <= 1
    BY <1>1, <2>5 DEF SeriesTypeOK
  <2>8. \A s \in Span : range' = s =>
          \A i \in DOMAIN polls'[s] : polls'[s][i] # NoData => Follows(polls'[s][i], snaps[r])
    BY <1>1, <1>2, <1>4, <2>5 DEF Cached
  <2>9. PICK p, bs, bl, snap : p = NoPair /\ bs = <<>> /\ bl = FALSE /\ snap = snaps[r]
    OBVIOUS
  <2>10. TickWith(p, bs, p, bl, snap)
    BY <2>1, <2>9
  <2> QED BY <1>2, <2>2, <2>3, <2>4, <2>5, <2>6, <2>7, <2>8, <2>9, <2>10, TickKeeps
<1> QED BY <1>3, <1>4

\* The poll of r is over, answered or not.
LEMMA PollOver ==
  ASSUME SeriesInv, NEW r \in Span, polls' = [polls EXCEPT ![r] = <<>>],
         UNCHANGED <<hits, reads, work, restarts, info, range>>,
         \/ snaps' = snaps
         \/ polls[r] # <<>> /\ snaps' = [snaps EXCEPT ![r] = polls[r][1]]
  PROVE  /\ snaps' \in [Span -> Reading \union {NoData}]
         /\ polls' \in [Span -> Seq(Reading \union {NoData})]
         /\ \A s \in Span : Len(polls'[s]) <= 1
         /\ Cached'
         /\ \A s \in Span : \A i \in DOMAIN polls'[s] : s # r /\ polls'[s] = polls[s]
         /\ polls[r] # <<>> => polls[r][1] \in Reading \union {NoData} /\ 1 \in DOMAIN polls[r]
<1>1. SeriesTypeOK /\ Cached
  BY DEF SeriesInv
<1>2. polls[r] # <<>> => polls[r][1] \in Reading \union {NoData} /\ 1 \in DOMAIN polls[r]
  <2> SUFFICES ASSUME polls[r] # <<>>
               PROVE  polls[r][1] \in Reading \union {NoData} /\ 1 \in DOMAIN polls[r]
    OBVIOUS
  <2>1. polls[r] \in Seq(Reading \union {NoData})
    BY <1>1 DEF SeriesTypeOK
  <2>2. 1 \in 1..Len(polls[r])
    BY <2>1, EmptySeq, LenProperties
  <2> QED BY <2>1, <2>2, ElementOfSeq, LenProperties
<1>3. <<>> \in Seq(Reading \union {NoData}) /\ Len(<<>>) <= 1 /\ DOMAIN <<>> = {}
  OBVIOUS
<1>4. /\ polls' \in [Span -> Seq(Reading \union {NoData})] /\ polls'[r] = <<>>
      /\ \A s \in Span : s # r => polls'[s] = polls[s]
  BY <1>1, <1>3 DEF SeriesTypeOK
<1>5. \A s \in Span : Len(polls'[s]) <= 1
  BY <1>1, <1>3, <1>4 DEF SeriesTypeOK
<1>6. \A s \in Span : \A i \in DOMAIN polls'[s] : s # r /\ polls'[s] = polls[s]
  BY <1>3, <1>4
<1>7. /\ snaps' \in [Span -> Reading \union {NoData}]
      /\ \A s \in Span : s # r => snaps'[s] = snaps[s]
      /\ \/ snaps'[r] = snaps[r]
         \/ 1 \in DOMAIN polls[r] /\ snaps'[r] = polls[r][1]
  BY <1>1, <1>2 DEF SeriesTypeOK
<1>8. Cached'
  <2>1. NowHits' = NowHits /\ NowReads' = NowReads
    BY DEF NowHits, NowReads
  <2>2. ASSUME NEW s \in Span, snaps'[s] # NoData PROVE Follows(NowHits, snaps'[s])
    BY <1>1, <1>7, <2>2 DEF Cached
  <2>3. ASSUME NEW s \in Span, NEW i \in DOMAIN polls'[s], polls'[s][i] # NoData
        PROVE  /\ Follows(NowHits, polls'[s][i])
               /\ snaps'[s] # NoData => Follows(polls'[s][i], snaps'[s])
    <3>1. s # r /\ polls'[s] = polls[s] /\ snaps'[s] = snaps[s]
      BY <1>6, <1>7
    <3> QED BY <1>1, <2>3, <3>1 DEF Cached
  <2> QED BY <1>1, <2>1, <2>2, <2>3 DEF Cached
<1> QED BY <1>2, <1>4, <1>5, <1>6, <1>7, <1>8

\* No tick: what was charted stays, and what backs it.
LEMMA NoTick ==
  ASSUME SeriesInv, NEW r \in Span, polls' = [polls EXCEPT ![r] = <<>>],
         UNCHANGED <<hits, reads, work, restarts, info, range, prev, buckets, base, blind>>,
         \/ snaps' = snaps
         \/ polls[r] # <<>> /\ snaps' = [snaps EXCEPT ![r] = polls[r][1]]
  PROVE  SeriesInv'
<1>1. SeriesTypeOK /\ Based /\ HitsBacked /\ ReadsBacked
  BY DEF SeriesInv
<1>2. /\ snaps' \in [Span -> Reading \union {NoData}]
      /\ polls' \in [Span -> Seq(Reading \union {NoData})]
      /\ \A s \in Span : Len(polls'[s]) <= 1
      /\ Cached'
      /\ \A s \in Span : \A i \in DOMAIN polls'[s] : s # r /\ polls'[s] = polls[s]
  BY PollOver
<1>3. SeriesTypeOK'
  BY <1>1, <1>2 DEF SeriesTypeOK
<1>4. NowHits' = NowHits /\ NowReads' = NowReads
  BY DEF NowHits, NowReads
<1>5. HitsBacked'
  <2> SUFFICES ASSUME prev # NoPair
               PROVE  \E x \in Reading :
                        /\ Backs(x, prev.hits, NowHits, base.hits, Total("hit"))
                        /\ \A s \in Span : range = s =>
                             \A i \in DOMAIN polls'[s] : polls'[s][i] # NoData => Follows(polls'[s][i], x)
    BY <1>4 DEF HitsBacked, Total
  <2>1. PICK x \in Reading :
          /\ Backs(x, prev.hits, NowHits, base.hits, Total("hit"))
          /\ \A s \in Span : range = s =>
               \A i \in DOMAIN polls[s] : polls[s][i] # NoData => Follows(polls[s][i], x)
    BY <1>1 DEF HitsBacked
  <2> QED BY <1>2, <2>1
<1>6. Based' /\ ReadsBacked'
  BY <1>1, <1>4 DEF Based, ReadsBacked, Total
<1> QED BY <1>2, <1>3, <1>5, <1>6 DEF SeriesInv

LEMMA ShowMetricsKeeps ==
  ASSUME SeriesInv, NEW r \in Span, ShowMetrics(r) PROVE SeriesInv'
<1>1. SeriesTypeOK /\ Cached /\ Based /\ HitsBacked /\ ReadsBacked
  BY DEF SeriesInv
<1>2. /\ polls[r] # <<>> /\ polls' = [polls EXCEPT ![r] = <<>>]
      /\ snaps' = [snaps EXCEPT ![r] = polls[r][1]]
      /\ UNCHANGED <<hits, reads, work, restarts, info, range>>
  BY DEF ShowMetrics, sources
<1>3. CASE ~(range = r /\ polls[r][1] # NoData)
  <2>1. UNCHANGED <<prev, buckets, base, blind>>
    BY <1>3 DEF ShowMetrics, series
  <2> QED BY <1>2, <2>1, NoTick
<1>4. CASE range = r /\ polls[r][1] # NoData
  <2>1. /\ snaps' \in [Span -> Reading \union {NoData}]
        /\ polls' \in [Span -> Seq(Reading \union {NoData})]
        /\ \A s \in Span : Len(polls'[s]) <= 1
        /\ Cached'
        /\ \A s \in Span : \A i \in DOMAIN polls'[s] : s # r /\ polls'[s] = polls[s]
        /\ polls[r][1] \in Reading \union {NoData} /\ 1 \in DOMAIN polls[r]
    BY <1>2, PollOver
  <2>2. PICK snap : snap = polls[r][1]
    OBVIOUS
  <2>3. snap \in Reading /\ Follows(NowHits, snap)
    BY <1>1, <1>4, <2>1, <2>2 DEF Cached
  <2>4. TickWith(prev, buckets, base, blind, snap)
    BY <1>4, <2>2 DEF ShowMetrics
  <2>5. prev # NoPair => \E x \in Reading :
          Backs(x, prev.hits, NowHits, base.hits, SumOf(Charted(buckets, "hit"))) /\ Follows(snap, x)
    <3> SUFFICES ASSUME prev # NoPair
                 PROVE  \E x \in Reading :
                   Backs(x, prev.hits, NowHits, base.hits, SumOf(Charted(buckets, "hit"))) /\ Follows(snap, x)
      OBVIOUS
    <3>1. PICK x \in Reading :
            /\ Backs(x, prev.hits, NowHits, base.hits, Total("hit"))
            /\ \A s \in Span : range = s =>
                 \A i \in DOMAIN polls[s] : polls[s][i] # NoData => Follows(polls[s][i], x)
      BY <1>1 DEF HitsBacked
    <3>2. Follows(snap, x)
      BY <1>4, <2>1, <2>2, <3>1
    <3> QED BY <3>1, <3>2, TotalIs
  <2>6. prev # NoPair /\ ~blind /\ info # NoData => \E x \in Reading :
          Backs(x, prev.reads, NowReads, base.reads, SumOf(Charted(buckets, "get"))) /\ Follows(info, x)
    BY <1>1, TotalIs DEF ReadsBacked
  <2>7. \A s \in Span : range' = s =>
          \A i \in DOMAIN polls'[s] : polls'[s][i] # NoData => Follows(polls'[s][i], snap)
    BY <1>2, <1>4, <2>1
  <2>8. /\ prev \in Pair \union {NoPair} /\ base \in Pair \union {NoPair} /\ blind \in BOOLEAN
        /\ buckets \in Seq(Bucket) /\ Len(buckets) <= MaxBuckets /\ range' \in Span \union {"none"}
    BY <1>1, <1>2 DEF SeriesTypeOK
  <2>9. /\ prev = NoPair <=> base = NoPair
        /\ prev = NoPair => buckets = <<>>
        /\ \A field \in {"hit", "get"} : IsFiniteSet(Units(Charted(buckets, field)))
    BY <1>1 DEF Based
  <2>10. PICK p, bs, b, bl : p = prev /\ bs = buckets /\ b = base /\ bl = blind
    OBVIOUS
  <2>11. TickWith(p, bs, b, bl, snap)
    BY <2>4, <2>10
  <2>12. /\ p # NoPair => \E x \in Reading :
             Backs(x, p.hits, NowHits, b.hits, SumOf(Charted(bs, "hit"))) /\ Follows(snap, x)
         /\ p # NoPair /\ ~bl /\ info # NoData => \E x \in Reading :
             Backs(x, p.reads, NowReads, b.reads, SumOf(Charted(bs, "get"))) /\ Follows(info, x)
    BY <2>5, <2>6, <2>10
  <2>13. /\ p \in Pair \union {NoPair} /\ b \in Pair \union {NoPair} /\ bl \in BOOLEAN
         /\ bs \in Seq(Bucket) /\ Len(bs) <= MaxBuckets
         /\ p = NoPair <=> b = NoPair
         /\ p = NoPair => bs = <<>>
         /\ \A field \in {"hit", "get"} : IsFiniteSet(Units(Charted(bs, field)))
    BY <2>8, <2>9, <2>10
  <2>14. UNCHANGED <<hits, reads, work, restarts, info>> /\ range' \in Span \union {"none"}
    BY <1>2, <2>8
  <2> QED BY <2>1, <2>3, <2>7, <2>11, <2>12, <2>13, <2>14, TickKeeps, ZenonT(60)
<1> QED BY <1>3, <1>4

LEMMA SeriesKept == SeriesInv /\ [SeriesNext]_seriesVars => SeriesInv'
<1> SUFFICES ASSUME SeriesInv, [SeriesNext]_seriesVars PROVE SeriesInv'
  OBVIOUS
<1>1. CASE UNCHANGED seriesVars
  BY <1>1 DEF SeriesInv, SeriesTypeOK, Cached, Based, HitsBacked, ReadsBacked, NowHits, NowReads,
              Total, seriesVars
<1>2. CASE LeaveOverview
  BY <1>2, CleanSlate DEF LeaveOverview
<1>3. ASSUME NEW r \in Span, LoseMetrics(r) PROVE SeriesInv'
  BY <1>3, NoTick DEF LoseMetrics, sources, series
<1> QED BY <1>1, <1>2, <1>3, CountersKeep, PollInfoKeeps, ServeMetricsKeeps, ShowMetricsKeeps,
           ShowRangeKeeps DEF SeriesNext

LEMMA SeriesFollows == SeriesInv => SeriesNeverOvercounts
<1> SUFFICES ASSUME SeriesInv, base # NoPair
             PROVE  /\ Total("hit") <= work - base.hits
                    /\ ~blind => Total("get") <= work - base.reads
  BY DEF SeriesNeverOvercounts
<1>1. SeriesTypeOK /\ Based /\ HitsBacked /\ ReadsBacked
  BY DEF SeriesInv
<1>2. prev # NoPair /\ base \in Pair /\ work \in Int
  BY <1>1 DEF Based, SeriesTypeOK
<1>3. /\ base.hits \in Int /\ base.reads \in Int
      /\ NowHits.at = work /\ NowReads.at = work
  BY <1>2 DEF Pair, NowHits, NowReads
<1>4. Total("hit") \in Nat /\ Total("get") \in Nat
  BY <1>1, TotalIs, FS_CardinalityType DEF Based, SumOf
<1>5. Total("hit") <= work - base.hits
  <2>1. PICK x \in Reading : Backs(x, prev.hits, NowHits, base.hits, Total("hit"))
    BY <1>1, <1>2 DEF HitsBacked
  <2> QED BY <1>2, <1>3, <1>4, <2>1 DEF Backs, Follows, Reading
<1>6. ASSUME ~blind PROVE Total("get") <= work - base.reads
  <2>1. PICK x \in Reading : Backs(x, prev.reads, NowReads, base.reads, Total("get"))
    BY <1>1, <1>2, <1>6 DEF ReadsBacked
  <2> QED BY <1>2, <1>3, <1>4, <2>1 DEF Backs, Follows, Reading
<1> QED BY <1>5, <1>6

\* See SeriesNeverOvercounts, and the series' ranges.
THEOREM SeriesHolds == SeriesSpec => [](SeriesTypeOK /\ SeriesNeverOvercounts)
<1>1. SeriesInv => SeriesTypeOK /\ SeriesNeverOvercounts
  BY SeriesFollows DEF SeriesInv
<1> QED BY <1>1, SeriesStart, SeriesKept, PTL DEF SeriesSpec

-----------------------------------------------------------------------------
(* The four together *)

ExplorerInv == IInv /\ FilterInv /\ SeriesInv /\ SamplerInv

LEMMA ExplorerStart == ExplorerInit => ExplorerInv
PROOF BY InvInit, FilterStart, SeriesStart, SamplerStart DEF ExplorerInit, ExplorerInv

\* Each part takes a step of its own, or stands still.
LEMMA PartsStep ==
  [ExplorerNext]_explorerVars =>
    /\ [Next]_vars /\ [FilterNext]_filterVars
    /\ [SeriesNext]_seriesVars /\ [SamplerNext]_samplerVars
PROOF BY DEF ExplorerNext, explorerVars

LEMMA ExplorerKept == ExplorerInv /\ [ExplorerNext]_explorerVars => ExplorerInv'
PROOF BY PartsStep, InvNext, FilterKept, SeriesKept, SamplerKept DEF ExplorerInv

LEMMA ExplorerInvariant == ExplorerSpec => []ExplorerInv
PROOF BY ExplorerStart, ExplorerKept, PTL DEF ExplorerSpec

\* See MCExplorer.ExplorerTypeOK: the requests and every view keep their types.
THEOREM ExplorerTypeCorrect == ExplorerSpec => []ExplorerTypeOK
<1>1. ExplorerInv => ExplorerTypeOK
  BY DEF ExplorerInv, IInv, FilterInv, SeriesInv, SamplerInv, ExplorerTypeOK
<1> QED BY <1>1, ExplorerInvariant, PTL

\* See MCExplorer.NothingCountedTwice; use-metric-series.ts, metrics.service.ts: no
\* number of the Overview counts a lookup or a command twice.
THEOREM NothingCountedTwiceHolds == ExplorerSpec => []NothingCountedTwice
<1>1. ExplorerInv => NothingCountedTwice
  BY SeriesFollows DEF ExplorerInv, SamplerInv, NothingCountedTwice
<1> QED BY <1>1, ExplorerInvariant, PTL
=============================================================================
