------------------------------- MODULE Playground -------------------------------
(***************************************************************************)
(* The playground: the cards of open tabs, each running one operation at a   *)
(* time (usePlaygroundOp), and the counters and collections of the API that  *)
(* they call.  What the Strings and Batch cards call is Catalog's and        *)
(* Keyspace's: here their answers are any.                                   *)
(***************************************************************************)
EXTENDS Integers, FiniteSets

CONSTANTS
  Card,      \* cards of the open tabs
  Id,        \* product and cart ids
  Member,    \* tags, and fields of a cart
  IncrStep,  \* INCR_STEP
  MaxClicks  \* bound: operations run

Kind == {"numerics", "set", "hash", "catalog"}

ASSUME PlaygroundAssumption == IncrStep \in Nat \ {0} /\ MaxClicks \in Nat

VARIABLES
  kindOf,    \* the kind of each card, for good
  views,     \* the view counters, zero when their key is gone
  stock,
  members,   \* the tags of each product and the fields of each cart
  isPending,   \* isPending of each card
  ops,       \* the operations of each card under way
  outcome,   \* the outcome each card shows
  clicks,    \* operations each card has run
  newest,    \* history: the newest operation of each card that succeeded
  mixed,     \* history: the listings whose set changed between their two reads of it
  recounted  \* history: has a counter been removed, to start again at zero?

playVars == <<kindOf, views, stock, members, isPending, ops, outcome, clicks, newest, mixed, recounted>>
inRedis  == <<views, stock, members>>

-----------------------------------------------------------------------------
Collection == {"tags", "cart"}

\* The buttons of the cards.
NumericsCard == {"views", "incr", "incr +N", "decr"}
SetCard      == {"sadd", "srem", "sismember", "smembers"}
HashCard     == {"hset", "hdel", "hget", "hgetall"}
StringsCard  == {"string call"}
BatchCard    == {"batch call"}

Buttons == [numerics |-> NumericsCard, set |-> SetCard, hash |-> HashCard,
            catalog |-> StringsCard \union BatchCard]
Op == UNION {Buttons[k] : k \in Kind}

\* The collection an operation is about.
CollectionOf(op) == IF op \in SetCard THEN "tags" ELSE "cart"

\* A number or a truth value, and the members listed.
Reply == [n : Int, listed : SUBSET Member]
Number(k) == [n |-> k, listed |-> {}]
Truth(b)  == Number(IF b THEN 1 ELSE 0)

Turn   == 1..MaxClicks
Running == [at : {"sent", "listed", "replied"}, click : Turn, op : Op, id : Id,
            member : Member, reply : Reply]
Outcome == [click : Turn, op : Op, id : Id, reply : Reply]
NoOutcome == [click |-> 0]

PlayTypeOK ==
  /\ kindOf \in [Card -> Kind]
  /\ views \in [Id -> Nat] /\ stock \in [Id -> Int]
  /\ members \in [Collection \X Id -> SUBSET Member]
  /\ isPending \in [Card -> BOOLEAN]
  /\ ops \in [Card -> SUBSET Running] /\ outcome \in [Card -> Outcome \union {NoOutcome}]
  /\ clicks \in [Card -> 0..MaxClicks] /\ newest \in [Card -> 0..MaxClicks]
  /\ mixed \subseteq Card \X Turn /\ recounted \in BOOLEAN

PlayInit ==
  /\ kindOf \in [Card -> Kind]
  /\ views = [i \in Id |-> 0] /\ stock = [i \in Id |-> 0]
  /\ members = [x \in Collection \X Id |-> {}]
  /\ isPending = [c \in Card |-> FALSE] /\ ops = [c \in Card |-> {}]
  /\ outcome = [c \in Card |-> NoOutcome]
  /\ clicks = [c \in Card |-> 0] /\ newest = [c \in Card |-> 0]
  /\ mixed = {} /\ recounted = FALSE

-----------------------------------------------------------------------------
(* usePlaygroundOp *)

Runs(c, op, id, member) ==
  /\ clicks[c] < MaxClicks
  /\ clicks' = [clicks EXCEPT ![c] = @ + 1]
  /\ isPending' = [isPending EXCEPT ![c] = TRUE]
  /\ ops' = [ops EXCEPT ![c] = @ \union
       {[at |-> "sent", click |-> clicks[c] + 1, op |-> op, id |-> id, member |-> member,
         reply |-> Number(0)]}]
  /\ UNCHANGED <<inRedis, outcome, newest, mixed, recounted>>

\* Mutant: the buttons stay enabled.
BugNeverDisabled(c, op, id, member) == Runs(c, op, id, member)

\* A button: its inputs are read at the click, and all of the card's buttons are
\* disabled while its operation is pending.
RunOp(c, op, id, member) == ~isPending[c] /\ Runs(c, op, id, member)

\* The outcome, and finally the pending flag.
ShowOutcome(c, o) ==
  /\ o.at = "replied"
  /\ outcome' = [outcome EXCEPT ![c] =
                   [click |-> o.click, op |-> o.op, id |-> o.id, reply |-> o.reply]]
  /\ newest' = [newest EXCEPT ![c] = IF o.click > @ THEN o.click ELSE @]
  /\ isPending' = [isPending EXCEPT ![c] = FALSE]
  /\ ops' = [ops EXCEPT ![c] = @ \ {o}]
  /\ UNCHANGED <<inRedis, clicks, mixed, recounted>>

\* An error answer or a failure of the network, before the command ran or after:
\* a toast, and the outcome of an earlier operation stays.
OpFails(c, o) ==
  /\ isPending' = [isPending EXCEPT ![c] = FALSE]
  /\ ops' = [ops EXCEPT ![c] = @ \ {o}]
  /\ UNCHANGED <<inRedis, outcome, clicks, newest, mixed, recounted>>

-----------------------------------------------------------------------------
(* CountersService, CollectionsService: a command of Redis each *)

Moves(c, o, at, reply) ==
  ops' = [ops EXCEPT ![c] = (@ \ {o}) \union {[o EXCEPT !.at = at, !.reply = reply]}]

RepliesTo(c, o, reply) == Moves(c, o, "replied", reply)

By(op) == IF op = "incr +N" THEN IncrStep ELSE 1

GetViews(c, o) ==
  /\ o.at = "sent" /\ o.op = "views"
  /\ RepliesTo(c, o, Number(views[o.id]))
  /\ UNCHANGED <<views, stock>>

\* Mutant: the card's own number and one more, a read-modify-write.
BugReadModifyWrite(c, o) ==
  /\ o.at = "sent" /\ o.op \in {"incr", "incr +N"}
  /\ views' = [views EXCEPT ![o.id] =
       (IF outcome[c] # NoOutcome /\ outcome[c].id = o.id /\ outcome[c].op = "views"
          THEN outcome[c].reply.n ELSE @) + By(o.op)]
  /\ RepliesTo(c, o, Number(views'[o.id]))
  /\ UNCHANGED stock

IncrViews(c, o) ==
  /\ o.at = "sent" /\ o.op \in {"incr", "incr +N"}
  /\ views' = [views EXCEPT ![o.id] = @ + By(o.op)]
  /\ RepliesTo(c, o, Number(views'[o.id]))
  /\ UNCHANGED stock

DecrStock(c, o) ==
  /\ o.at = "sent" /\ o.op = "decr"
  /\ stock' = [stock EXCEPT ![o.id] = @ - 1]
  /\ RepliesTo(c, o, Number(stock'[o.id]))
  /\ UNCHANGED views

Counting(c, o) ==
  /\ GetViews(c, o) \/ IncrViews(c, o) \/ DecrStock(c, o)
  /\ UNCHANGED <<members, isPending, outcome, clicks, newest, mixed, recounted>>

\* The listings of tags under way that a change of S would mix.
Listing(S) ==
  {x \in Card \X Turn : \E o \in ops[x[1]] : o.click = x[2] /\ o.at = "listed" /\ <<"tags", o.id>> = S}

\* sadd, hset, srem, hdel: told how many members came or went.
Changes(c, o) ==
  LET S == <<CollectionOf(o.op), o.id>>
      After == IF o.op \in {"sadd", "hset"} THEN members[S] \union {o.member}
                                            ELSE members[S] \ {o.member} IN
  /\ o.at = "sent" /\ o.op \in {"sadd", "hset", "srem", "hdel"}
  /\ members' = [members EXCEPT ![S] = After]
  /\ RepliesTo(c, o, Truth(After # members[S]))
  /\ mixed' = IF After # members[S] THEN mixed \union Listing(S) ELSE mixed

\* sismember, hget, hgetall
Reads(c, o) ==
  LET S == members[<<CollectionOf(o.op), o.id>>] IN
  /\ o.at = "sent" /\ o.op \in {"sismember", "hget", "hgetall"}
  /\ RepliesTo(c, o, IF o.op = "hgetall" THEN [n |-> 0, listed |-> S] ELSE Truth(o.member \in S))
  /\ UNCHANGED <<members, mixed>>

\* listTags: the members, and with a command of its own their number.
ListMembers(c, o) ==
  /\ o.at = "sent" /\ o.op = "smembers"
  /\ Moves(c, o, "listed", [n |-> 0, listed |-> members[<<"tags", o.id>>]])
  /\ UNCHANGED <<members, mixed>>

CountMembers(c, o) ==
  /\ o.at = "listed"
  /\ RepliesTo(c, o, [o.reply EXCEPT !.n = Cardinality(members[<<"tags", o.id>>])])
  /\ UNCHANGED <<members, mixed>>

Collecting(c, o) ==
  /\ Changes(c, o) \/ Reads(c, o) \/ ListMembers(c, o) \/ CountMembers(c, o)
  /\ UNCHANGED <<views, stock, isPending, outcome, clicks, newest, recounted>>

CatalogCall(c, o) ==
  /\ o.at = "sent" /\ o.op \in Buttons["catalog"]
  /\ \E n \in {0, 1} : RepliesTo(c, o, Number(n))
  /\ UNCHANGED <<inRedis, isPending, outcome, clicks, newest, mixed, recounted>>

\* A flush, or a delete in the explorer.
CounterRemoved(i) ==
  /\ views[i] > 0
  /\ views' = [views EXCEPT ![i] = 0]
  /\ recounted' = TRUE
  /\ UNCHANGED <<stock, members, isPending, ops, outcome, clicks, newest, mixed>>

TagsRemoved(i) ==
  /\ members[<<"tags", i>>] # {}
  /\ members' = [members EXCEPT ![<<"tags", i>>] = {}]
  /\ mixed' = mixed \union Listing(<<"tags", i>>)
  /\ UNCHANGED <<views, stock, isPending, ops, outcome, clicks, newest, recounted>>

PlayNext ==
  /\ UNCHANGED kindOf
  /\ \/ \E c \in Card : \E op \in Buttons[kindOf[c]], id \in Id, m \in Member : RunOp(c, op, id, m)
     \/ \E c \in Card : \E o \in ops[c] :
          ShowOutcome(c, o) \/ OpFails(c, o) \/ Counting(c, o) \/ Collecting(c, o) \/ CatalogCall(c, o)
     \/ \E i \in Id : CounterRemoved(i) \/ TagsRemoved(i)

PlaySpec == PlayInit /\ [][PlayNext]_playVars
-----------------------------------------------------------------------------
\* use-playground-op.ts: the outcome a card shows is of the newest of its operations
\* that succeeded, never of an older one whose answer came late, and its buttons are
\* enabled only when nothing of it is under way.
CardShowsNewest ==
  \A c \in Card : outcome[c].click = newest[c] /\ (isPending[c] <=> ops[c] # {})

Shown(op) == {c \in Card : outcome[c] # NoOutcome /\ outcome[c].op \in op}
Increments == {"incr", "incr +N"}

\* collections.service.ts, counters.service.ts: the number shown beside a list of tags
\* is the list's own, unless the set changed between the two commands; and as long as
\* no counter was removed no two cards are told the same number for their increments,
\* nor a number above the counter, whatever answers were lost.
AnswersAddUp ==
  /\ \A c \in Shown({"smembers"}) :
       <<c, outcome[c].click>> \notin mixed =>
         outcome[c].reply.n = Cardinality(outcome[c].reply.listed)
  /\ ~recounted => \A c, d \in Shown(Increments) :
       /\ outcome[c].reply.n <= views[outcome[c].id]
       /\ c # d /\ outcome[c].id = outcome[d].id => outcome[c].reply.n # outcome[d].reply.n
=============================================================================
