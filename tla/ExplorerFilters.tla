---------------------------- MODULE ExplorerFilters ----------------------------
(***************************************************************************)
(* The Explorer's filters: URL parameters that any control of the page, the   *)
(* tenant switcher and links of other pages set; the query the page makes of   *)
(* them and caches under them; the pattern the API scans for; and the pattern  *)
(* the page says it shows.  A key is the sequence of its segments without the   *)
(* namespace; a pattern is one whose last segment may be the glob.  One page    *)
(* holds all answers (KeyListing has the paging).                                *)
(***************************************************************************)
EXTENDS Naturals, Sequences

CONSTANTS
  StoredKey,      \* keys other clients write and delete
  TenantId,
  PrefixText,     \* what is typed or picked as a prefix
  IdText,         \* ids of the Playground's links
  MaxClicks,      \* bound: changes of the filter
  MaxWrites       \* bound: keys written or deleted

ASSUME FilterAssumption ==
  /\ MaxClicks \in Nat /\ MaxWrites \in Nat
  /\ StoredKey \subseteq Seq(STRING)

VARIABLES
  filter,    \* the URL's parameters
  listed,    \* the query cache: answers by query, but for errors
  asking,    \* queries being fetched, with the answer once it is made
  stored,    \* keys in Redis
  clicks, writes

filterVars == <<filter, listed, asking, stored, clicks, writes>>

-----------------------------------------------------------------------------
Empty == ""
Glob  == "*"

Filter == [tenant : TenantId \union {Empty}, prefix : PrefixText \union {Empty},
           pattern : IdText \union {Empty}, strategy : {"scan", "keys"},
           type : {Empty, "string"}, hasTtl : BOOLEAN]

NoFilter == [tenant |-> Empty, prefix |-> Empty, pattern |-> Empty,
             strategy |-> "scan", type |-> Empty, hasTtl |-> FALSE]

\* Rows, and the keys there were when they were read.
Listing == [rows : SUBSET StoredKey, among : SUBSET StoredKey]
NoListing == [rows |-> {}, among |-> {}]

FilterTypeOK ==
  /\ filter \in Filter
  /\ DOMAIN listed \subseteq Filter /\ \A q \in DOMAIN listed : listed[q] \in Listing
  /\ asking \subseteq [query : Filter, served : BOOLEAN, answer : Listing]
  /\ stored \subseteq StoredKey
  /\ clicks \in 0..MaxClicks /\ writes \in 0..MaxWrites

FilterInit ==
  /\ filter = NoFilter /\ listed = <<>> /\ asking = {}
  /\ stored = StoredKey /\ clicks = 0 /\ writes = 0

-----------------------------------------------------------------------------
(* Patterns *)

\* Redis: the glob at the end takes any rest, further segments too.
Matching(pattern, among) ==
  LET n    == Len(pattern)
      head == SubSeq(pattern, 1, n - 1)
  IN  {k \in among : /\ Len(k) >= n /\ SubSeq(k, 1, n - 1) = head
                     /\ pattern[n] = Glob \/ (Len(k) = n /\ k[n] = pattern[n])}

Tail1(f) == <<IF f.pattern = Empty THEN Glob ELSE f.pattern>>
OfTenant(f) == IF f.tenant = Empty THEN <<>> ELSE <<"tenant", f.tenant>>
OfPrefix(f) == IF f.prefix = Empty THEN <<>> ELSE <<f.prefix>>

\* ExplorerView's "Resolved match": the parts that are set.
ResolvedPattern(f) == OfTenant(f) \o OfPrefix(f) \o Tail1(f)

\* AdminService.listKeys: with a tenant the prefix is a segment even when it is empty.
\* type and hasTtl are not looked at, and both strategies find the same keys.
Scanned(f) ==
  IF f.tenant = Empty THEN OfPrefix(f) \o Tail1(f)
  ELSE OfTenant(f) \o <<f.prefix>> \o Tail1(f)

-----------------------------------------------------------------------------
(* The controls *)

SetFilter(f) ==
  /\ clicks < MaxClicks /\ clicks' = clicks + 1
  /\ f # filter /\ filter' = f
  /\ UNCHANGED <<listed, asking, stored, writes>>

\* The switcher offers no "all tenants".
SwitchTenant(t) == SetFilter([filter EXCEPT !.tenant = t])

\* Typing sets a prefix; a second click on its chip clears it.
ChangePrefix(p) == SetFilter([filter EXCEPT !.prefix = IF p = filter.prefix THEN Empty ELSE p])

ToggleType == SetFilter([filter EXCEPT !.type = IF @ = Empty THEN "string" ELSE Empty])
ToggleTtl == SetFilter([filter EXCEPT !.hasTtl = ~@])

ChooseStrategy(s) == SetFilter([filter EXCEPT !.strategy = s])

\* "View in Explorer" and the Overview's charts: a link carries a prefix and maybe an
\* id, or a type, and nothing else.
FollowLink(p, id) == SetFilter([NoFilter EXCEPT !.prefix = p, !.pattern = id])
GoToType == SetFilter([NoFilter EXCEPT !.type = "string"])

-----------------------------------------------------------------------------
(* The query *)

\* Mutant: the tenant is not part of the query's key.
BugKeyWithoutTenant(f) == [f EXCEPT !.tenant = Empty]

\* The key an answer is cached under: every parameter that is set.
QueryKey(f) == f

\* TanStack Query fetches the query of the current filter, once at a time, when it is
\* mounted or stale; a fetch nobody watches any more goes on.
Ask ==
  /\ \A a \in asking : QueryKey(a.query) # QueryKey(filter)
  /\ asking' = asking \union {[query |-> filter, served |-> FALSE, answer |-> NoListing]}
  /\ UNCHANGED <<filter, listed, stored, clicks, writes>>

ServeKeys(a) ==
  /\ a \in asking /\ ~a.served
  /\ asking' = (asking \ {a}) \union
       {[a EXCEPT !.served = TRUE,
                  !.answer = [rows |-> Matching(Scanned(a.query), stored), among |-> stored]]}
  /\ UNCHANGED <<filter, listed, stored, clicks, writes>>

\* An answer; or an error, which is data too: it takes the place of what was cached, and
\* the page shows it and no rows.
ShowKeys(a) ==
  LET q == QueryKey(a.query)
  IN  /\ a \in asking /\ asking' = asking \ {a}
      /\ \/ /\ a.served
            /\ listed' = [x \in DOMAIN listed \union {q} |-> IF x = q THEN a.answer ELSE listed[x]]
         \/ listed' = [x \in DOMAIN listed \ {q} |-> listed[x]]
      /\ UNCHANGED <<filter, stored, clicks, writes>>

WriteKey(k) ==
  /\ writes < MaxWrites /\ writes' = writes + 1
  /\ stored' = IF k \in stored THEN stored \ {k} ELSE stored \union {k}
  /\ UNCHANGED <<filter, listed, asking, clicks>>

FilterNext ==
  \/ \E t \in TenantId : SwitchTenant(t)
  \/ \E p \in PrefixText : ChangePrefix(p) \/ \E id \in IdText \union {Empty} : FollowLink(p, id)
  \/ GoToType \/ ToggleType \/ ToggleTtl \/ \E s \in {"scan", "keys"} : ChooseStrategy(s)
  \/ Ask \/ \E a \in asking : ServeKeys(a) \/ ShowKeys(a)
  \/ \E k \in StoredKey : WriteKey(k)

FilterSpec == FilterInit /\ [][FilterNext]_filterVars

-----------------------------------------------------------------------------
\* ExplorerView.tsx, use-keys.ts, admin.service.ts: the rows under a filter are keys
\* that the pattern shown above them matches, whichever filters were set while the
\* answer was under way, and, but for a tenant without a prefix, all that there were.
\* A tenant without a prefix and with the id of a link is excepted altogether: the API
\* asks for that id behind an empty segment, which the pattern shown does not have.
RowsMatchFilter ==
  QueryKey(filter) \in DOMAIN listed =>
    LET shown == listed[QueryKey(filter)]
        all   == Matching(ResolvedPattern(filter), shown.among)
    IN  IF filter.tenant = Empty \/ filter.prefix # Empty THEN shown.rows = all
        ELSE filter.pattern = Empty => shown.rows \subseteq all
=============================================================================
