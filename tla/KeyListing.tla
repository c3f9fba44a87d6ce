------------------------------ MODULE KeyListing ------------------------------
(***************************************************************************)
(* The key listings of the dashboard (Key Explorer, tenant panels): the      *)
(* infinite query of useKeys, the scroll effect of KeyTable that asks for    *)
(* the next page, and the mutations that invalidate the listing.            *)
(*                                                                         *)
(* The API lists the first PageSize keys of a fresh scan whatever the cursor *)
(* (AdminService.listKeys, see Keyspace); keys are numbered in scan order.   *)
(* The query cache (TanStack Query) is external, and modelled by what these  *)
(* hooks rely on: which fetch starts, joins or cancels which.               *)
(***************************************************************************)
EXTENDS Naturals, Sequences, FiniteSets

CONSTANTS
  Slot,        \* key numbers
  PageSize,
  MaxEvents,   \* bound: changes of the keyspace and requests lost
  MaxPages     \* bound: pages of a listing

ASSUME ListingAssumption ==
  /\ Slot \subseteq Nat \ {0} /\ IsFiniteSet(Slot)
  /\ PageSize \in Nat \ {0}
  /\ MaxEvents \in Nat /\ MaxPages \in Nat \ {0}

VARIABLES
  present,  \* the keys that match the filter
  version,  \* how often they have changed
  write,    \* the tab's own mutation: none, under way, or answered next
  wrote,    \* the version its last effect made
  acked,    \* the newest version an acknowledged mutation made
  mounted,  \* does a page show the listing?
  atEnd,    \* does its viewport reach the last row?
  pages,    \* the query's data: pages, in order
  old,      \* is that data invalidated, or past the stale time?
  fetch,    \* the running fetch, and the answer on its way to it
  losses,   \* requests lost in the network
  waived    \* history: did the data miss a refetch that a mutation asked for?

listingVars ==
  <<present, version, write, wrote, acked, mounted, atEnd, pages, old, fetch, losses, waived>>
shown  == <<mounted, atEnd>>
server == <<present, version, write, wrote, acked>>

-----------------------------------------------------------------------------
NoCursor == 0  \* no cursor: the API's null, and the initial page parameter

\* A page: an error, or keys and the next cursor; `param' is what it was asked
\* with and `at' the version it was read from.
ListedPage == [ok : BOOLEAN, keys : SUBSET Slot, cursor : Slot \union {NoCursor},
               param : Slot \union {NoCursor}, at : 0..MaxEvents]

Idle == [kind |-> "idle", param |-> NoCursor, got |-> <<>>, reply |-> <<>>]

ListingTypeOK ==
  /\ present \subseteq Slot
  /\ version \in 0..MaxEvents /\ wrote \in 0..version /\ acked \in 0..wrote
  /\ write \in {"none", "sent", "done"}
  /\ mounted \in BOOLEAN /\ atEnd \in BOOLEAN /\ old \in BOOLEAN /\ waived \in BOOLEAN
  /\ pages \in Seq(ListedPage) /\ Len(pages) <= MaxPages
  /\ fetch \in [kind : {"idle", "first", "again", "next"}, param : Slot \union {NoCursor},
                got : Seq(ListedPage), reply : Seq(ListedPage)]
  /\ fetch.kind = "next" => fetch.param # NoCursor
  /\ fetch.got # <<>> => fetch.kind = "again" /\ Len(fetch.got) < Len(pages)
  /\ Len(fetch.reply) <= 1
  /\ losses \in 0..MaxEvents

ListingInit ==
  /\ present \in SUBSET Slot
  /\ version = 0 /\ write = "none" /\ wrote = 0 /\ acked = 0
  /\ mounted = FALSE /\ atEnd = FALSE
  /\ pages = <<>> /\ old = FALSE /\ fetch = Idle
  /\ losses = 0 /\ waived = FALSE

-----------------------------------------------------------------------------
(* The API *)

\* The first PageSize keys of a fresh scan.
FirstKeys(S) == {k \in S : Cardinality({j \in S : j <= k}) <= PageSize}
LastOf(S) == CHOOSE k \in S : \A j \in S : j <= k

\* More keys than a page: a cursor.  Exactly a page: a cursor or null, as the
\* scan had ended or not.
Answers(param) ==
  LET keys == FirstKeys(present)
      page(cursor) == [ok |-> TRUE, keys |-> keys, cursor |-> cursor,
                       param |-> param, at |-> version]
  IN  (IF Cardinality(present) <= PageSize THEN {page(NoCursor)} ELSE {})
      \union (IF Cardinality(present) >= PageSize THEN {page(LastOf(keys))} ELSE {})
      \union {[ok |-> FALSE, keys |-> {}, cursor |-> NoCursor, param |-> param, at |-> version]}

ServePage ==
  /\ fetch.kind # "idle" /\ fetch.reply = <<>>
  /\ \E page \in Answers(fetch.param) : fetch' = [fetch EXCEPT !.reply = <<page>>]
  /\ UNCHANGED <<server, shown, pages, old, losses, waived>>

\* One step of a change: of another client, or of the tab's own mutation.
Change(keys) ==
  /\ version + losses < MaxEvents
  /\ keys # present
  /\ present' = keys /\ version' = version + 1

OthersChange ==
  /\ \E k \in Slot : Change(present \union {k}) \/ Change(present \ {k})
  /\ UNCHANGED <<write, wrote, acked, shown, pages, old, fetch, losses, waived>>

-----------------------------------------------------------------------------
(* The query *)

\* getNextPageParam
NextParam(page) ==
  IF page.ok /\ page.cursor # page.param THEN page.cursor ELSE NoCursor

HasNext == pages # <<>> /\ NextParam(pages[Len(pages)]) # NoCursor

\* What is on the screen: flattenKeyPages, and which panel ExplorerView shows.
Rows == UNION {pages[i].keys : i \in 1..Len(pages)}
Panel == IF pages = <<>> THEN IF fetch.kind = "first" THEN "skeleton" ELSE "empty"
         ELSE IF ~pages[1].ok THEN "failed"
         ELSE IF Rows = {} THEN "empty" ELSE "rows"

\* A fetch of everything: what was loaded, page after page, or the first page.
Refetch ==
  /\ fetch' = [Idle EXCEPT !.kind = IF pages = <<>> THEN "first" ELSE "again"]
  /\ waived' = FALSE

\* A page that shows the listing is opened; old data is fetched again.
Mount ==
  /\ ~mounted
  /\ mounted' = TRUE /\ atEnd' \in BOOLEAN
  /\ IF fetch.kind = "idle" /\ (pages = <<>> \/ old) THEN Refetch ELSE UNCHANGED <<fetch, waived>>
  /\ UNCHANGED <<server, pages, old, losses>>

\* A fetch goes on without its page.
Unmount ==
  /\ mounted
  /\ mounted' = FALSE /\ atEnd' = FALSE
  /\ UNCHANGED <<server, pages, old, fetch, losses, waived>>

Scroll ==
  /\ mounted
  /\ atEnd' = ~atEnd
  /\ UNCHANGED <<server, mounted, pages, old, fetch, losses, waived>>

Age ==
  /\ pages # <<>> /\ ~old
  /\ old' = TRUE
  /\ UNCHANGED <<server, shown, pages, fetch, losses, waived>>

\* Are there pages left to replace?
PagesLeft(got) == fetch.kind = "again" /\ Len(got) < Len(pages)

\* A refetch goes on while there are pages to replace and a cursor to follow.
Receive ==
  /\ fetch.reply # <<>>
  /\ LET page == fetch.reply[1]
         got  == Append(fetch.got, page)
         more == PagesLeft(got) /\ NextParam(page) # NoCursor
     IN  IF more
         THEN /\ fetch' = [fetch EXCEPT !.param = NextParam(page), !.got = got, !.reply = <<>>]
              /\ UNCHANGED <<pages, old>>
         ELSE /\ pages' = IF fetch.kind = "next" THEN Append(pages, page) ELSE got
              /\ fetch' = Idle
              /\ old' = FALSE
  /\ UNCHANGED <<server, shown, losses, waived>>

\* apiFetch rejects: the retries are spent, the data stays as it is.
Lose ==
  /\ fetch.kind # "idle" /\ version + losses < MaxEvents
  /\ losses' = losses + 1
  /\ fetch' = Idle
  /\ waived' = TRUE
  /\ UNCHANGED <<server, shown, pages, old>>

\* Mutant: the next page is asked for after the last one too.
BugNoHasNext ==
  /\ mounted /\ atEnd /\ Panel = "rows"
  /\ fetch.kind # "next" /\ Len(pages) < MaxPages
  /\ fetch' = [Idle EXCEPT !.kind = "next", !.param = NextParam(pages[Len(pages)])]
  /\ waived' = (waived \/ fetch.kind = "again")
  /\ UNCHANGED <<server, shown, pages, old, losses>>

\* Mutant: a table that does not overflow its viewport never scrolls, and never asks.
BugNeedsOverflow ==
  /\ mounted /\ atEnd /\ Panel = "rows" /\ Cardinality(Rows) > PageSize
  /\ HasNext /\ fetch.kind # "next" /\ Len(pages) < MaxPages
  /\ fetch' = [Idle EXCEPT !.kind = "next", !.param = NextParam(pages[Len(pages)])]
  /\ waived' = (waived \/ fetch.kind = "again")
  /\ UNCHANGED <<server, shown, pages, old, losses>>

\* The scroll effect asks for the next page unless one is loading.  The library
\* cancels a refetch that is running then, so its pages stay as they are.
LoadMore ==
  /\ mounted /\ atEnd /\ Panel = "rows"
  /\ HasNext /\ fetch.kind # "next" /\ Len(pages) < MaxPages
  /\ fetch' = [Idle EXCEPT !.kind = "next", !.param = NextParam(pages[Len(pages)])]
  /\ waived' = (waived \/ fetch.kind = "again")
  /\ UNCHANGED <<server, shown, pages, old, losses>>

-----------------------------------------------------------------------------
(* Mutations: delete, persist, expire, seed, flush, clear a tenant, prove *)

Mutate ==
  /\ write = "none"
  /\ write' = "sent"
  /\ UNCHANGED <<present, version, wrote, acked, shown, pages, old, fetch, losses, waived>>

\* It takes effect, in several steps if it is a flush or the ten reads of a seed.
TakeEffect ==
  /\ write = "sent"
  /\ write' \in {"sent", "done"}
  /\ \E keys \in SUBSET Slot : Change(keys)
  /\ wrote' = version'
  /\ UNCHANGED <<acked, shown, pages, old, fetch, losses, waived>>

\* Whether or not somebody looks at it, the listing's data is marked.
Mark == pages # <<>> \/ fetch.kind # "idle"

\* Mutant: a success invalidates nothing.
BugNoInvalidation ==
  /\ write \in {"sent", "done"}
  /\ write' = "none" /\ acked' = wrote
  /\ UNCHANGED <<present, version, wrote, shown, pages, old, fetch, losses, waived>>

\* invalidateQueries: a listing that is shown is fetched again at once, instead
\* of what is being fetched; but a first load, and a load nobody looks at, go on
\* and take the mark away.
Acknowledge ==
  /\ write \in {"sent", "done"}
  /\ write' = "none" /\ acked' = wrote
  /\ old' = Mark
  /\ IF mounted /\ (fetch.kind = "idle" \/ pages # <<>>) THEN Refetch
     ELSE /\ waived' = (waived \/ fetch.kind # "idle")
          /\ UNCHANGED fetch
  /\ UNCHANGED <<present, version, wrote, shown, pages, losses>>

\* An error answer or none: only onSuccess, or the end of the seed, invalidates.
Reject ==
  /\ write \in {"sent", "done"}
  /\ write' = "none"
  /\ UNCHANGED <<present, version, wrote, acked, shown, pages, old, fetch, losses, waived>>

ListingNext ==
  \/ ServePage \/ OthersChange \/ Mount \/ Unmount \/ Scroll \/ Age
  \/ Receive \/ Lose \/ LoadMore
  \/ Mutate \/ TakeEffect \/ Acknowledge \/ Reject

ListingSpec == ListingInit /\ [][ListingNext]_listingVars

\* Requests are answered, answers arrive, and the effect of KeyTable runs.
ListingFairness ==
  WF_listingVars(ServePage) /\ WF_listingVars(Receive) /\ WF_listingVars(LoadMore)

-----------------------------------------------------------------------------
(* Properties *)

\* use-cache-mutations.ts: after the tab's own mutation was acknowledged and the
\* listing has settled, no page in it was read before that mutation took effect.
\* Exactly these escape: a first load or an unseen load in flight at the time, a
\* refetch pre-empted by the scroll effect, and a refetch lost in the network.
FreshAfterOwnWrite ==
  mounted /\ fetch.kind = "idle" /\ ~waived => \A i \in 1..Len(pages) : pages[i].at >= acked

\* use-keys.ts: every page is a fresh scan, yet paging ends: a viewport that stays
\* at the end, with no mutation to answer, asks for no more in the end.
PagingEnds ==
  <>[](mounted /\ atEnd /\ write = "none") => <>[](fetch.kind = "idle" /\ ~HasNext)
=============================================================================
