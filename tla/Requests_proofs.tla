---------------------------- MODULE Requests_proofs ----------------------------
(***************************************************************************)
(* Theorems about KeyListing, for any keyspace, any page size and any        *)
(* number of changes, and about the two parts of MCRequests side by side.    *)
(***************************************************************************)
EXTENDS MCRequests, PubSubBridge_proofs, DataLemmas

-----------------------------------------------------------------------------
(* The API *)

\* AdminService.listKeys: a page that a cursor can follow has a last key, and the
\* answers are pages.
LEMMA AnswersType ==
  ASSUME ListingTypeOK, NEW param \in Slot \union {NoCursor}, NEW page \in Answers(param)
  PROVE  page \in ListedPage /\ page.at = version
<1> USE ListingAssumption
<1> DEFINE keys == FirstKeys(present)
<1>1. present \subseteq Nat /\ IsFiniteSet(present) /\ version \in 0..MaxEvents
  BY FS_Subset DEF ListingTypeOK
<1>2. keys \subseteq present /\ IsFiniteSet(keys) /\ keys \subseteq Slot
  BY <1>1, FS_Subset DEF FirstKeys, ListingTypeOK
<1>3. ASSUME Cardinality(present) >= PageSize PROVE LastOf(keys) \in Slot
  <2>1. present # {}
    BY <1>3, FS_EmptySet
  <2>2. PICK m \in present : \A n \in present : m <= n
    BY <1>1, <2>1, Extremes
  <2>n. \A n \in present : n \in Nat
    BY <1>1
  <2>3. {j \in present : j <= m} = {m}
    BY <2>2, <2>n
  <2>4. m \in keys
    <3>1. Cardinality({j \in present : j <= m}) = 1
      BY <2>3, FS_Singleton
    <3> QED BY <3>1 DEF FirstKeys
  <2>5. \E k \in keys : \A j \in keys : j <= k
    BY <1>1, <1>2, <2>4, Extremes
  <2> HIDE DEF keys
  <2>6. LastOf(keys) \in keys
    BY <2>5 DEF LastOf
  <2> QED BY <1>2, <2>6
<1> HIDE DEF keys
<1>4. page \in {[ok |-> TRUE, keys |-> keys, cursor |-> NoCursor, param |-> param, at |-> version],
                [ok |-> FALSE, keys |-> {}, cursor |-> NoCursor, param |-> param, at |-> version]}
      \/ /\ Cardinality(present) >= PageSize
         /\ page = [ok |-> TRUE, keys |-> keys, cursor |-> LastOf(keys), param |-> param, at |-> version]
  BY DEF Answers, keys
<1>6. /\ NoCursor \in Slot \union {NoCursor} /\ version \in 0..MaxEvents
      /\ keys \in SUBSET Slot /\ {} \in SUBSET Slot
  BY <1>1, <1>2
<1>7. ASSUME NEW ok \in BOOLEAN, NEW ks \in SUBSET Slot, NEW cursor \in Slot \union {NoCursor}
      PROVE  [ok |-> ok, keys |-> ks, cursor |-> cursor, param |-> param, at |-> version] \in ListedPage
  BY <1>6 DEF ListedPage
<1>8. CASE page = [ok |-> TRUE, keys |-> keys, cursor |-> NoCursor, param |-> param, at |-> version]
  BY <1>6, <1>7, <1>8
<1>9. CASE page = [ok |-> FALSE, keys |-> {}, cursor |-> NoCursor, param |-> param, at |-> version]
  BY <1>6, <1>7, <1>9
<1>10. CASE /\ Cardinality(present) >= PageSize
            /\ page = [ok |-> TRUE, keys |-> keys, cursor |-> LastOf(keys), param |-> param, at |-> version]
  <2>1. LastOf(keys) \in Slot \union {NoCursor}
    BY <1>3, <1>10
  <2> QED BY <1>6, <1>7, <1>10, <2>1
<1> QED BY <1>4, <1>8, <1>9, <1>10

-----------------------------------------------------------------------------
(* The inductive invariant of a listing *)

\* A first load has no data beside it, a next page has room, an idle query no answer.
Loading ==
  /\ fetch.kind = "first" => pages = <<>>
  /\ fetch.kind = "next" => Len(pages) < MaxPages
  /\ fetch.kind = "idle" => fetch.reply = <<>>

\* Read after the newest acknowledged mutation took effect.
IsFresh(ps) == \A i \in 1..Len(ps) : ps[i].at >= acked

\* Unless a refetch was missed: what a fetch has got is fresh, and so is the data, but
\* when it is about to be replaced, or is marked where nobody sees it.
Freshness ==
  ~waived =>
    /\ IsFresh(fetch.got) /\ IsFresh(fetch.reply)
    /\ fetch.kind = "next" \/ (fetch.kind = "idle" /\ (mounted \/ ~old)) => IsFresh(pages)

ListingInv == ListingTypeOK /\ Loading /\ Freshness

Fetches == [kind : {"idle", "first", "again", "next"}, param : Slot \union {NoCursor},
            got : Seq(ListedPage), reply : Seq(ListedPage)]

LEMMA ListingInitInv == ListingInit => ListingInv
<1> SUFFICES ASSUME ListingInit PROVE ListingInv
  OBVIOUS
<1>1. /\ fetch = [kind |-> "idle", param |-> NoCursor, got |-> <<>>, reply |-> <<>>]
      /\ pages = <<>> /\ present \subseteq Slot /\ version = 0 /\ wrote = 0 /\ acked = 0
      /\ write = "none" /\ losses = 0
      /\ mounted = FALSE /\ atEnd = FALSE /\ old = FALSE /\ waived = FALSE
  BY DEF ListingInit, Idle
<1>2. fetch \in Fetches /\ fetch.got = <<>> /\ fetch.reply = <<>> /\ fetch.kind = "idle"
  BY <1>1 DEF Fetches
<1>n. ListingTypeOK
  <2>1. mounted \in BOOLEAN /\ atEnd \in BOOLEAN /\ old \in BOOLEAN /\ waived \in BOOLEAN
    BY <1>1
  <2>2. pages \in Seq(ListedPage) /\ Len(pages) = 0 /\ Len(fetch.reply) = 0
    BY <1>1, <1>2
  <2> QED BY <1>1, <1>2, <2>1, <2>2, ListingAssumption DEF ListingTypeOK, Fetches
<1>3. Loading /\ Freshness
  BY <1>1, <1>2 DEF Loading, Freshness, IsFresh
<1> QED BY <1>n, <1>3 DEF ListingInv

\* A new fetch has got nothing yet.
LEMMA RefetchType ==
  ASSUME Refetch
  PROVE  /\ fetch' \in Fetches /\ fetch'.got = <<>> /\ fetch'.reply = <<>>
         /\ fetch'.kind = IF pages = <<>> THEN "first" ELSE "again"
<1>1. fetch' = [kind |-> IF pages = <<>> THEN "first" ELSE "again", param |-> NoCursor,
                got |-> <<>>, reply |-> <<>>]
  BY DEF Refetch, Idle
<1>2. fetch'.kind \in {"first", "again"}
  BY <1>1
<1>3. <<>> \in Seq(ListedPage)
  OBVIOUS
<1> QED BY <1>1, <1>2, <1>3 DEF Fetches

LEMMA RefetchInv ==
  ASSUME ListingInv, Refetch, UNCHANGED pages, ~waived'
  PROVE  Loading' /\ Freshness'
BY RefetchType DEF Loading, Freshness, IsFresh, ListingInv

LEMMA ServePageInv == ListingInv /\ ServePage => ListingInv'
<1> SUFFICES ASSUME ListingInv, ServePage PROVE ListingInv'
  OBVIOUS
<1>1. fetch \in Fetches /\ UNCHANGED <<server, shown, pages, old, losses, waived>>
  BY DEF ListingInv, ListingTypeOK, ServePage, Fetches
<1>2. PICK page \in Answers(fetch.param) : fetch' = [fetch EXCEPT !.reply = <<page>>]
  BY DEF ServePage
<1>3. page \in ListedPage /\ page.at = version
  BY <1>1, AnswersType DEF ListingInv, Fetches
<1>4. /\ fetch' \in Fetches /\ fetch'.reply = <<page>>
      /\ fetch'.kind = fetch.kind /\ fetch'.got = fetch.got /\ fetch'.param = fetch.param
      /\ fetch.kind # "idle"
  <2>1. fetch' = [kind |-> fetch.kind, param |-> fetch.param, got |-> fetch.got, reply |-> <<page>>]
    BY <1>1, <1>2 DEF Fetches
  <2>2. <<page>> \in Seq(ListedPage) /\ fetch.kind # "idle"
    BY <1>3 DEF ServePage
  <2> QED BY <1>1, <2>1, <2>2 DEF Fetches
<1>5. ListingTypeOK'
  BY <1>1, <1>4 DEF ListingInv, ListingTypeOK, Fetches, server, shown
<1>6. IsFresh(<<page>>)'
  BY <1>1, <1>3 DEF IsFresh, ListingInv, ListingTypeOK, server
<1>7. Loading' /\ Freshness'
  BY <1>1, <1>4, <1>6 DEF ListingInv, Loading, Freshness, IsFresh, server, shown
<1> QED BY <1>5, <1>7 DEF ListingInv

\* Whatever leaves the fetch and the data alone, and neither acknowledges nor shows.
LEMMA QuietListing ==
  ASSUME ListingInv, UNCHANGED <<acked, pages, fetch, old, waived>>,
         present' \subseteq Slot /\ version' \in version..MaxEvents /\ wrote' \in wrote..version',
         write' \in {"none", "sent", "done"}, losses' \in 0..MaxEvents,
         mounted' \in BOOLEAN /\ atEnd' \in BOOLEAN, mounted' => mounted
  PROVE  ListingInv'
<1>1. ListingTypeOK'
  BY ListingAssumption DEF ListingInv, ListingTypeOK
<1>2. Loading' /\ Freshness'
  BY DEF ListingInv, Loading, Freshness, IsFresh
<1> QED BY <1>1, <1>2 DEF ListingInv

LEMMA MountInv == ListingInv /\ Mount => ListingInv'
<1> SUFFICES ASSUME ListingInv, Mount PROVE ListingInv'
  OBVIOUS
<1>1. /\ mounted' = TRUE /\ atEnd' \in BOOLEAN /\ UNCHANGED <<server, pages, old, losses>>
      /\ fetch \in Fetches
  BY DEF Mount, ListingInv, ListingTypeOK, Fetches
<1>2. CASE Refetch
  <2>1. ListingTypeOK'
    <3>1. /\ fetch' \in Fetches /\ fetch'.kind # "next"
          /\ fetch'.got = <<>> /\ fetch'.reply = <<>> /\ waived' = FALSE
      <4>1. waived' = FALSE
        BY <1>2 DEF Refetch
      <4> QED BY <1>2, <4>1, RefetchType
    <3>2. mounted' \in BOOLEAN /\ waived' \in BOOLEAN
      BY <1>1, <3>1
    <3>3. atEnd' \in BOOLEAN /\ UNCHANGED <<server, pages, old, losses>>
      BY <1>1
    <3> QED BY <3>1, <3>2, <3>3 DEF ListingInv, ListingTypeOK, Fetches, server
  <2>2. Loading' /\ Freshness'
    BY <1>1, <1>2, RefetchInv DEF Refetch
  <2> QED BY <2>1, <2>2 DEF ListingInv
<1>3. CASE UNCHANGED <<fetch, waived>> /\ ~(fetch.kind = "idle" /\ (pages = <<>> \/ old))
  <2>1. ListingTypeOK'
    BY <1>1, <1>3 DEF ListingInv, ListingTypeOK, server
  <2>2. Loading' /\ Freshness'
    BY <1>1, <1>3 DEF ListingInv, Loading, Freshness, IsFresh, server
  <2> QED BY <2>1, <2>2 DEF ListingInv
<1> QED BY <1>2, <1>3 DEF Mount

LEMMA AgeInv == ListingInv /\ Age => ListingInv'
<1> SUFFICES ASSUME ListingInv, Age PROVE ListingInv'
  OBVIOUS
<1>1. old' = TRUE /\ UNCHANGED <<server, shown, pages, fetch, losses, waived>>
  BY DEF Age
<1>2. ListingTypeOK'
  BY <1>1 DEF ListingInv, ListingTypeOK, server, shown
<1>3. Loading' /\ Freshness'
  BY <1>1 DEF ListingInv, Loading, Freshness, IsFresh, server, shown
<1> QED BY <1>2, <1>3 DEF ListingInv

LEMMA LoseInv == ListingInv /\ Lose => ListingInv'
<1> SUFFICES ASSUME ListingInv, Lose PROVE ListingInv'
  OBVIOUS
<1>1. /\ losses' = losses + 1 /\ version + losses < MaxEvents /\ waived' = TRUE
      /\ UNCHANGED <<server, shown, pages, old>>
      /\ fetch' = [kind |-> "idle", param |-> NoCursor, got |-> <<>>, reply |-> <<>>]
  BY DEF Lose, Idle
<1>2. fetch' \in Fetches /\ fetch'.kind = "idle" /\ fetch'.got = <<>> /\ fetch'.reply = <<>>
  BY <1>1 DEF Fetches
<1>3. losses' \in 0..MaxEvents
  BY <1>1, ListingAssumption DEF ListingInv, ListingTypeOK
<1>4. ListingTypeOK'
  BY <1>1, <1>2, <1>3 DEF ListingInv, ListingTypeOK, server, shown, Fetches
<1>5. Loading' /\ Freshness'
  BY <1>1, <1>2 DEF Loading, Freshness
<1> QED BY <1>4, <1>5 DEF ListingInv

LEMMA LoadMoreInv == ListingInv /\ LoadMore => ListingInv'
<1> SUFFICES ASSUME ListingInv, LoadMore PROVE ListingInv'
  OBVIOUS
<1> DEFINE param == NextParam(pages[Len(pages)])
<1>1. /\ mounted /\ pages # <<>> /\ param # NoCursor /\ Len(pages) < MaxPages
      /\ waived' = (waived \/ fetch.kind = "again")
      /\ UNCHANGED <<server, shown, pages, old, losses>>
      /\ fetch' = [Idle EXCEPT !.kind = "next", !.param = param]
      /\ fetch.kind # "next"
  BY DEF LoadMore, HasNext
<1>2. param \in Slot
  <2>1. pages \in Seq(ListedPage)
    BY DEF ListingInv, ListingTypeOK
  <2>2. pages[Len(pages)] \in ListedPage
    BY <1>1, <2>1
  <2>3. \A page \in ListedPage : NextParam(page) \in Slot \union {NoCursor}
    BY DEF NextParam, ListedPage
  <2> QED BY <1>1, <2>2, <2>3
<1> HIDE DEF param
<1>3. fetch' = [kind |-> "next", param |-> param, got |-> <<>>, reply |-> <<>>]
  BY <1>1 DEF Idle
<1>4. /\ fetch' \in Fetches /\ fetch'.kind = "next" /\ fetch'.param # NoCursor
      /\ fetch'.got = <<>> /\ fetch'.reply = <<>>
  <2>1. /\ fetch'.kind = "next" /\ fetch'.param = param
        /\ fetch'.got = <<>> /\ fetch'.reply = <<>>
    BY <1>3
  <2>2. <<>> \in Seq(ListedPage)
    OBVIOUS
  <2>3. fetch' \in Fetches
    BY <1>2, <1>3, <2>2 DEF Fetches
  <2> QED BY <1>1, <2>1, <2>3
<1>5. fetch.kind \in {"idle", "first", "again", "next"} /\ waived \in BOOLEAN
  BY DEF ListingInv, ListingTypeOK
<1>6. waived' \in BOOLEAN
  BY <1>1, <1>5, Zenon
<1>7. ListingTypeOK'
  BY <1>1, <1>4, <1>6 DEF ListingInv, ListingTypeOK, server, shown, Fetches
<1>8. ~waived' => fetch.kind = "idle" /\ mounted /\ ~waived
  BY <1>1, <1>5 DEF ListingInv, Loading
<1>9. ~waived' => IsFresh(pages)
  BY <1>8 DEF ListingInv, Freshness
<1>10. Loading' /\ Freshness'
  BY <1>1, <1>4, <1>9 DEF Loading, Freshness, IsFresh, server
<1> QED BY <1>7, <1>10 DEF ListingInv

\* One more page that is fresh.
LEMMA FreshAppend ==
  ASSUME NEW ps \in Seq(ListedPage), NEW page \in ListedPage, IsFresh(ps), page.at >= acked
  PROVE  IsFresh(Append(ps, page))
<1>1. ASSUME NEW i \in 1..Len(Append(ps, page)) PROVE Append(ps, page)[i].at >= acked
  <2>1. CASE i = Len(ps) + 1
    BY <2>1
  <2>2. CASE i \in 1..Len(ps)
    BY <2>2 DEF IsFresh
  <2> QED BY <1>1, <2>1, <2>2
<1> QED BY <1>1 DEF IsFresh

LEMMA ReceivePageInv == ListingInv /\ Receive => ListingInv'
<1> SUFFICES ASSUME ListingInv, Receive PROVE ListingInv'
  OBVIOUS
<1> DEFINE page == fetch.reply[1]
           got  == Append(fetch.got, page)
           more == PagesLeft(got) /\ NextParam(page) # NoCursor
<1>1. /\ fetch \in Fetches /\ pages \in Seq(ListedPage) /\ Len(pages) <= MaxPages
      /\ fetch.got # <<>> => fetch.kind = "again" /\ Len(fetch.got) < Len(pages)
      /\ Loading /\ Freshness
  BY DEF ListingInv, ListingTypeOK, Fetches
<1>2. fetch.reply \in Seq(ListedPage) /\ fetch.got \in Seq(ListedPage) /\ fetch.reply # <<>>
  BY <1>1 DEF Fetches, Receive
<1>3. 1 \in 1..Len(fetch.reply) /\ page \in ListedPage
  BY <1>2
<1>4. got \in Seq(ListedPage) /\ Len(got) = Len(fetch.got) + 1
  BY <1>2, <1>3
<1>5. ~waived => page.at >= acked
  BY <1>1, <1>3 DEF Freshness, IsFresh
<1>6. ~waived => IsFresh(got)
  BY <1>1, <1>2, <1>3, <1>5, FreshAppend DEF Freshness
<1>7. NextParam(page) \in Slot \union {NoCursor}
  BY <1>3 DEF NextParam, ListedPage
<1>u. UNCHANGED <<server, shown, losses, waived>>
  BY DEF Receive
<1>8. CASE more
  <2>1. /\ fetch' = [fetch EXCEPT !.param = NextParam(page), !.got = got, !.reply = <<>>]
        /\ UNCHANGED <<pages, old>>
    BY <1>8 DEF Receive
  <2>2. fetch.kind = "again" /\ Len(got) < Len(pages)
    BY <1>8 DEF PagesLeft
  <2> HIDE DEF page, got
  <2>3. fetch' = [kind |-> fetch.kind, param |-> NextParam(page), got |-> got, reply |-> <<>>]
    BY <1>1, <2>1 DEF Fetches
  <2>4. <<>> \in Seq(ListedPage) /\ fetch.kind \in {"idle", "first", "again", "next"}
    BY <2>2
  <2>5. fetch' \in Fetches
    BY <1>4, <1>7, <2>3, <2>4 DEF Fetches
  <2>6. fetch'.kind = "again" /\ fetch'.got = got /\ fetch'.reply = <<>>
    BY <2>2, <2>3
  <2>7. ListingTypeOK'
    BY <1>u, <2>1, <2>2, <2>5, <2>6 DEF ListingInv, ListingTypeOK, Fetches, server, shown
  <2>8. Loading' /\ Freshness'
    BY <1>6, <1>u, <2>6 DEF Loading, Freshness, IsFresh, server, shown
  <2> QED BY <2>7, <2>8 DEF ListingInv
<1>9. CASE ~more
  <2>1. /\ pages' = IF fetch.kind = "next" THEN Append(pages, page) ELSE got
        /\ fetch' = Idle /\ old' = FALSE
    BY <1>9 DEF Receive
  <2> HIDE DEF page, got
  <2>2. /\ fetch' = [kind |-> "idle", param |-> NoCursor, got |-> <<>>, reply |-> <<>>]
    BY <2>1 DEF Idle
  <2>3. fetch' \in Fetches /\ fetch'.kind = "idle" /\ fetch'.got = <<>> /\ fetch'.reply = <<>>
    BY <2>2 DEF Fetches
  <2>4. pages' \in Seq(ListedPage) /\ Len(pages') <= MaxPages /\ (~waived => IsFresh(pages'))
    <3>1. CASE fetch.kind = "next"
      <4>1. pages' = Append(pages, page) /\ Len(pages) < MaxPages /\ (~waived => IsFresh(pages))
        BY <1>1, <2>1, <3>1 DEF Loading, Freshness
      <4>2. ~waived => IsFresh(Append(pages, page))
        BY <1>1, <1>3, <1>5, <4>1, FreshAppend
      <4> QED BY <1>1, <1>3, <4>1, <4>2, ListingAssumption
    <3>2. CASE fetch.kind # "next"
      <4>1. pages' = got
        BY <2>1, <3>2
      <4>2. Len(got) <= MaxPages
        <5>1. CASE fetch.got = <<>>
          BY <1>4, <5>1, ListingAssumption
        <5>2. CASE fetch.got # <<>>
          BY <1>1, <1>2, <1>4, <5>2, ListingAssumption
        <5> QED BY <5>1, <5>2
      <4> QED BY <1>4, <1>6, <4>1, <4>2
    <3> QED BY <3>1, <3>2
  <2>5. old' \in BOOLEAN
    BY <2>1
  <2>6. ListingTypeOK'
    BY <1>u, <2>3, <2>4, <2>5 DEF ListingInv, ListingTypeOK, Fetches, server, shown
  <2>7. Loading' /\ Freshness'
    BY <1>u, <2>3, <2>4 DEF Loading, Freshness, IsFresh, server, shown
  <2> QED BY <2>6, <2>7 DEF ListingInv
<1> QED BY <1>8, <1>9

LEMMA AcknowledgeInv == ListingInv /\ Acknowledge => ListingInv'
<1> SUFFICES ASSUME ListingInv, Acknowledge PROVE ListingInv'
  OBVIOUS
<1>1. /\ write' = "none" /\ acked' = wrote /\ old' = Mark
      /\ UNCHANGED <<present, version, wrote, shown, pages, losses>>
      /\ fetch \in Fetches
  BY DEF Acknowledge, ListingInv, ListingTypeOK, Fetches
<1>2. old' \in BOOLEAN /\ waived \in BOOLEAN
  BY <1>1 DEF Mark, ListingInv, ListingTypeOK
<1>3. CASE Refetch
  <2>1. fetch' \in Fetches /\ fetch'.kind # "next" /\ fetch'.got = <<>> /\ fetch'.reply = <<>>
    BY <1>3, RefetchType
  <2>2. waived' \in BOOLEAN
    BY <1>3 DEF Refetch
  <2>3. ListingTypeOK'
    BY <1>1, <1>2, <2>1, <2>2 DEF ListingInv, ListingTypeOK, Fetches, shown
  <2>4. Loading' /\ Freshness'
    BY <1>1, <1>3, RefetchInv DEF Refetch
  <2> QED BY <2>3, <2>4 DEF ListingInv
<1>4. CASE /\ ~(mounted /\ (fetch.kind = "idle" \/ pages # <<>>))
           /\ waived' = (waived \/ fetch.kind # "idle") /\ UNCHANGED fetch
  <2>1. waived' \in BOOLEAN
    BY <1>2, <1>4, Zenon
  <2>2. ListingTypeOK'
    BY <1>1, <1>2, <1>4, <2>1 DEF ListingInv, ListingTypeOK, shown
  <2>3. ASSUME ~waived' PROVE fetch.kind = "idle" /\ ~mounted /\ fetch.reply = <<>> /\ fetch.got = <<>>
    BY <1>4, <2>3 DEF ListingInv, ListingTypeOK, Loading
  <2>4. ASSUME ~waived', ~old' PROVE pages = <<>>
    BY <1>1, <2>4 DEF Mark
  <2>5. Loading' /\ Freshness'
    BY <1>1, <1>4, <2>3, <2>4 DEF ListingInv, Loading, Freshness, IsFresh, shown
  <2> QED BY <2>2, <2>5 DEF ListingInv
<1> QED BY <1>3, <1>4 DEF Acknowledge

LEMMA ListingInvNext == ListingInv /\ [ListingNext]_listingVars => ListingInv'
<1> SUFFICES ASSUME ListingInv, [ListingNext]_listingVars PROVE ListingInv'
  OBVIOUS
<1>t. /\ present \subseteq Slot /\ version \in 0..MaxEvents /\ wrote \in 0..version
      /\ write \in {"none", "sent", "done"} /\ losses \in 0..MaxEvents
      /\ mounted \in BOOLEAN /\ atEnd \in BOOLEAN
  BY DEF ListingInv, ListingTypeOK
<1>1. ASSUME NEW keys \in SUBSET Slot, Change(keys)
      PROVE  present' \subseteq Slot /\ version' \in version..MaxEvents /\ version' \in wrote..version'
  BY <1>t, <1>1, ListingAssumption DEF Change
<1>2. CASE OthersChange
  <2>1. present' \subseteq Slot /\ version' \in version..MaxEvents /\ wrote' \in wrote..version'
    <3>1. PICK k \in Slot : Change(present \union {k}) \/ Change(present \ {k})
      BY <1>2 DEF OthersChange
    <3>2. (present \union {k}) \in SUBSET Slot /\ (present \ {k}) \in SUBSET Slot
      BY <1>t
    <3>3. wrote' = wrote /\ wrote \in wrote..version'
      BY <1>t, <1>1, <1>2, <3>1, <3>2 DEF OthersChange
    <3> QED BY <1>1, <3>1, <3>2, <3>3
  <2> QED BY <1>2, <1>t, <2>1, QuietListing DEF OthersChange, shown
<1>3. CASE TakeEffect
  <2>1. present' \subseteq Slot /\ version' \in version..MaxEvents /\ wrote' \in wrote..version'
    BY <1>1, <1>3 DEF TakeEffect
  <2> QED BY <1>3, <1>t, <2>1, QuietListing DEF TakeEffect, shown
<1>n. version \in version..MaxEvents /\ wrote \in wrote..version
  BY <1>t
<1>4. CASE Mutate \/ Reject \/ UNCHANGED listingVars
  BY <1>4, <1>t, <1>n, QuietListing DEF Mutate, Reject, listingVars, shown
<1>5. CASE Unmount \/ Scroll
  <2>1. mounted' \in BOOLEAN /\ (mounted' => mounted)
    BY <1>5, <1>t DEF Unmount, Scroll
  <2>2. atEnd' \in BOOLEAN
    BY <1>5, Zenon DEF Unmount, Scroll
  <2>3. UNCHANGED <<server, pages, old, fetch, losses, waived>>
    BY <1>5 DEF Unmount, Scroll
  <2> QED BY <1>t, <1>n, <2>1, <2>2, <2>3, QuietListing DEF server
<1> QED BY <1>2, <1>3, <1>4, <1>5, ServePageInv, MountInv, AgeInv, ReceivePageInv, LoseInv, LoadMoreInv,
           AcknowledgeInv DEF ListingNext

-----------------------------------------------------------------------------
(* Theorems *)

\* use-keys.ts: the listing's pages, its fetch and the answer on its way stay in their
\* ranges, whatever is changed, cancelled or lost.
THEOREM ListingTypeCorrect == ListingSpec => []ListingTypeOK
<1>1. ListingInv => ListingTypeOK
  BY DEF ListingInv
<1> QED BY ListingInitInv, ListingInvNext, <1>1, PTL DEF ListingSpec

\* use-cache-mutations.ts: a settled listing on the screen holds no page read before
\* the tab's own acknowledged mutation, but for the escapes FreshAfterOwnWrite names.
THEOREM FreshHolds == ListingSpec => []FreshAfterOwnWrite
<1>1. ListingInv => FreshAfterOwnWrite
  BY DEF ListingInv, Freshness, IsFresh, FreshAfterOwnWrite
<1> QED BY ListingInitInv, ListingInvNext, <1>1, PTL DEF ListingSpec

\* Both parts keep their invariants side by side, each while the other stands still.
LEMMA BothParts == RequestsSpec => [](IInv /\ ListingInv)
<1>1. RequestsInit => IInv /\ ListingInv
  BY InitInv, ListingInitInv DEF RequestsInit
<1>2. IInv /\ ListingInv /\ [RequestsNext]_requestVars => (IInv /\ ListingInv)'
  <2> SUFFICES ASSUME IInv, ListingInv, [RequestsNext]_requestVars PROVE IInv' /\ ListingInv'
    OBVIOUS
  <2>1. [Next]_vars /\ [ListingNext]_listingVars
    BY DEF RequestsNext, InBridge, InListing, requestVars
  <2> QED BY <2>1, InvNext, ListingInvNext
<1>3. RequestsSpec => RequestsInit /\ [][RequestsNext]_requestVars
  BY PTL DEF RequestsSpec
<1> QED BY <1>1, <1>2, <1>3, PTL

\* The bridge of pubsub.bridge.service.ts and the listing of use-keys.ts stay in their
\* ranges whichever of the two is under way.
THEOREM RequestsTypeCorrect == RequestsSpec => []RequestsTypeOK
<1>1. IInv /\ ListingInv => RequestsTypeOK
  BY DEF RequestsTypeOK, IInv, ListingInv
<1> QED BY BothParts, <1>1, PTL

\* A settled listing is fresh in every behaviour of the two parts.
THEOREM RequestsFresh == RequestsSpec => []FreshAfterOwnWrite
<1>1. ListingInv => FreshAfterOwnWrite
  BY DEF ListingInv, Freshness, IsFresh, FreshAfterOwnWrite
<1> QED BY BothParts, <1>1, PTL
=============================================================================
