------------------------------ MODULE MetricSeries ------------------------------
(***************************************************************************)
(* The Overview's time series: the API's in-process lookup counters          *)
(* (MetricsService), the polls of them (useMetrics, one query per range) and *)
(* of INFO (useInfo), and the deltas that useMetricSeries takes of both.     *)
(* Both counters restart at zero, with the API process and with Redis.       *)
(***************************************************************************)
EXTENDS Integers, Sequences, Sums

CONSTANTS
  Span,         \* the range presets, each with a query of its own
  MaxBuckets,   \* MAX_BUCKETS
  MaxWork,      \* bound: reads
  MaxRestarts   \* bound: restarts of the API or of Redis

ASSUME SeriesAssumption ==
  /\ MaxBuckets \in Nat \ {0}
  /\ MaxWork \in Nat /\ MaxRestarts \in Nat

VARIABLES
  hits,      \* counted since the API started
  reads,     \* read commands, counted since Redis started
  work,      \* history: all reads there ever were
  restarts,
  snaps,     \* the cached metrics of each range
  polls,     \* their answers under way
  info,      \* the cached INFO
  range,     \* the range shown; "none" while the Overview is not
  prev,      \* prevRef
  buckets,
  base,      \* history: the work there was at the snapshots of its baseline
  blind      \* history: did the series take a tick without INFO?

seriesVars ==
  <<hits, reads, work, restarts, snaps, polls, info, range, prev, buckets, base, blind>>
sources == <<hits, reads, work, restarts>>
queries == <<snaps, polls, info>>
series  == <<prev, buckets, base, blind>>

-----------------------------------------------------------------------------
\* A counter as it was read, and how much work there had been by then.
Reading == [count : 0..MaxWork, at : 0..MaxWork]
NoData  == [count |-> -1, at |-> -1]   \* not loaded, or an error answer
Bucket  == [hit : 0..MaxWork, get : 0..MaxWork]
Pair    == [hits : 0..MaxWork, reads : 0..MaxWork]
NoPair  == [hits |-> -1, reads |-> -1]

SeriesTypeOK ==
  /\ work \in 0..MaxWork /\ hits \in 0..work /\ reads \in 0..work
  /\ restarts \in 0..MaxRestarts
  /\ snaps \in [Span -> Reading \union {NoData}]
  /\ polls \in [Span -> Seq(Reading \union {NoData})]
  /\ \A r \in Span : Len(polls[r]) <= 1
  /\ info \in Reading \union {NoData}
  /\ range \in Span \union {"none"}
  /\ prev \in Pair \union {NoPair} /\ base \in Pair \union {NoPair}
  /\ buckets \in Seq(Bucket) /\ Len(buckets) <= MaxBuckets
  /\ blind \in BOOLEAN

SeriesInit ==
  /\ hits = 0 /\ reads = 0 /\ work = 0 /\ restarts = 0
  /\ snaps = [r \in Span |-> NoData] /\ polls = [r \in Span |-> <<>>] /\ info = NoData
  /\ range = "none"
  /\ prev = NoPair /\ buckets = <<>> /\ base = NoPair /\ blind = FALSE

-----------------------------------------------------------------------------
(* The counters *)

\* A lookup that hits: recordHit, and one read command.
Lookup ==
  /\ work < MaxWork
  /\ hits' = hits + 1 /\ reads' = reads + 1 /\ work' = work + 1
  /\ UNCHANGED <<restarts, queries, range, series>>

RestartApi ==
  /\ restarts < MaxRestarts /\ hits > 0
  /\ restarts' = restarts + 1 /\ hits' = 0
  /\ UNCHANGED <<reads, work, queries, range, series>>

RestartRedis ==
  /\ restarts < MaxRestarts /\ reads > 0
  /\ restarts' = restarts + 1 /\ reads' = 0
  /\ UNCHANGED <<hits, work, queries, range, series>>

-----------------------------------------------------------------------------
(* useMetricSeries *)

\* Growth since the last tick; a counter that restarted has grown by nothing.
Growth(now, before) == IF now > before THEN now - before ELSE 0

\* Without INFO every command count reads as zero.
CallsOf(i) == IF i = NoData THEN 0 ELSE i.count
AtOf(i)    == IF i = NoData THEN 0 ELSE i.at

\* The newest MaxBuckets.
Trimmed(all) == IF Len(all) > MaxBuckets THEN Tail(all) ELSE all

\* The tick effect, with the baseline `p' and the series `bs' it finds: the
\* first tick seeds the baseline, the others append a bucket.
TickWith(p, bs, b, bl, snap) ==
  LET next == [hits |-> snap.count, reads |-> CallsOf(info)]
  IN  /\ prev' = next
      /\ base' = IF b = NoPair THEN [hits |-> snap.at, reads |-> AtOf(info)]
                 ELSE b
      /\ blind' = (bl \/ info = NoData)
      /\ buckets' = IF p = NoPair THEN bs
                    ELSE LET bucket == [hit |-> Growth(next.hits, p.hits),
                                        get |-> Growth(next.reads, p.reads)]
                         IN  Trimmed(Append(bs, bucket))

\* Mutant: the reset forgets the buckets but keeps the baseline.
BugBaselineKept == prev

\* prevRef after a reset.
BaselineAfterReset == NoPair

-----------------------------------------------------------------------------
(* The Overview *)

\* The range is chosen, or the page opened: the reset effect runs, and after it,
\* in the same commit, the tick effect on whatever that range has cached.
ShowRange(r) ==
  /\ range # r
  /\ range' = r
  /\ IF snaps[r] # NoData THEN TickWith(BaselineAfterReset, <<>>, NoPair, FALSE, snaps[r])
     ELSE /\ prev' = BaselineAfterReset /\ buckets' = <<>>
          /\ base' = NoPair /\ blind' = FALSE
  /\ UNCHANGED <<sources, queries>>

LeaveOverview ==
  /\ range # "none"
  /\ range' = "none"
  /\ prev' = NoPair /\ buckets' = <<>> /\ base' = NoPair /\ blind' = FALSE
  /\ UNCHANGED <<sources, queries>>

\* The API answers a poll of the range that is shown: a snapshot, or an error.
ServeMetrics(r) ==
  /\ range = r /\ polls[r] = <<>>
  /\ \E answer \in {[count |-> hits, at |-> work], NoData} : polls' = [polls EXCEPT ![r] = <<answer>>]
  /\ UNCHANGED <<sources, snaps, info, range, series>>

\* The answer arrives, perhaps after the range was left; only the range that is
\* shown ticks, and only on a snapshot.
ShowMetrics(r) ==
  /\ polls[r] # <<>>
  /\ polls' = [polls EXCEPT ![r] = <<>>]
  /\ snaps' = [snaps EXCEPT ![r] = polls[r][1]]
  /\ IF range = r /\ polls[r][1] # NoData THEN TickWith(prev, buckets, base, blind, polls[r][1])
     ELSE UNCHANGED series
  /\ UNCHANGED <<sources, info, range>>

\* A poll is lost in the network, or cancelled by a flush: no tick.
LoseMetrics(r) ==
  /\ polls[r] # <<>>
  /\ polls' = [polls EXCEPT ![r] = <<>>]
  /\ UNCHANGED <<sources, snaps, info, range, series>>

\* A poll of INFO, answered or failed.
PollInfo ==
  /\ range # "none"
  /\ info' \in {[count |-> reads, at |-> work], NoData} \ {info}
  /\ UNCHANGED <<sources, snaps, polls, range, series>>

SeriesNext ==
  \/ Lookup \/ RestartApi \/ RestartRedis
  \/ LeaveOverview \/ PollInfo
  \/ \E r \in Span : ShowRange(r) \/ ServeMetrics(r) \/ ShowMetrics(r) \/ LoseMetrics(r)

SeriesSpec == SeriesInit /\ [][SeriesNext]_seriesVars

-----------------------------------------------------------------------------
(* Properties *)

Total(field) == SumOf([i \in DOMAIN buckets |-> buckets[i][field]])

\* use-metric-series.ts, "the first tick only seeds the baseline": what a chart
\* shows was all done after the snapshot its series began with; nothing of another
\* range's series, of an earlier visit or of a counter's previous life is counted
\* into it.  Exactly the commands of a series that ticked while INFO was not there
\* escape: missing counts read as zero, so the next tick shows all there ever were.
SeriesNeverOvercounts ==
  base # NoPair =>
    /\ Total("hit") <= work - base.hits
    /\ ~blind => Total("get") <= work - base.reads
=============================================================================
