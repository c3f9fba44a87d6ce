------------------------------- MODULE OpsSampler -------------------------------
(***************************************************************************)
(* MetricsService: the lookup counters of each prefix, and the one window of *)
(* operations that every GET /metrics, of whichever dashboard or probe,      *)
(* reads and resets.  Date.now is a wall clock: it may be set back.          *)
(***************************************************************************)
EXTENDS Integers, Sums

CONSTANTS
  Prefix,     \* the cache prefixes counted
  Reader,     \* the clients of GET /metrics
  Window,     \* SAMPLE_WINDOW_MS, in ticks of the clock; the ticks of a second
  MaxOps,     \* bound: lookups
  MaxTime     \* bound: the clock

ASSUME SamplerAssumption ==
  /\ Window \in Nat \ {0} /\ MaxOps \in Nat /\ MaxTime \in Nat

VARIABLES
  counters,     \* the Map: [hits, misses] of the prefixes seen so far
  opCount,      \* operations of the window
  windowStart,
  clock,        \* Date.now
  rates,        \* the rates each reader was answered, added up
  shown         \* the newest snapshot of each reader

samplerVars == <<counters, opCount, windowStart, clock, rates, shown>>

-----------------------------------------------------------------------------
Counter == [hits : 0..MaxOps, misses : 0..MaxOps]
LookupsOf(c) == c.hits + c.misses
\* The aggregate totals.
Lookups == SumOf([p \in DOMAIN counters |-> LookupsOf(counters[p])])

Larger(a, b) == IF a > b THEN a ELSE b
\* Math.round of a quotient of naturals.
Rounded(a, b) == (2 * a + b) \div (2 * b)

SamplerTypeOK ==
  /\ \E P \in SUBSET Prefix : counters \in [P -> Counter]
  \* The division of each prefix's hit rate is safe.
  /\ \A p \in DOMAIN counters : LookupsOf(counters[p]) > 0
  /\ opCount \in 0..MaxOps
  /\ windowStart \in 0..MaxTime /\ clock \in 0..MaxTime
  /\ rates \in [Reader -> Nat] /\ shown \in [Reader -> 0..MaxOps]

SamplerInit ==
  /\ counters = <<>> /\ opCount = 0 /\ windowStart = 0 /\ clock = 0
  /\ rates = [r \in Reader |-> 0] /\ shown = [r \in Reader |-> 0]

-----------------------------------------------------------------------------
\* The entry of a prefix, a new one if it has none.
EntryOf(p) == IF p \in DOMAIN counters THEN counters[p] ELSE [hits |-> 0, misses |-> 0]

Bump(p, field) ==
  /\ Lookups < MaxOps
  /\ counters' = [q \in DOMAIN counters \union {p} |->
                    IF q = p THEN [EntryOf(p) EXCEPT ![field] = @ + 1] ELSE counters[q]]
  /\ opCount' = opCount + 1
  /\ UNCHANGED <<windowStart, clock, rates, shown>>

RecordHit(p)  == Bump(p, "hits")
RecordMiss(p) == Bump(p, "misses")

\* Mutant: over the time elapsed, however short.
BugRawElapsed == Rounded(opCount * Window, Larger(clock - windowStart, 1))

\* instantaneousOpsPerSec: over no less than a second, also when the clock has
\* been set back behind the start of the window.
RateNow ==
  LET elapsed == Larger(clock - windowStart, 1) IN
  Rounded(opCount * Window, Larger(elapsed, Window))

Snapshot(r) ==
  /\ rates' = [rates EXCEPT ![r] = @ + RateNow]
  /\ shown' = [shown EXCEPT ![r] = Lookups]
  /\ opCount' = 0 /\ windowStart' = clock
  /\ UNCHANGED <<counters, clock>>

ClockMoves ==
  /\ clock' \in {clock + 1, clock - 1} \intersect 0..MaxTime
  /\ UNCHANGED <<counters, opCount, windowStart, rates, shown>>

SamplerNext ==
  \/ \E p \in Prefix : RecordHit(p) \/ RecordMiss(p)
  \/ \E r \in Reader : Snapshot(r)
  \/ ClockMoves

SamplerSpec == SamplerInit /\ [][SamplerNext]_samplerVars

-----------------------------------------------------------------------------
\* metrics.service.ts, snapshot: readers share one window and reset it under each
\* other, yet no lookup is in the rates of two of them, and no rate is inflated by
\* a short window or by a clock that was set back: the rates told to all readers,
\* with what is still in the window, never exceed the lookups there were.
RatesAddUp == SumOf(rates) + opCount <= Lookups
=============================================================================
