------------------------------ MODULE MCExplorer ------------------------------
(* Small instances for TLC of the API's multi-key requests, of the filters above  *)
(* the listing that shows them (for the listing see MCRequests), and of the       *)
(* Overview's series with the rate sampler behind them.  A behaviour is of one of *)
(* the four; the others stand still.                                             *)
EXTENDS Keyspace, ExplorerFilters, MetricSeries, OpsSampler, TLC

CONSTANTS c1, k1, k2, k3, t1, t2

OneCaller == {c1}
ThreeKeys == {k1, k2, k3}
Strings == {k1, k3}
TwoTenants == {t1, t2}
OwnerOf == k1 :> t1 @@ k2 :> t1 @@ k3 :> t2

\* One product without a tenant, one of each tenant, and a key with an empty segment.
Products == {<<"product", "1">>, <<"tenant", "acme", "product", "1">>,
             <<"tenant", "globex", "product", "1">>, <<"tenant", "acme", "", "1">>}

\* The range presets are alike.
Ranges == Permutations(Span)

VARIABLE scene
explorerVars == <<vars, filterVars, seriesVars, samplerVars, scene>>

ExplorerInit ==
  /\ scene \in {"api", "filters", "series", "sampler"}
  /\ Init /\ FilterInit /\ SeriesInit /\ SamplerInit

ExplorerNext ==
  /\ UNCHANGED scene
  /\ \/ scene = "api" /\ Next /\ UNCHANGED <<filterVars, seriesVars, samplerVars>>
     \/ scene = "filters" /\ FilterNext /\ UNCHANGED <<vars, seriesVars, samplerVars>>
     \/ scene = "series" /\ SeriesNext /\ UNCHANGED <<vars, filterVars, samplerVars>>
     \/ scene = "sampler" /\ SamplerNext /\ UNCHANGED <<vars, filterVars, seriesVars>>

ExplorerSpec == ExplorerInit /\ [][ExplorerNext]_explorerVars

\* The states of the part under way stay in their ranges.
ExplorerTypeOK ==
  /\ scene = "api" => TypeOK
  /\ scene = "filters" => FilterTypeOK
  /\ scene = "series" => SeriesTypeOK
  /\ scene = "sampler" => SamplerTypeOK

\* use-metric-series.ts, metrics.service.ts: no number of the Overview counts a
\* lookup or a command twice, neither the buckets of its series nor the rates that
\* it and every other reader of the snapshot are told.
NothingCountedTwice == SeriesNeverOvercounts /\ RatesAddUp
=============================================================================
