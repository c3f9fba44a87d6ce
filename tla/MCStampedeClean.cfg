\* Two overlapping bursts whose locks outlive the fetch by the least margin,
\* steps at most one tick late, no faults, fairness.
CONSTANTS
  a1 = a1  a2 = a2  a3 = a3  c1 = c1
  None = None
  Contender <- ThreeContenders
  Burst <- TwoBursts
  BurstOf <- InTwoBursts
  LockTicks <- Lock77
  OriginTicks = 2
  PollTicks = 1
  Slack = 1
  MaxFaults = 0
  MaxMeddling = 0
SPECIFICATION FairSpec
INVARIANTS
  SingleFlight
PROPERTIES
  FlightSpec
