\* One burst of three with a lock that outlives the fetch; one command throws.
CONSTANTS
  a1 = a1  a2 = a2  a3 = a3  c1 = c1
  None = None
  Contender <- BurstOfThree
  Burst <- OneBurst
  BurstOf <- InOneBurst
  LockTicks <- Lock7
  OriginTicks = 2
  PollTicks = 1
  Slack = 1
  MaxFaults = 1
  MaxMeddling = 0
SPECIFICATION Spec
SYMMETRY Permute3
INVARIANTS
  NotEveryLoserFetches
