\* Locks of 3 and 1 ticks against an origin of 2, two faults, one foreign write.
CONSTANTS
  a1 = a1  a2 = a2  a3 = a3  c1 = c1
  None = None
  Contender <- ThreeContenders
  Burst <- TwoBursts
  BurstOf <- InTwoBursts
  LockTicks <- Lock31
  OriginTicks = 2
  PollTicks = 1
  Slack = 0
  MaxFaults = 2
  MaxMeddling = 1
SPECIFICATION FairSpec
INVARIANTS
  BoundedWait
PROPERTIES
  NoForeignRelease
  OrphanLockLapses
  EveryBurstAnswered
