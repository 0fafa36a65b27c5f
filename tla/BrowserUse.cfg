\* Three callers, one resource and one slot; a holder may miss enough
\* heartbeats to lose its lease. Three loops and three listed jobs at a host
\* that takes one request at a time, one in a tick, with one retry.
CONSTANTS
  Caller = {c1, c2, c3}
  User = {c1, c2, c3}
  Resource = {linkedin}
  NoCaller = NoCaller
  MaxMissed = 2
  Limit = 1
  MaxLogins = 1
  Loop = {l1, l2, l3}
  Listed = 3
  PageOf <- MCPageOf
  MaxConcurrent = 1
  MinInterval = 1
  Retries = 1
SPECIFICATION PoolsSpec
INVARIANTS
  UseTypeOK
  SlotsAddUp
  ExclusiveUntilTwoMisses
PROPERTIES
  NobodyPassesTheLine
  ImplementsExclusion
  DeadHolderFreesResource
  EveryCallEnds
  EveryJobIsSettled
