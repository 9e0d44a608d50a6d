SPECIFICATION FairSpec
CONSTANTS
  Reqs = {r1, r2}
  NumAddrs = 2
INVARIANTS
  TypeOK
  RingMatchesPool
  HandlersFinish
PROPERTIES
  HealthyShardsServe
  SignalEnds
