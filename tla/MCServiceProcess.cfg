SPECIFICATION ProcessFairSpec
CONSTANTS
  Buckets = {b1, b2}
  Reqs = {q1, q2}
  MaxQueueSize = 1
  Shards = {s1, s2, s3}
INVARIANTS
  ClientsCompleteWhenServing
  AnsweredIsExported
  SendersNeverBlock
  ErrorNamesTheUnhealthy
PROPERTIES
  StartGoesOn
  StopEnds
