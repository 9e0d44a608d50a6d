SPECIFICATION Spec
CONSTANTS
  Refs <- MCRefs
  Requests <- PairRequests
  Entries <- MCEntries
  Answers <- PairAnswers
  Store <- MCStore
  Bucket <- events
  S3Concurrency = 1
INVARIANT
  AtMostS3ConcurrencyInFlight
