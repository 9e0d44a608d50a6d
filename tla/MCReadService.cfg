SPECIFICATION FairSpec
CONSTANTS
  Refs <- MCRefs
  Requests <- MCRequests
  Entries <- MCEntries
  Answers <- MCAnswers
  Store <- MCStore
  Buckets <- MCBuckets
  RefSlots = 2
  FetchSlots = 2
INVARIANTS
  TypeOK
  SemaphoresCountGoroutines
  ResponseHoldsWhatWasRead
  LossIsCounted
  FoundInTheNamedBucket
  CountersAgree
  CrashOnlyByBackwardsRange
PROPERTY
  QueryIsAnswered
