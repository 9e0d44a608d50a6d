SPECIFICATION FairSpec
CONSTANTS
  Refs <- MCRefs
  Requests <- MCRequests
  Entries <- MCEntries
  Answers <- MCAnswers
  Store <- MCStore
  Bucket <- events
  S3Concurrency = 2
INVARIANTS
  TypeOK
  ReplyListsWhatWasFound
  SemaphoreCountsCalls
  MetricsAddUp
  LossOnlyByFault
PROPERTIES
  StableOnceRead
  GoneClientIsReleased
  AnsweredQueryReplies
  ImplementsBestEffortRead
