SPECIFICATION Spec
CONSTANTS
  Refs <- MCRefs
  Requests <- ElsewhereRequests
  Entries <- MCEntries
  Answers <- ElsewhereAnswers
  Store <- MCStore
  Bucket <- events
  S3Concurrency = 1
INVARIANT
  FoundInThePointersBucket
