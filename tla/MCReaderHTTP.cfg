SPECIFICATION Spec
CONSTANTS
  Requests <- MCRequests
  Index <- MCIndex
  Y10K = 9
  MaxClock = 3
INVARIANTS
  AnswersWhatIsAsked
  TimedOutFetchIsNeverSeen
