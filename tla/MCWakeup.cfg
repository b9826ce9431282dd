SPECIFICATION FairSpec
CONSTANTS
  SubmitCapacity = 2
  AnswerCapacity = 1
  MaxSubmits = 4
INVARIANTS NoLostWakeup DoorbellSpentOnce
PROPERTIES EverySubmissionTaken StopIsHeard
