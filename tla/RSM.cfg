SPECIFICATION LiveSpec
CONSTANTS
  Caller = {c1, c2}
  Other = other
  ChannelSize = 1
  MaxTerm = 3
  MaxLog = 2
INVARIANTS
  TypeOK
  AnswerIsOwn
  ErrorMeansDeposed
  NoOtherLostWakeup
PROPERTIES
  SubmitReturns
  CommittedIsApplied
CHECK_DEADLOCK FALSE
