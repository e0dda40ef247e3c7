SPECIFICATION LiveSpec
CONSTANTS
  Client = {k1, k2}
  Free = Free
  MaxVersion = 3
INVARIANTS TypeOK AnswersTrue
PROPERTIES ImplementsMutex LockProgress
CHECK_DEADLOCK FALSE
