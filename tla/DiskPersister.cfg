SPECIFICATION Spec
CONSTANTS
  MaxVersion = 6
  MaxIncluded = 3
  MaxFailures = 2
INVARIANTS
  TypeOK
  AlwaysReadable
  PromisesSurvive
  NeverAhead
CHECK_DEADLOCK FALSE
