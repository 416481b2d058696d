SPECIFICATION Spec
CONSTANTS
  Drivers = {d1}
  Values = {v1}
  Unmoved = unmoved
  NumCategories = 1
  MaxRevision = 2
  CommitAttempts = 1
  CompensationAttempts = 1
  Repeats = FALSE
  LateFoldIn = FALSE
  Reopening = FALSE
  Overtaken = FALSE
  PartialPreimage = FALSE
INVARIANT ReservedOnlyStaged
CHECK_DEADLOCK FALSE
