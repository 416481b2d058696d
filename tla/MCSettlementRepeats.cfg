SPECIFICATION Spec
CONSTANTS
  Drivers = {d1}
  Values = {v1}
  Unmoved = unmoved
  NumCategories = 1
  MaxRevision = 3
  CommitAttempts = 1
  CompensationAttempts = 1
  Repeats = TRUE
  LateFoldIn = FALSE
  Reopening = FALSE
  Overtaken = FALSE
  PartialPreimage = FALSE
INVARIANT NeverUnfunded
CHECK_DEADLOCK FALSE
