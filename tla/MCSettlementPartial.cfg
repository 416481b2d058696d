SPECIFICATION Spec
CONSTANTS
  Drivers = {d1, d2}
  Values = {v1}
  Unmoved = unmoved
  NumCategories = 2
  MaxRevision = 2
  CommitAttempts = 1
  CompensationAttempts = 1
  Repeats = FALSE
  LateFoldIn = FALSE
  Reopening = FALSE
  Overtaken = FALSE
  PartialPreimage = TRUE
PROPERTY CompensationRestores
CHECK_DEADLOCK FALSE
