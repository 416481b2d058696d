SPECIFICATION FairSpec
CONSTANTS
  Drivers = {d1, d2}
  Values = {v1, v2}
  Unmoved = unmoved
  NumCategories = 2
  MaxRevision = 2
  CommitAttempts = 2
  CompensationAttempts = 2
  Repeats = TRUE
  LateFoldIn = TRUE
  Reopening = TRUE
  Overtaken = TRUE
  PartialPreimage = FALSE
PROPERTIES CompensationRestores RunEnds
CHECK_DEADLOCK FALSE
