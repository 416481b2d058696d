SPECIFICATION Spec
CONSTANTS
  Drivers = {d1}
  Values = {v1, v2}
  Unmoved = unmoved
  NumCategories = 1
  MaxRevision = 3
  CommitAttempts = 1
  CompensationAttempts = 1
  Repeats = FALSE
  LateFoldIn = FALSE
  Reopening = TRUE
  Overtaken = TRUE
  PartialPreimage = FALSE
INVARIANT SurfacesAgree
CHECK_DEADLOCK FALSE
