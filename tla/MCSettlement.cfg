SPECIFICATION Spec
CONSTANTS
  Drivers = {d1, d2}
  Values = {v1}
  Unmoved = unmoved
  NumCategories = 2
  MaxRevision = 3
  CommitAttempts = 2
  CompensationAttempts = 2
  Repeats = FALSE
  LateFoldIn = FALSE
  Reopening = FALSE
  Overtaken = FALSE
  PartialPreimage = FALSE
SYMMETRY Symmetry
INVARIANTS TypeOK PublishedOnlyLocked NothingStranded NeverUnfunded NeverSilentlyPublished SurfacesAgree
CHECK_DEADLOCK FALSE
