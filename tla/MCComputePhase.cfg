SPECIFICATION FairSpec
CONSTANTS
  Drivers = {"heads", "rate", "other"}
  Published = {"rate"}
  Unbound = {"other"}
  PerDriver = 2
  MaxConcurrent = 2
  Cap = 3
INVARIANTS TypeOK ParkedIsWhole CancelLeavesNothing HistoryIsBounded
PROPERTY RunsToTheGate
CHECK_DEADLOCK FALSE
