SPECIFICATION Spec
CONSTANTS
  Lines <- MCLines
  CellOf <- MCCellOf
  AccountOf <- MCAccountOf
  Scenarios <- MCScenarios
  Months <- MCMonths
  Shocks = {"heads", "utilisation"}
  Bindings <- MCBindings
  Dags <- MCDags
  TargetSize = 2
  BatchSize = 2
  MaxConcurrent = 2
  MaxAttempts = 2
  MaxChildRuns = 2
  Threads = {t1, t2}
  NoThread = NoThread
  MaxRuns = 2
  MaxEdits = 1
SYMMETRY ThreadSymmetry
INVARIANTS TypeOK CountedIsWritten PlanIsPartition ParkedIsComputed
CHECK_DEADLOCK FALSE
