SPECIFICATION Spec
CONSTANTS
  Drivers = {"heads", "rate", "other"}
  Published = {"rate"}
  Unbound = {"other"}
  PerDriver = 2
  MaxConcurrent = 2
  Cap = 3
INVARIANT SignalsKept
CHECK_DEADLOCK FALSE
