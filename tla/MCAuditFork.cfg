SPECIFICATION ChainSpec
CONSTANTS
  Sessions = {s1, s2}
  Facts = {f1, f2, f3}
  MaxEvents = 3
SYMMETRY Symmetry
INVARIANT NoFork
CHECK_DEADLOCK FALSE
