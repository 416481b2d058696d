SPECIFICATION Spec
CONSTANTS
  planner = planner
  cfo = cfo
  Sessions = {s1, s2}
  Users = {planner, cfo}
  Roles <- SeededRoles
  Service = service
  Rates = {r1}
  NoSession = nosession
  NoUser = nouser
  NoRate = norate
  MaxEvents = 4
SYMMETRY Symmetry
INVARIANTS TypeOK AgreedIsReviewed LogAgrees HonestLogVerifies LocksInOrder
PROPERTIES NoLostUpdate LockedIsFinal
CHECK_DEADLOCK FALSE
