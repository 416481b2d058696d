SPECIFICATION Spec
CONSTANTS
  Metrics <- MCMetrics
  Numbers = {"1", "2"}
  UpperCase <- MCUpperCase
  Roles <- MCRoles
  Users <- MCUsers
  Codes <- MCCodes
  Seeded <- MCSeeded
  Formulas <- MCFormulas
  Libraries <- MCLibraries
  MaxSaves = 3
  NoUser = NoUser
  NoRow = NoRow
  NoVersion = NoVersion
  NoRequest = NoRequest
INVARIANT DagIsTheFormulas
CHECK_DEADLOCK FALSE
