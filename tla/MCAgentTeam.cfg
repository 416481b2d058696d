SPECIFICATION Spec
CONSTANTS
  f1 = f1
  f2 = f2
  asker = asker
  controller = controller
  cfo = cfo
  d1 = d1
  d2 = d2
  Users <- MCUsers
  Approvers <- MCUsers
  Asker = asker
  Companies = {pl}
  Proposals <- MCProposals
  RunOf <- MCRunOf
  Requests <- MCRequests
  Figures <- MCFigures
  CallLimit = 1
  MaxRevocations = 1
  None = None
SYMMETRY Symmetry
INVARIANTS TypeOK AnswersAreBacked
PROPERTY ImplementsApproval
CHECK_DEADLOCK FALSE
