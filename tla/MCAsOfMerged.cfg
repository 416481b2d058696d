SPECIFICATION Spec
CONSTANTS
  Keys <- MCKeys
  KeyInfo <- MCKeyInfo
  Companies = {"pl", "de"}
  Current = Current
  Scale = 60
  Users = {"analyst", "controller", "agent"}
  UserInfo <- MCUserInfo
  Posted <- Posted1
  Restatable <- MCRestatable
  Trued <- MCTrued
  BridgeQueries <- MCBridgeQueries
  Questions <- MCQuestions
  Scenarios <- MCScenarios
  Staged <- MCStaged
  Instants = {0, 1}
  AdHoc = {"r1"}
  MaxMerges = 1
  Materiality = 3000
  NoRun = NoRun
  NoUser = NoUser
INVARIANT AsOfStands
CHECK_DEADLOCK FALSE
