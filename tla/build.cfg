CONSTANTS
  Name = {"root", "peon"}
  Home = {"/root", "/home/peon"}
  Shell = {"/bin/sh"}
  Password = {"", "peon"}
  Id = {0, 1002}
  FileName = {}
  NULL = NULL
  Lost = lost
  Jobs <- OneAndThree
  MaxFaults <- TwoFaultsAtMost
SPECIFICATION Spec
INVARIANTS TypeOK PasswdNeverTorn TornIsNotPacked BuiltByPresentTool AccountsAgree
CHECK_DEADLOCK FALSE
