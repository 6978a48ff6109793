CONSTANTS
  fred = fred
  ann = ann
  h1 = h1
  h2 = h2
  j1 = j1
  j2 = j2
  Session = {s1}
  User = {fred, ann}
  Uid = {0, 1, 2}
  Root = 0
  Jail = {j1}
  Host = host
  Home = {h1, h2}
  Shell = {"chrootshell", "sh", "bare", "other"}
  Slashed = {"chrootshell", "sh", "other"}
  None = None
  HostLine <- HostLines
  JailView <- JailViews
  Call <- Calls
  MaxEnv = 5
  MaxEdits = 1
SPECIFICATION FairSpec
INVARIANTS TypeOK ShellIsConfined DocumentedAborts EnvAgreesWithShell ArgvFits
PROPERTY ValidLoginSucceeds
CHECK_DEADLOCK FALSE
