CONSTANTS
  Pid = {p1, p2}
  gcc3 = gcc3
  gcc4 = gcc4
  Prefix <- Toolchains
  Usable <- Toolchains
  Passwd = {passwd}
  Libs <- LibsIn
  Tools <- ToolsIn
  Box <- BoxIn
  None = None
  MaxRuns = 2
SPECIFICATION Spec
SYMMETRY Symmetry
INVARIANTS TypeOK OwnContents DoneMeansWhole LeftoversDoNotStop
CHECK_DEADLOCK FALSE
