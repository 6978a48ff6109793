CONSTANTS
  Name = {n1, n2}
  Home = {h}
  Shell = {s}
  Password = {w}
  Id = {1002}
  FileName = {f}
  NULL = NULL
  Old = old
SPECIFICATION Spec
INVARIANTS TypeOK RefusalTouchesNothing ExactlyOneLine FailureOutcome
CHECK_DEADLOCK FALSE
