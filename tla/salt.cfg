CONSTANTS
  Time <- Times
  Pid <- Pids
  Word = {w}
  MaxLines = 2
SPECIFICATION Spec
INVARIANTS TypeOK SaltsDiffer
CHECK_DEADLOCK FALSE
