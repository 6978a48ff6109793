CONSTANTS
  Process = {p}
  Tarball = {"busybox"}
  MaxRuns = 2
SPECIFICATION Spec
INVARIANTS TypeOK AtMostOneProc DoneMeansComplete RetryWorks
CHECK_DEADLOCK FALSE
