CONSTANTS
  busybox = busybox
  e2fsprogs = e2fsprogs
  etHeader = etHeader
  header = header
  program = program
  libc = libc
  loader = loader
  Library = {libc, loader}
  Dropped = {loader}
  Package <- Packages
  Rank <- RuleOrder
  Path <- Paths
  Has <- Contents
  Name <- BaseName
  Elf = {program}
  None = None
  Jobs = 2
  MaxFaults = 2
  MaxEdits = 1
SPECIFICATION Spec
INVARIANTS TypeOK ImageIsCurrent LibsFit InterruptsAreSafe
CHECK_DEADLOCK FALSE
