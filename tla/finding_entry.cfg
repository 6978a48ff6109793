CONSTANTS
  Process = {s1}
  Tarball = {}
  MaxRuns = 1
  User = {fred}
  Root = 0
  Peon = 1000
  TarUser = {fred}
  TarHome = {}
  Hosts <- TwoHosts
  Host = host
  Dir = dir
  None = None
SPECIFICATION SystemSpec
INVARIANT EntryIsReal
CHECK_DEADLOCK FALSE
