CONSTANTS
  Process = {s1}
  Tarball = {}
  MaxRuns = 2
  User = {fred}
  Root = 0
  Peon = 1000
  TarUser = {fred}
  TarHome = {"mapped"}
  Hosts <- BusyboxHosts
  Host = host
  Dir = dir
  None = None
SPECIFICATION FairSystemSpec
INVARIANTS WholeJailAdmits LoginsConfined
CHECK_DEADLOCK FALSE
PROPERTY AdmittedAtLast
