SPECIFICATION Spec
CONSTANTS
  i1 = i1
  i2 = i2
  h1 = h1
  h2 = h2
  e1 = e1
  j1 = j1
  t1 = t1
  t2 = t2
  None = None
  Issues = {i1, i2}
  Jobs = {j1}
  Hosts = {h1, h2}
  Epics = {e1}
  EpicOf <- OneEpic
  Tokens = {t1, t2}
  MaxAgents = 2
  MaxJobs = 1
  EpicCap = 2
  HostCap <- OneEach
CONSTRAINT Bound
SYMMETRY Symmetry
INVARIANTS
  TypeOK
  WithinCaps
  WorkIsLeased
  LaunchKeepsItsLease
  FencedReplays
PROPERTIES
  FencedRemovals
