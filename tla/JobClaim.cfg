SPECIFICATION Spec
CONSTANTS
  m1 = m1
  m2 = m2
  j1 = j1
  c1 = c1
  c2 = c2
  r1 = r1
  r2 = r2
  NoMiner = NoMiner
  NoConfig = NoConfig
  NoJob = NoJob
  RaceLimit = 3
  Miners <- MCMiners
  Jobs <- MCJobs
  Configs <- MCConfigs
  Requests <- MCRequests
SYMMETRY MCSymmetry
INVARIANTS TypeOK AssignmentCoherent VerifiedMeansStarted HistoryCountsConfigs
PROPERTIES NoDirectTakeover AssignedInTurn
CHECK_DEADLOCK FALSE
