CONSTANTS
  submit = submit
  cancel = cancel
  w1 = w1
  w2 = w2
  j1 = j1
  j2 = j2
  email = email
  photo = photo
  None = None
  tool = tool
  d1 = d1
  out = out
  err = err
  pack = pack
  Tool = tool
  Descendants = {d1}
  Streams <- MCStreams
  KeptBytes = 1
  MaxWritten = 2
  Submitters <- MCSubmitters
  Claimers = {w1}
  Cancellers <- MCCancellers
  Controllers = {cancel}
  Jobs = {j1, j2}
  Analyses <- MCAnalyses
  Submissions <- MCRequests
  Plans = {pack}
  Admissions <- MCAdmissions
  MaxJobs = 2
  MaxRank = 2
  Quantum = 1
  EmlJobs <- MCEmlJobs
  MaxCrashes = 2
  MaxMisreads = 1
  MaxUnremoved = 0
  MaxSignals = 0
SPECIFICATION MCSpec
PROPERTIES
  EveryJobEnds
  InterruptedRecovered
  RunBounded
CHECK_DEADLOCK FALSE
