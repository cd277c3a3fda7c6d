CONSTANTS
  submit = submit
  cancel = cancel
  w1 = w1
  w2 = w2
  j1 = j1
  j2 = j2
  email = email
  photo = photo
  None = None
  Submitters <- MCSubmitters
  Claimers = {w1}
  Cancellers = {}
  Controllers = {}
  Jobs <- MCJobs
  Analyses <- MCAnalyses
  Submissions <- MCSubmissions
  Plans = {}
  Admissions = {}
  MaxJobs = 2
  MaxRank = 1
  Quantum = 1
  EmlJobs <- MCEmlJobs
  MaxCrashes = 1
  MaxMisreads = 0
  MaxUnremoved = 0
  MaxSignals = 1
SPECIFICATION Spec
INVARIANT RestartSettles
