CONSTANTS
  submit = submit
  cancel = cancel
  w1 = w1
  w2 = w2
  j1 = j1
  j2 = j2
  email = email
  photo = photo
  None = None
  Submitters <- MCSubmitters
  Claimers <- MCClaimers
  Cancellers <- MCCancellers
  Controllers = {}
  Jobs <- MCJobs
  Analyses <- MCAnalyses
  Submissions <- MCSubmissions
  Plans = {}
  Admissions = {}
  MaxJobs = 2
  MaxRank = 2
  Quantum = 1
  EmlJobs <- MCEmlJobs
  MaxCrashes = 1
  MaxMisreads = 0
  MaxUnremoved = 1
  MaxSignals = 1
SPECIFICATION MishapSpec
SYMMETRY WorkerSymmetry
INVARIANTS
  WorkerIInv
  WorkerOwnsItsJob
  CompletedIsPublished
  NoSecondExtraction
  NoLitter
