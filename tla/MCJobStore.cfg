CONSTANTS
  submit1 = submit1
  submit2 = submit2
  work = work
  cancel = cancel
  control = control
  j1 = j1
  j2 = j2
  j3 = j3
  email = email
  photo = photo
  p1 = p1
  None = None
  Submitters <- MCSubmitters
  Claimers <- MCClaimers
  Cancellers <- MCCancellers
  Controllers <- MCControllers
  Jobs <- MCJobs
  Analyses <- MCAnalyses
  Submissions <- MCSubmissions
  Plans <- MCPlans
  Admissions <- MCAdmissions
  MaxJobs = 2
  MaxRank = 2
  Quantum = 2
SPECIFICATION MCSpec
INVARIANTS
  StoreIInv
  OneLiveAttempt
  BudgetBound
  BudgetLedger
  DependencyFirst
  PlanWhole
  JournalAgrees
PROPERTIES
  ClosedAttemptsKept
  TerminalKept
  LeaseRefined
