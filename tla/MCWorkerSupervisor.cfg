CONSTANTS
  h1 = h1
  h2 = h2
  t1 = t1
  t2 = t2
  p1 = p1
  p2 = p2
  p3 = p3
  p4 = p4
  a = a
  b = b
  ja = ja
  jb = jb
  pack = pack
  None = None
  Handlers = {h1, h2}
  Threads <- MCThreads
  Processes <- MCProcesses
  Workspaces <- MCWorkspaces
  Jobs <- MCJobs
  Home <- MCHome
  Plans = {}
  PlanOf <- MCAlone
  MaxFaults = 0
SPECIFICATION ServerSpec
SYMMETRY ObjectSymmetry
INVARIANTS
  OneKnownWorker
