CONSTANTS
  h1 = h1
  h2 = h2
  t1 = t1
  t2 = t2
  p1 = p1
  p2 = p2
  p3 = p3
  p4 = p4
  a = a
  b = b
  ja = ja
  jb = jb
  pack = pack
  None = None
  Handlers = {h1}
  Threads <- MCThreads
  Processes <- MCThree
  Workspaces <- MCOne
  Jobs <- MCJobs
  Home <- MCTogether
  Plans = {pack}
  PlanOf <- MCPacked
  MaxFaults = 1
SPECIFICATION FairSpec
PROPERTIES
  SeenIsServed
  StopSettles
