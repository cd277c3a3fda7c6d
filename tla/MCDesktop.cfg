CONSTANTS
  t1 = t1
  t2 = t2
  l1 = l1
  l2 = l2
  tool = tool
  s1 = s1
  main = main
  other = other
  n1 = n1
  n2 = n2
  e1 = e1
  o1 = o1
  o2 = o2
  p1 = p1
  p2 = p2
  None = None
  Tasks <- MCTasks
  Boots <- MCBoots
  Loads <- MCLoads
  Tools <- MCTools
  Slots <- MCSlots
  Callers <- MCCallers
  Users <- MCUsers
  Nodes <- MCNodes
  Edges <- MCEdges
  Ends <- MCEnds
  Openers <- MCOpeners
  Creators <- MCCreators
  Starts <- MCStarts
  Together = FALSE
  MaxBaseFaults = 2
SPECIFICATION MCSpec
INVARIANTS
  RuntimeIInv
  InitializerIInv
  LoadIInv
  MigrationIInv
PROPERTIES
  CancelWins
  LoadEnds
CHECK_DEADLOCK FALSE
