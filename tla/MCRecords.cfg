CONSTANTS
  c1 = c1
  c2 = c2
  mail = mail
  file = file
  n1 = n1
  n2 = n2
  o1 = o1
  o2 = o2
  p1 = p1
  p2 = p2
  y1 = y1
  y2 = y2
  Manual = Manual
  None = None
  Conns <- MCConns
  Evidence <- MCEvidence
  Dropped <- MCDropped
  Entities <- MCEntities
  Observations <- MCObservations
  EvidenceOf <- MCEvidenceOf
  Extracted <- MCExtracted
  Pairs <- MCPairs
  Types <- MCTypes
  Ops <- MCOps
  MaxCommits <- MCMaxCommits
  e1 = e1
  e2 = e2
  NoPub = NoPub
  Pieces <- MCPieces
  Persons <- MCEntities
  Valued <- MCValued
  FirstDbs <- MCFirst
  x1 = x1
  x2 = x2
  Executions <- MCExecutions
  RanOn <- MCRanOn
  Found <- MCFound
  Together <- MCTogether
  MaxVersions = 3
  MaxNodes = 7
  MaxIndexed = 2
  e3 = e3
  v1 = v1
  v2 = v2
  rel1 = rel1
  rel2 = rel2
  ty = ty
  bad = bad
  Readers = {n1, n2}
  CallsOf <- MCCallsOf
  FirstBase <- MCFirstBase
  Malformed = bad
  NoCall = NoCall
  MaxReadFaults = 1
  MaxReadCalls <- MCMaxCalls
SYMMETRY MCPerms
SPECIFICATION MCSpec
INVARIANTS
  RecordsIInv
  PublishedWhole
  ReviewRefreshed
  ReadsIInv
PROPERTIES
  ServicesExact
CHECK_DEADLOCK FALSE
