CONSTANTS
  w1 = w1
  g1 = g1
  k1 = k1
  r1 = r1
  r2 = r2
  NoGrant = NoGrant
  Actions <- MCActions
  Wave <- MCWave
  Grants <- MCGrants
  GrantAsks <- MCGrantAsks
  Campaigns <- MCCampaigns
  Requests <- MCRequests
  Researchers <- MCResearchers
  Overlap = TRUE
  MaxResearchFaults = 1
SPECIFICATION ResearchSpec
INVARIANTS
  ResultBacked
CHECK_DEADLOCK FALSE
