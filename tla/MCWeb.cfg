CONSTANTS
  w1 = w1
  w2 = w2
  opt = opt
  r1 = r1
  NoGrant = NoGrant
  Actions <- MCActions
  Wave <- MCWave
  Grants <- MCGrants
  GrantAsks <- MCGrantAsks
  Campaigns <- MCCampaigns
  Requests <- MCRequests
  Researchers <- MCResearchers
  Overlap = FALSE
  MaxResearchFaults = 1
  m1 = m1
  m2 = m2
  f1 = f1
  f2 = f2
  x1 = x1
  ka = ka
  kb = kb
  ta = ta
  qa = qa
  c1 = c1
  c2 = c2
  Nobody = Nobody
  Managed <- MCManaged
  Folders <- MCFolders
  OwnId <- MCOwnId
  Keys <- MCKeys
  Titles <- MCTitles
  CloseKeys <- MCCloseKeys
  Threads <- MCThreads
  MaxEntries = 2
  MaxLibFaults = 2
  MaxDiscoveries = 1
  MaxOutside = 1
  va = va
  vb = vb
  Changes <- MCChanges
  Recipes <- MCRecipes
  Contents <- MCContents
  FirstContent = va
  Torn = Torn
  NoContent = NoContent
  MaxCommits = 2
  MaxEdits = 2
  MaxReplaced = 2
  MaxTests = 2
  MaxMeddling = 1
  MaxDeaths = 2
  pk = pk
  h1 = h1
  h2 = h2
  Demands = {1, 2}
  Packages = {pk}
  Adapters <- MCAdapters
  Handlers = {h1, h2}
  Nothing = Nothing
  MaxGenerations = 2
  MaxKills = 1
SPECIFICATION MCSpec
INVARIANTS
  ResearchIInv
  LibraryIInv
  ChangeIInv
  ToolboxIInv
SYMMETRY MCSymmetry
CHECK_DEADLOCK FALSE
