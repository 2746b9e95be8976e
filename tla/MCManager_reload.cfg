\* Files with one section per server and files with lists, over two addresses.
CONSTANTS
  o1 = o1
  o2 = o2
  h1 = h1
  None = None
  Names = {0, 1, 2}
  Binds <- SmallBinds
  Options = {o1, o2}
  Usual = o1
  Hosts = {h1}
  Discoveries <- SmallDiscoveries
  Files <- SmallFiles
  Posted <- SmallPosted
SPECIFICATION CalmSpec
INVARIANTS UnchangedKeepRunning DescribesServers
PROPERTIES SuccessApplies RollbackRestores SectionsServed
