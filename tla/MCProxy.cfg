\* Two connections, two rule lists, one list file that changes once.
SPECIFICATION FairSpec
CONSTANTS
  name = name
  address = address
  list = list
  Conn = {c1, c2}
  c1 = c1
  Listener <- MCListener
  Host = {name, address}
  Name = {name}
  Address <- MCAddress
  File = {list}
  RuleList <- MCRuleList
  Content <- MCContent
  Torrent = {}
  MaxEdits = 1
  None = None
INVARIANTS TypeOK ListCacheTrue FirstMatchWins FlowsSettle
PROPERTY TunnelsUnwind
CHECK_DEADLOCK FALSE
