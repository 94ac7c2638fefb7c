\* Every change of the pool, with a page that is watched or with docker.
SPECIFICATION FairSpec
CONSTANTS
  Client = {c1}
  Call = {g1, g2}
  g1 = g1
  HubRoom = 1
  LogRoom = 1
  MaxPool = 2
  None = None
  Sent = Sent
  Mixed = Mixed
  Scenario <- MCScenario
INVARIANTS TypeOK NoSendOnClosed IdleFeedsCurrent ContainerFollowsToggle
PROPERTIES GoneClientsReleased BroadcastsEnd
