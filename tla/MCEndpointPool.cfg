\* A PATCH, a POST /api/probe and the probing goroutines over two endpoints, read
\* one by one by the goroutine that shares the balancer's array.
SPECIFICATION HSpec
CONSTANTS
  Endpoint = {e1, e2}
  Patcher = {p1}
  ProbeRequest = {h1}
  Priority = {0}
  ParsedPriority <- MCParsed
  ProbeOnStart = TRUE
  Unstable = {}
  Keep = Keep
  None = None
  Saved <- MCSaved
INVARIANT TypeOK
INVARIANT CopiesFresh
PROPERTY LostOnlyToStaleCopy
