\* The probing goroutines, a PATCH and a call that may not reach its destination,
\* under the fairness of all of them.
SPECIFICATION DFairSpec
CONSTANTS
  Endpoint = {e1}
  Patcher = {p1}
  ProbeRequest = {}
  Priority = {0}
  ParsedPriority <- MCParsed
  ProbeOnStart = TRUE
  Unstable = {e1}
  Keep = Keep
  None = None
  Saved = {None}
  Dialer = {d1}
  Destination = {"good", "bad"}
  MaxDialAttempts = 2
  BlockDirect = {FALSE}
  Strategy = {"other"}
PROPERTY StatusConverges
PROPERTY OverridesReachDisk
PROPERTY CallsEnd
PROPERTY PoolSpec
