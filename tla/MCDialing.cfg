\* Two dials of two attempts while a PATCH reorders the endpoints and turns them
\* on and off, a POST /api/probe revives what a dial marked, a server flaps and
\* both switches are toggled.
SPECIFICATION DSpec
CONSTANTS
  Endpoint = {e1, e2}
  Patcher = {p1}
  ProbeRequest = {h1}
  Priority = {0, 1}
  ParsedPriority <- MCParsed
  ProbeOnStart = FALSE
  Unstable = {e1}
  Keep = Keep
  None = None
  Saved <- MCOrdered
  Dialer = {d1, d2}
  Destination = {"good"}
  MaxDialAttempts = 2
  BlockDirect = {TRUE, FALSE}
  Strategy = {"priority", "other"}
INVARIANT DTypeOK
INVARIANT StatsAddUp
INVARIANT NoLiveEndpointSkipped
INVARIANT NoDirectWhileBlocked
INVARIANT AttemptsSpendEndpoints
INVARIANT BestSteadyEndpointDialed
