\* A PATCH lands while POST /api/probe is probing.
SPECIFICATION Spec
CONSTANTS
  Endpoint = {e1}
  Patcher = {p1}
  ProbeRequest = {h1}
  Priority = {0}
  ParsedPriority <- MCParsed
  ProbeOnStart = FALSE
  Unstable = {}
  Keep = Keep
  None = None
  Saved <- MCSaved
PROPERTY OnlyPatchChangesOverrides
