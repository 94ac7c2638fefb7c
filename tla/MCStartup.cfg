\* Two configurations, loads, writes and restarts that fail, stops anywhere.
SPECIFICATION Spec
CONSTANTS
  Config <- MCConfig
  Toggled = {"vless-a2"}
  Priority = {1}
  Bad = Bad
  None = None
INVARIANTS
  TypeOK
  URIsUnique
  DialsReachOwnServer
  SpoofLeadsHome
  ClaimedOnce
  SharedIdsSameSource
  OverridesSurvive
