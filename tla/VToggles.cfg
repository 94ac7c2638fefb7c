\* One configuration; an endpoint is toggled and one load fails later.
SPECIFICATION Spec
CONSTANTS
  Config <- MCConfig1
  Toggled = {"vless-a"}
  Priority = {1}
  Bad = Bad
  None = None
INVARIANT TogglesSurvive
