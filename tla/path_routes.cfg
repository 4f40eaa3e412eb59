SPECIFICATION Spec
CONSTANTS
  a = a
  b = b
  nobody = nobody
  Proc = {a, b}
  Callers = {a}
  Crashers = {a}
  NoPid = nobody
  Outs <- WiredOuts
  Ins <- WiredIns
  Jacks = {"none", "three"}
  Duals = {TRUE}
  Forces = {FALSE}
  AifFirst = TRUE
  ScriptFails = FALSE
  AifFails = FALSE
  Resets = TRUE
INVARIANT PathIsSupported
INVARIANT DeviceFollowsPath
INVARIANT SuccessMeansRouted
PROPERTY CallIsProtected
